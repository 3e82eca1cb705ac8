-------------------------- MODULE SmallPartsProofs --------------------------
(***************************************************************************)
(* The parts of SmallParts, each by itself and together.  A token is granted fewer than    *)
(* twice its rate in any second, for every set of tokens and                *)
(* every rate; an address is served at most twice its limit in any minute,   *)
(* and what Redis did not answer for, as long as it loses no counter, for    *)
(* every limit, every division of a minute into ticks and every time to live *)
(* that is no shorter than it; every migration takes effect once, for   *)
(* any number of replicas, images, versions and restarts; a score is what    *)
(* the exam was worth while it was graded, for every exam and sheet; and     *)
(* what is published has questions and stays as it was, and versions grow,  *)
(* for any number of exams, questions and requests.                        *)
(***************************************************************************)
EXTENDS SmallParts, FiniteSetTheorems, SequenceTheorems, TLAPS

(***************************************************************************)
(* RateWindow: what a token is granted                                     *)
(***************************************************************************)

(* What the window counted is still in the backlog, but for what leaked     *)
(* from it, one slot a tick, since the window was opened.                  *)
GrantedIsBacklog ==
    \A k \in Tokens : window.granted[k] <= backlog[k] + window.age

IInv == TypeOK /\ GrantedIsBacklog

LEMMA NoWindowType == NoWindow \in Window
BY RPSAssumption DEF NoWindow, Window

(* The invariant holds before anybody asks.                                *)
LEMMA InitIInv == Init => IInv
BY NoWindowType, RPSAssumption
   DEF Init, PoolInit, IInv, TypeOK, PoolTypeOK, GrantedIsBacklog, NoWindow

(* Opening a window, whatever the backlog is then.                         *)
LEMMA OpenIInv == IInv /\ Open => IInv'
<1> SUFFICES ASSUME IInv, Open PROVE IInv'
    OBVIOUS
<1>1. window' = [open |-> TRUE, age |-> 0, granted |-> [k \in Tokens |-> 0]]
    BY DEF Open, NoWindow
<1>2. window' \in Window
    BY <1>1, RPSAssumption DEF Window
<1> QED
    BY <1>1, <1>2 DEF IInv, TypeOK, PoolTypeOK, GrantedIsBacklog, Open

(* A grant adds one to the backlog of its token, and at most one to what    *)
(* the window counted of it.                                               *)
LEMMA AcquireIInv == ASSUME IInv, NEW k \in Tokens, Acquire(k) PROVE IInv'
<1>1. /\ backlog' = [backlog EXCEPT ![k] = @ + 1]
      /\ backlog[k] < RPS
      /\ backlog \in [Tokens -> 0..RPS]
      /\ window \in Window
    BY DEF Acquire, Grant, Allowed, IInv, TypeOK, PoolTypeOK
<1>2. PoolTypeOK'
    BY <1>1, RPSAssumption DEF PoolTypeOK
<1>3. CASE ~window.open
    BY <1>1, <1>2, <1>3, RPSAssumption
       DEF Acquire, IInv, TypeOK, GrantedIsBacklog, Window
<1>4. CASE window.open
  <2> DEFINE g == [window.granted EXCEPT ![k] = @ + 1]
  <2>1. window' = [window EXCEPT !.granted = g]
      BY <1>4 DEF Acquire
  <2>2. g \in [Tokens -> Nat]
      BY <1>1 DEF Window
  <2>3. \A j \in Tokens : g[j] <= backlog'[j] + window.age
      BY <1>1, RPSAssumption DEF IInv, GrantedIsBacklog, Window
  <2> HIDE DEF g
  <2>4. window' \in Window /\ window'.granted = g /\ window'.age = window.age
      BY <2>1, <2>2, <1>1 DEF Window
  <2> QED
      BY <2>3, <2>4, <1>2 DEF IInv, TypeOK, GrantedIsBacklog
<1> QED
    BY <1>3, <1>4

(* A tick leaks at most one slot of a token while the window ages by one.   *)
LEMMA TickIInv == IInv /\ Tick => IInv'
<1> SUFFICES ASSUME IInv, Tick PROVE IInv'
    OBVIOUS
<1>1. /\ backlog' = [j \in Tokens |-> IF backlog[j] > 0 THEN backlog[j] - 1 ELSE 0]
      /\ backlog \in [Tokens -> 0..RPS]
      /\ window \in Window
    BY DEF Tick, Elapse, IInv, TypeOK, PoolTypeOK
<1>2. PoolTypeOK'
    BY <1>1, RPSAssumption DEF PoolTypeOK
<1>3. CASE window.open /\ window.age < RPS - 1
  <2>1. window' = [window EXCEPT !.age = @ + 1]
      BY <1>3 DEF Tick
  <2>2. /\ window' \in Window
        /\ window'.granted = window.granted
        /\ window'.age = window.age + 1
      BY <2>1, <1>1, <1>3, RPSAssumption DEF Window
  <2> QED
      BY <1>1, <1>2, <2>2, RPSAssumption
         DEF IInv, TypeOK, GrantedIsBacklog, Window
<1>4. CASE ~(window.open /\ window.age < RPS - 1)
  <2>1. window' = NoWindow
      BY <1>4 DEF Tick
  <2>2. window'.age = 0 /\ \A j \in Tokens : window'.granted[j] = 0
      BY <2>1 DEF NoWindow
  <2>3. \A j \in Tokens : 0 <= backlog'[j] + 0
      BY <1>2, RPSAssumption DEF PoolTypeOK
  <2> QED
      BY <1>2, <2>1, <2>2, <2>3, NoWindowType
         DEF IInv, TypeOK, GrantedIsBacklog
<1> QED
    BY <1>3, <1>4

(* The invariant, for every step.                                          *)
LEMMA NextIInv == IInv /\ [Next]_vars => IInv'
<1> SUFFICES ASSUME IInv, [Next]_vars PROVE IInv'
    OBVIOUS
<1>1. CASE UNCHANGED vars
    BY <1>1 DEF vars, IInv, TypeOK, PoolTypeOK, GrantedIsBacklog
<1> QED
    BY <1>1, OpenIInv, AcquireIInv, TickIInv DEF Next

(* The backlog stays within the burst and the window within its second.     *)
THEOREM TypeCorrect == Spec => []TypeOK
<1>1. IInv => TypeOK
    BY DEF IInv
<1> QED
    BY <1>1, InitIInv, NextIInv, PTL DEF Spec

(* Acquire, called by any number of workers of any number of replicas, lets *)
(* a token through fewer than twice its rate in any second.                 *)
THEOREM RateTheorem == Spec => []RateBounded
<1>1. IInv => RateBounded
  <2> SUFFICES ASSUME IInv, NEW k \in Tokens
               PROVE  window.granted[k] <= 2 * RPS - 1
      BY DEF RateBounded
  <2>1. backlog[k] \in 0..RPS /\ RPS \in Nat
      BY RPSAssumption DEF IInv, TypeOK, PoolTypeOK
  <2>2. window.age \in 0..(RPS - 1) /\ window.granted[k] \in Nat
      BY DEF IInv, TypeOK, Window
  <2>3. window.granted[k] <= backlog[k] + window.age
      BY DEF IInv, GrantedIsBacklog
  <2> QED
      BY <2>1, <2>2, <2>3
<1> QED
    BY <1>1, InitIInv, NextIInv, PTL DEF Spec

(***************************************************************************)
(* GatewayRateLimit: what an address is served                             *)
(***************************************************************************)


\* A counter that was given a time to live has it until its minute is over.
Outlives == left > 0 => left + phase >= Ttl

\* A spell is in the minute in which it was opened, or in the next one.
Opened == /\ spell.age <= phase
          /\ spell.served <= count + spell.unchecked
          /\ spell.served <= PerMinute + spell.unchecked
Crossed == /\ phase < spell.age
           /\ spell.served <= PerMinute + count + spell.unchecked
           /\ spell.served <= 2 * PerMinute + spell.unchecked
Straddles == IF spell.crossed THEN Crossed ELSE Opened

LimitInv == LimitTypeOK /\ Outlives /\ Straddles

(* A spell has its fields, each of its type, and is made of them.            *)
LEMMA SpellFields ==
    ASSUME spell \in Spell
    PROVE  /\ spell.open \in BOOLEAN /\ spell.crossed \in BOOLEAN
           /\ spell.age \in 0..(Minute - 1) /\ spell.served \in Nat
           /\ spell.unchecked \in Nat
BY DEF Spell

(* The first state of the counter and of the spell.                          *)
LEMMA LimitInvInit == LimitInit => LimitInv
BY LimitAssumption DEF LimitInit, LimitInv, LimitTypeOK, Spell, NoSpell, Outlives,
                       Straddles, Opened

(* A request adds one to the counter and at most one to the spell.           *)
LEMMA HitKeeps == LimitInv /\ Hit => LimitInv'
<1> SUFFICES ASSUME LimitInv, Hit PROVE LimitInv'
    OBVIOUS
<1> USE LimitAssumption
<1>1. /\ phase \in 0..(Minute - 1) /\ count \in 0..(PerMinute + 1) /\ left \in 0..Ttl
      /\ spell \in Spell
    BY DEF LimitInv, LimitTypeOK
<1>2. /\ phase' = phase /\ count' = Counted
    BY DEF Hit
<1>3. count' \in 0..(PerMinute + 1) /\ count <= count'
    BY <1>1, <1>2 DEF Counted
<1>4. left' \in 0..Ttl /\ Outlives'
    <2>1. CASE count = 0
        BY <2>1, <1>1, <1>2 DEF Hit, Outlives
    <2>2. CASE count # 0
        BY <2>2, <1>1, <1>2 DEF Hit, Outlives, LimitInv
    <2> QED BY <2>1, <2>2
<1>5. CASE spell.open /\ Served
    <2>1. spell' = [spell EXCEPT !.served = @ + 1]
        BY <1>5 DEF Hit
    <2>2. count' = count + 1 /\ count' <= PerMinute
        BY <1>5, <1>1, <1>2 DEF Served, Counted
    <2>3. /\ spell' \in Spell /\ spell'.served = spell.served + 1
          /\ spell'.age = spell.age /\ spell'.crossed = spell.crossed
          /\ spell'.unchecked = spell.unchecked
        BY <2>1, <1>1, SpellFields DEF Spell
    <2>4. Straddles'
        BY <2>2, <2>3, <1>1, <1>2, SpellFields DEF LimitInv, Straddles, Opened, Crossed
    <2> QED BY <2>3, <2>4, <1>1, <1>2, <1>3, <1>4 DEF LimitInv, LimitTypeOK, Spell
<1>6. CASE ~ (spell.open /\ Served)
    <2>1. spell' = spell
        BY <1>6 DEF Hit
    <2>2. Straddles'
        BY <2>1, <1>1, <1>2, <1>3, SpellFields DEF LimitInv, Straddles, Opened, Crossed
    <2> QED BY <2>1, <2>2, <1>1, <1>2, <1>3, <1>4 DEF LimitInv, LimitTypeOK, Spell
<1> QED BY <1>5, <1>6

(* INCR keeps a counter within its type, and never takes from it.            *)
LEMMA CountedType ==
    ASSUME LimitInv
    PROVE  count \in 0..(PerMinute + 1) /\ Counted \in 0..(PerMinute + 1) /\ count <= Counted
BY LimitAssumption DEF LimitInv, LimitTypeOK, Counted

(* A request that Redis does not answer for is served beyond the limit, one   *)
(* of those the bound makes room for; and a counter may count it.            *)
LEMMA UncheckedKeeps == LimitInv /\ (HitUnchecked \/ CountedTwice) => LimitInv'
<1> SUFFICES ASSUME LimitInv, HitUnchecked \/ CountedTwice PROVE LimitInv'
    OBVIOUS
<1> USE LimitAssumption
<1>1. /\ phase \in 0..(Minute - 1) /\ count \in 0..(PerMinute + 1) /\ left \in 0..Ttl
      /\ spell \in Spell
    BY DEF LimitInv, LimitTypeOK
<1>2. /\ phase' = phase /\ left' = left
      /\ count' \in 0..(PerMinute + 1) /\ count <= count'
    BY <1>1, CountedType DEF HitUnchecked, CountedTwice
<1>3. CASE spell' = spell
    <2>1. Straddles'
        BY <1>1, <1>2, <1>3, SpellFields DEF LimitInv, Straddles, Opened, Crossed
    <2> QED BY <2>1, <1>1, <1>2, <1>3 DEF LimitInv, LimitTypeOK, Outlives, Spell
<1>4. CASE spell' = [spell EXCEPT !.served = @ + 1, !.unchecked = @ + 1]
    <2> DEFINE n == spell.served + 1
               m == spell.unchecked + 1
    <2>0. /\ spell' = [spell EXCEPT !.served = n, !.unchecked = m]
          /\ n \in Nat /\ n = spell.served + 1 /\ m \in Nat /\ m = spell.unchecked + 1
        BY <1>1, <1>4, SpellFields
    <2> HIDE DEF n, m
    <2>1. /\ spell' \in Spell
          /\ spell'.served = spell.served + 1 /\ spell'.unchecked = spell.unchecked + 1
          /\ spell'.age = spell.age /\ spell'.crossed = spell.crossed
        BY <1>1, <2>0 DEF Spell
    <2>2. Straddles'
        BY <2>1, <1>1, <1>2, SpellFields DEF LimitInv, Straddles, Opened, Crossed
    <2> QED BY <2>1, <2>2, <1>1, <1>2 DEF LimitInv, LimitTypeOK, Outlives
<1> QED BY <1>3, <1>4 DEF HitUnchecked, CountedTwice

(* Redis loses a counter, or part of it: no spell is open.                    *)
LEMMA ForgetKeeps == LimitInv /\ Forget => LimitInv'
<1> SUFFICES ASSUME LimitInv, Forget PROVE LimitInv'
    OBVIOUS
<1> USE LimitAssumption
<1>1. /\ phase \in 0..(Minute - 1) /\ count \in 0..(PerMinute + 1) /\ left \in 0..Ttl
    BY DEF LimitInv, LimitTypeOK
<1>2. phase' = phase /\ count' \in 0..(PerMinute + 1) /\ left' \in {0, left}
    BY <1>1 DEF Forget
<1>3. spell' \in Spell /\ Straddles'
    <2>1. spell' = [open |-> FALSE, crossed |-> FALSE, age |-> 0, served |-> 0, unchecked |-> 0]
        BY DEF Forget, NoSpell
    <2>2. /\ spell' \in Spell /\ ~ spell'.crossed /\ spell'.age = 0
          /\ spell'.unchecked \in Nat /\ spell'.served = spell'.unchecked
        BY <2>1 DEF Spell
    <2>3. phase' \in Nat /\ count' \in Nat
        BY <1>1, <1>2
    <2> QED BY <2>2, <2>3 DEF Straddles, Opened
<1>4. Outlives' /\ left' \in 0..Ttl
    <2>1. CASE left' = 0
        BY <1>1, <2>1 DEF Outlives
    <2>2. CASE left' = left
        BY <1>1, <1>2, <2>2 DEF LimitInv, Outlives
    <2> QED BY <1>2, <2>1, <2>2
<1> QED BY <1>1, <1>2, <1>3, <1>4 DEF LimitInv, LimitTypeOK

(* A spell is opened empty.                                                  *)
LEMMA OpenSpellKeeps == LimitInv /\ OpenSpell => LimitInv'
<1> SUFFICES ASSUME LimitInv, OpenSpell PROVE LimitInv'
    OBVIOUS
<1> USE LimitAssumption
<1>1. UNCHANGED <<phase, count, left>>
    BY DEF OpenSpell
<1>2. spell' = [open |-> TRUE, crossed |-> FALSE, age |-> 0, served |-> 0, unchecked |-> 0]
    BY DEF OpenSpell, NoSpell
<1>3. spell' \in Spell /\ Straddles'
    BY <1>1, <1>2 DEF LimitInv, LimitTypeOK, Spell, Straddles, Opened
<1> QED BY <1>1, <1>3 DEF LimitInv, LimitTypeOK, Outlives, Spell

(* No counter dies before the minute, so it starts again at the turn only,   *)
(* and no spell sees two turns.                                             *)
LEMMA SecondKeeps == LimitInv /\ Second => LimitInv'
<1> SUFFICES ASSUME LimitInv, Second PROVE LimitInv'
    OBVIOUS
<1> USE LimitAssumption
<1>1. /\ phase \in 0..(Minute - 1) /\ count \in 0..(PerMinute + 1) /\ left \in 0..Ttl
      /\ spell \in Spell
    BY DEF LimitInv, LimitTypeOK
<1>2. left = 1 => Turns
    BY <1>1 DEF LimitInv, Outlives, Turns
<1>3. /\ phase' \in 0..(Minute - 1) /\ phase' = IF Turns THEN 0 ELSE phase + 1
      /\ count' = IF Turns THEN 0 ELSE count
    BY <1>1, <1>2 DEF Second, Turns
<1>4. left' \in 0..Ttl /\ Outlives'
    BY <1>1, <1>2, <1>3 DEF Second, Turns, Outlives, LimitInv
<1>5. CASE spell.open /\ spell.age < Minute - 1
    <2> DEFINE turned == spell.crossed \/ Turns
    <2>1. spell' = [spell EXCEPT !.age = spell.age + 1, !.crossed = turned]
        BY <1>5 DEF Second
    <2>2. turned \in BOOLEAN
        BY SpellFields, <1>1 DEF Turns
    <2>3. turned = (spell.crossed \/ Turns)
        OBVIOUS
    <2> HIDE DEF turned
    <2>4. /\ spell.open \in BOOLEAN /\ spell.age + 1 \in 0..(Minute - 1)
          /\ spell.served \in Nat /\ spell.unchecked \in Nat
        BY <1>1, <1>5, SpellFields
    <2>5. /\ spell'.served = spell.served /\ spell'.age = spell.age + 1
          /\ spell'.crossed = turned /\ spell'.unchecked = spell.unchecked
        BY <2>1, <1>1 DEF Spell
    <2>6. spell' \in Spell
        BY <2>1, <2>2, <2>4, <1>1 DEF Spell
    <2>7. ASSUME Turns PROVE Straddles'
        <3>1. ~ spell.crossed
            BY <2>7, <1>1, SpellFields DEF LimitInv, Straddles, Crossed, Turns
        <3>2. turned
            BY <2>7, <2>3
        <3>3. Opened /\ phase' = 0 /\ count' = 0
            BY <3>1, <2>7, <1>3 DEF LimitInv, Straddles
        <3>4. /\ phase' < spell'.age
              /\ spell'.served <= PerMinute + count' + spell'.unchecked
              /\ spell'.served <= 2 * PerMinute + spell'.unchecked
            BY <3>3, <2>5, <1>1, SpellFields DEF Opened
        <3> QED BY <3>2, <3>4, <2>5 DEF Straddles, Crossed
    <2>8. ASSUME ~ Turns PROVE Straddles'
        BY <2>8, <2>5, <2>3, <1>1, <1>3, SpellFields DEF LimitInv, Straddles, Opened, Crossed
    <2>9. Straddles' => LimitInv'
        BY <2>6, <1>3, <1>4 DEF LimitInv, LimitTypeOK
    <2> QED BY <2>7, <2>8, <2>9
<1>6. CASE ~ (spell.open /\ spell.age < Minute - 1)
    <2>1. spell' = NoSpell
        BY <1>6 DEF Second
    <2> QED BY <2>1, <1>1, <1>3, <1>4 DEF LimitInv, LimitTypeOK, Spell, NoSpell,
                                          Straddles, Opened
<1> QED BY <1>5, <1>6

(* Every reachable state of the rate limit satisfies the invariant.          *)
THEOREM LimitInvariant == LimitSpec => []LimitInv
<1>1. LimitInv /\ [LimitNext]_limitVars => LimitInv'
    <2> SUFFICES ASSUME LimitInv, [LimitNext]_limitVars PROVE LimitInv'
        OBVIOUS
    <2>1. CASE Hit BY <2>1, HitKeeps
    <2>5. CASE HitUnchecked \/ CountedTwice BY <2>5, UncheckedKeeps
    <2>6. CASE Forget BY <2>6, ForgetKeeps
    <2>2. CASE OpenSpell BY <2>2, OpenSpellKeeps
    <2>3. CASE Second BY <2>3, SecondKeeps
    <2>4. CASE UNCHANGED limitVars
        BY <2>4 DEF limitVars, LimitInv, LimitTypeOK, Outlives, Straddles, Opened,
                    Crossed, Spell
    <2> QED BY <2>1, <2>2, <2>3, <2>4, <2>5, <2>6 DEF LimitNext
<1> QED BY <1>1, LimitInvInit, PTL DEF LimitSpec

(* Whenever a minute is opened in which Redis loses no counter, an address is *)
(* served at most twice its limit in it, and the requests for which Redis    *)
(* did not answer.                                                         *)
THEOREM MinuteTheorem == LimitSpec => []MinuteBounded
<1>1. LimitInv => MinuteBounded
    BY LimitAssumption, SpellFields
    DEF LimitInv, LimitTypeOK, Straddles, Opened, Crossed, MinuteBounded
<1> QED BY <1>1, LimitInvariant, PTL

(***************************************************************************)
(* Migrator: every migration takes effect once                             *)
(***************************************************************************)

\* A migration is being applied, or its row is written and not yet committed.
Applying(r) == replica[r].pc \in {"execute", "record", "commit"}

\* What a transaction has done when it gets to a statement.
InTransaction(r) ==
    /\ replica[r].pc \in {"record", "commit"} => replica[r].ran
    /\ replica[r].row <=> replica[r].pc = "commit"
    /\ Applying(r) => replica[r].at <= Len(image[r])
    /\ replica[r].pc = "commit" => recorded[replica[r].at] = Absent

\* The primary key: one open transaction inserted a version.
RowsApart == \A q, r \in Replicas :
    replica[q].row /\ replica[r].row /\ q # r => replica[q].at # replica[r].at

\* What a replica read is so for ever, and it has passed what is recorded.
Passed(r) ==
    /\ \A v \in 1..Versions : replica[r].known[v] # Absent => recorded[v] = replica[r].known[v]
    /\ \A v \in 1..Versions : v < replica[r].at =>
           v <= Len(image[r]) /\ recorded[v] = image[r][v]
    /\ replica[r].pc = "serving" => Len(image[r]) < replica[r].at

\* The scripts that took effect are those recorded, in order.
InOrder ==
    /\ Len(effects) <= Versions
    /\ \A i \in 1..Len(effects) : effects[i].version = i
    /\ \A v \in 1..Versions :
         recorded[v] = IF v <= Len(effects) THEN effects[v].checksum ELSE Absent

MigratorInv ==
    /\ MigratorTypeOK
    /\ InOrder
    /\ RowsApart
    /\ \A r \in Replicas : InTransaction(r) /\ Passed(r)

-----------------------------------------------------------------------------

(* An image is a sequence of checksums, no longer than Versions.             *)
LEMMA ImageIsSequence ==
    ASSUME NEW f \in Images
    PROVE  f \in Seq(Checksums) /\ Len(f) \in 0..Versions /\ DOMAIN f = 1..Len(f)
<1>1. PICK n \in 0..Versions : f \in [1..n -> Checksums]
    BY DEF Images
<1>2. n \in Nat
    BY VersionsAssumption
<1>3. f \in Seq(Checksums)
    BY <1>1, <1>2
<1>4. Len(f) = n
    BY <1>1, <1>2, <1>3
<1> QED BY <1>1, <1>3, <1>4

(* Each replica has the fields of a replica, each of its type.               *)
LEMMA ReplicaFields ==
    ASSUME NEW q \in Replica
    PROVE  /\ q.pc \in {"ensure", "create", "fetch", "file", "execute", "record", "commit",
                        "serving", "refused"}
           /\ q.known \in [1..Versions -> Checksums \cup {Absent}]
           /\ q.at \in 1..(Versions + 1)
           /\ q.ran \in BOOLEAN /\ q.row \in BOOLEAN
BY DEF Replica

(* A starting replica knows nothing and has nothing open.                    *)
LEMMA StartingFields ==
    /\ Starting \in Replica
    /\ Starting.pc = "ensure" /\ Starting.known = Nothing /\ Starting.at = 1
    /\ Starting.ran = FALSE /\ Starting.row = FALSE
    /\ \A v \in 1..Versions : Starting.known[v] = Absent
BY VersionsAssumption DEF Starting, Replica, Nothing

(* A step that gives one replica its next record `q`, and leaves the tables  *)
(* alone, keeps the invariant if `q` keeps its own part.                     *)
LEMMA ReplicaChanges ==
    ASSUME MigratorInv, NEW r \in Replicas, NEW q \in Replica,
           replica' = [replica EXCEPT ![r] = q],
           UNCHANGED <<recorded, effects>>, meta' \in BOOLEAN, image' \in [Replicas -> Images],
           \A p \in Replicas : p # r => image'[p] = image[p],
           q.pc \in {"record", "commit"} => q.ran,
           q.row <=> q.pc = "commit",
           q.pc \in {"execute", "record", "commit"} => q.at <= Len(image'[r]),
           q.pc = "commit" => recorded[q.at] = Absent,
           q.row => \A p \in Replicas : p # r /\ replica[p].row => replica[p].at # q.at,
           \A v \in 1..Versions : q.known[v] # Absent => recorded[v] = q.known[v],
           \A v \in 1..Versions : v < q.at => v <= Len(image'[r]) /\ recorded[v] = image'[r][v],
           q.pc = "serving" => Len(image'[r]) < q.at
    PROVE  MigratorInv'
<1>1. replica \in [Replicas -> Replica]
    BY DEF MigratorInv, MigratorTypeOK
<1>2. /\ replica' \in [Replicas -> Replica] /\ replica'[r] = q
      /\ \A p \in Replicas : p # r => replica'[p] = replica[p]
    BY <1>1
<1>3. MigratorTypeOK'
    BY <1>2 DEF MigratorInv, MigratorTypeOK
<1>4. InOrder'
    BY DEF MigratorInv, InOrder
<1>5. RowsApart'
    BY <1>2 DEF MigratorInv, RowsApart
<1>6. ASSUME NEW p \in Replicas PROVE InTransaction(p)' /\ Passed(p)'
    <2>1. CASE p = r
        BY <2>1, <1>2 DEF InTransaction, Passed, Applying
    <2>2. CASE p # r
        BY <2>2, <1>2 DEF MigratorInv, InTransaction, Passed, Applying
    <2> QED BY <2>1, <2>2
<1> QED BY <1>3, <1>4, <1>5, <1>6 DEF MigratorInv

(* A replica that starts again has everything before it.                     *)
LEMMA Restarts ==
    ASSUME MigratorInv, NEW r \in Replicas,
           replica' = [replica EXCEPT ![r] = Starting],
           UNCHANGED <<recorded, effects>>, meta' \in BOOLEAN, image' \in [Replicas -> Images],
           \A p \in Replicas : p # r => image'[p] = image[p]
    PROVE  MigratorInv'
<1>1. \A v \in 1..Versions : ~ (v < Starting.at)
    BY StartingFields
<1> QED BY <1>1, StartingFields, ReplicaChanges

(* The first state.                                                          *)
LEMMA MigratorInvInit == MigratorInit => MigratorInv
<1> SUFFICES ASSUME MigratorInit PROVE MigratorInv
    OBVIOUS
<1>1. /\ image \in [Replicas -> Images] /\ meta = FALSE
      /\ recorded = Nothing /\ effects = <<>> /\ \A r \in Replicas : replica[r] = Starting
      /\ replica \in [Replicas -> Replica]
    BY StartingFields DEF MigratorInit
<1>2. effects \in Seq(File) /\ Len(effects) = 0
    BY <1>1
<1>3. /\ recorded \in [1..Versions -> Checksums \cup {Absent}]
      /\ \A v \in 1..Versions : recorded[v] = Absent
    BY <1>1 DEF Nothing
<1>4. MigratorTypeOK
    BY <1>1, <1>2, <1>3 DEF MigratorTypeOK
<1>5. InOrder
    BY <1>2, <1>3, VersionsAssumption DEF InOrder
<1>6. ASSUME NEW r \in Replicas PROVE InTransaction(r) /\ Passed(r)
    BY <1>1, StartingFields DEF InTransaction, Passed, Applying
<1>7. RowsApart
    BY <1>1, StartingFields DEF RowsApart
<1> QED BY <1>4, <1>5, <1>6, <1>7 DEF MigratorInv

(* A step that only moves the program counter of a replica, to where nothing *)
(* is open, keeps the invariant.                                             *)
LEMMA Moves ==
    ASSUME MigratorInv, NEW r \in Replicas,
           NEW p \in {"create", "fetch", "execute", "serving", "refused"},
           ReplicaGoes(r, p), ~replica[r].row,
           UNCHANGED <<image, recorded, effects>>, meta' \in BOOLEAN,
           p = "execute" => replica[r].at <= Len(image[r]),
           p = "serving" => Len(image[r]) < replica[r].at
    PROVE  MigratorInv'
<1> DEFINE q == [replica[r] EXCEPT !.pc = p]
<1>1. replica[r] \in Replica /\ image \in [Replicas -> Images]
    BY DEF MigratorInv, MigratorTypeOK
<1>2. /\ q \in Replica /\ q.pc = p /\ q.known = replica[r].known /\ q.at = replica[r].at
      /\ q.ran = replica[r].ran /\ q.row = replica[r].row
    BY <1>1 DEF Replica
<1>3. replica' = [replica EXCEPT ![r] = q]
    BY DEF ReplicaGoes
<1>4. Passed(r)
    BY DEF MigratorInv
<1> HIDE DEF q
<1>5. /\ \A v \in 1..Versions : q.known[v] # Absent => recorded[v] = q.known[v]
      /\ \A v \in 1..Versions : v < q.at => v <= Len(image[r]) /\ recorded[v] = image[r][v]
    BY <1>2, <1>4 DEF Passed
<1> QED BY <1>1, <1>2, <1>3, <1>5, ReplicaChanges

(* The table of migrations is made and read.                                 *)
LEMMA FirstStepsKeep ==
    ASSUME MigratorInv, NEW r \in Replicas, EnsureFind(r) \/ EnsureCreate(r) \/ FetchApplied(r)
    PROVE  MigratorInv'
<1>0. /\ replica[r] \in Replica /\ meta \in BOOLEAN /\ image \in [Replicas -> Images]
      /\ InTransaction(r) /\ replica \in [Replicas -> Replica]
      /\ recorded \in [1..Versions -> Checksums \cup {Absent}]
    BY DEF MigratorInv, MigratorTypeOK
<1>1. CASE EnsureFind(r)
    <2>1. ~replica[r].row
        BY <1>0, <1>1 DEF EnsureFind, InTransaction
    <2>2. PICK p \in {"create", "fetch"} : ReplicaGoes(r, p)
        BY <1>1 DEF EnsureFind
    <2>3. UNCHANGED <<image, meta, recorded, effects>>
        BY <1>1 DEF EnsureFind
    <2> QED BY <2>1, <2>2, <2>3, <1>0, Moves
<1>2. CASE EnsureCreate(r)
    <2>1. CASE meta
        BY <2>1, <1>2, <1>0, Restarts DEF EnsureCreate
    <2>2. CASE ~meta
        <3>1. ReplicaGoes(r, "fetch")
            BY <2>2, <1>2 DEF EnsureCreate, ReplicaGoes
        <3> QED BY <3>1, <1>2, <1>0, Moves DEF EnsureCreate, InTransaction
    <2> QED BY <2>1, <2>2
<1>3. CASE FetchApplied(r)
    <2> DEFINE q == [replica[r] EXCEPT !.known = recorded, !.pc = "file"]
    <2>1. /\ q \in Replica /\ q.pc = "file" /\ q.known = recorded /\ q.at = replica[r].at
          /\ q.row = replica[r].row
        BY <1>0 DEF Replica
    <2>2. replica' = [replica EXCEPT ![r] = q]
        BY <1>3, <1>0 DEF FetchApplied
    <2>3. ~replica[r].row
        BY <1>0, <1>3 DEF FetchApplied, InTransaction
    <2>4. UNCHANGED <<image, meta, recorded, effects>>
        BY <1>3 DEF FetchApplied
    <2>5. Passed(r)
        BY DEF MigratorInv
    <2> HIDE DEF q
    <2>6. \A v \in 1..Versions : v < q.at => v <= Len(image[r]) /\ recorded[v] = image[r][v]
        BY <2>1, <2>5 DEF Passed
    <2> QED BY <2>1, <2>2, <2>3, <2>4, <2>6, <1>0, ReplicaChanges
<1> QED BY <1>1, <1>2, <1>3

(* A replica looks at its next file.                                         *)
LEMMA NextFileKeeps ==
    ASSUME MigratorInv, NEW r \in Replicas, NextFile(r)
    PROVE  MigratorInv'
<1>0. /\ replica[r] \in Replica /\ meta \in BOOLEAN /\ image \in [Replicas -> Images]
      /\ InTransaction(r) /\ Passed(r)
    BY DEF MigratorInv, MigratorTypeOK
<1>1. /\ replica[r].pc = "file" /\ UNCHANGED <<image, meta, recorded, effects>> /\ ~replica[r].row
    BY <1>0 DEF NextFile, InTransaction
<1>2. replica[r].at \in 1..(Versions + 1) /\ Len(image[r]) \in 0..Versions
    BY <1>0, ReplicaFields, ImageIsSequence
<1>3. CASE replica[r].at > Len(image[r])
    <2>1. ReplicaGoes(r, "serving")
        BY <1>3 DEF NextFile
    <2> QED BY <2>1, <1>0, <1>1, <1>2, <1>3, Moves
<1>4. CASE replica[r].at <= Len(image[r]) /\ replica[r].known[replica[r].at] = Absent
    <2>1. ReplicaGoes(r, "execute")
        BY <1>4, <1>2 DEF NextFile
    <2> QED BY <2>1, <1>0, <1>1, <1>4, Moves
<1>5. CASE /\ replica[r].at <= Len(image[r]) /\ replica[r].known[replica[r].at] # Absent
           /\ replica[r].known[replica[r].at] # image[r][replica[r].at]
    <2>1. ReplicaGoes(r, "refused")
        BY <1>5, <1>2 DEF NextFile
    <2> QED BY <2>1, <1>0, <1>1, Moves
<1>6. CASE /\ replica[r].at <= Len(image[r]) /\ replica[r].known[replica[r].at] # Absent
           /\ replica[r].known[replica[r].at] = image[r][replica[r].at]
    <2> DEFINE q == [replica[r] EXCEPT !.at = replica[r].at + 1]
    <2>0. replica[r].at \in 1..Versions /\ Versions \in Nat
        BY <1>6, <1>2, VersionsAssumption
    <2>1. replica' = [replica EXCEPT ![r] = q]
        BY <1>6, <1>2 DEF NextFile
    <2>2. /\ q \in Replica /\ q.pc = "file" /\ q.known = replica[r].known
          /\ q.at = replica[r].at + 1 /\ q.row = replica[r].row
        BY <1>0, <1>1, <2>0 DEF Replica
    <2> HIDE DEF q
    <2>3. recorded[replica[r].at] = image[r][replica[r].at]
        BY <1>0, <1>6, <2>0 DEF Passed
    <2>4. \A v \in 1..Versions : v < q.at => v <= Len(image[r]) /\ recorded[v] = image[r][v]
        <3> SUFFICES ASSUME NEW v \in 1..Versions, v < q.at
                     PROVE  v <= Len(image[r]) /\ recorded[v] = image[r][v]
            OBVIOUS
        <3>1. v < replica[r].at \/ v = replica[r].at
            BY <2>0, <2>2
        <3> QED BY <3>1, <2>3, <1>0, <1>6 DEF Passed
    <2>5. \A v \in 1..Versions : q.known[v] # Absent => recorded[v] = q.known[v]
        BY <2>2, <1>0 DEF Passed
    <2> QED BY <2>1, <2>2, <2>4, <2>5, <1>0, <1>1, ReplicaChanges
<1> QED BY <1>2, <1>3, <1>4, <1>5, <1>6

(* The script and the INSERT, in the transaction.                            *)
LEMMA TransactionKeeps ==
    ASSUME MigratorInv, NEW r \in Replicas, Execute(r) \/ Record(r)
    PROVE  MigratorInv'
<1>0. /\ replica[r] \in Replica /\ meta \in BOOLEAN /\ image \in [Replicas -> Images]
      /\ InTransaction(r) /\ Passed(r)
    BY DEF MigratorInv, MigratorTypeOK
<1>1. CASE Execute(r)
    <2> DEFINE q == [replica[r] EXCEPT !.pc = "record", !.ran = TRUE]
    <2>1. replica' = [replica EXCEPT ![r] = q]
        BY <1>1 DEF Execute
    <2>2. /\ q \in Replica /\ q.pc = "record" /\ q.known = replica[r].known
          /\ q.at = replica[r].at /\ q.row = replica[r].row /\ q.ran
        BY <1>0 DEF Replica
    <2> HIDE DEF q
    <2>3. /\ replica[r].pc = "execute" /\ UNCHANGED <<image, meta, recorded, effects>>
        BY <1>1 DEF Execute
    <2>4. ~replica[r].row /\ q.at <= Len(image[r])
        BY <2>2, <2>3, <1>0 DEF InTransaction, Applying
    <2>5. /\ \A v \in 1..Versions : q.known[v] # Absent => recorded[v] = q.known[v]
          /\ \A v \in 1..Versions : v < q.at => v <= Len(image[r]) /\ recorded[v] = image[r][v]
        BY <2>2, <1>0 DEF Passed
    <2> QED BY <2>1, <2>2, <2>3, <2>4, <2>5, <1>0, ReplicaChanges
<1>2. CASE Record(r)
    <2>1. /\ replica[r].pc = "record" /\ UNCHANGED <<image, meta, recorded, effects>>
          /\ \A p \in Replicas : p # r => ~ (replica[p].row /\ replica[p].at = replica[r].at)
        BY <1>2 DEF Record
    <2>2. CASE recorded[replica[r].at] # Absent
        BY <2>1, <2>2, <1>2, <1>0, Restarts DEF Record
    <2>3. CASE recorded[replica[r].at] = Absent
        <3> DEFINE q == [replica[r] EXCEPT !.pc = "commit", !.row = TRUE]
        <3>1. replica' = [replica EXCEPT ![r] = q]
            BY <2>3, <1>2 DEF Record
        <3>2. /\ q \in Replica /\ q.pc = "commit" /\ q.known = replica[r].known
              /\ q.at = replica[r].at /\ q.row /\ q.ran = replica[r].ran
            BY <1>0 DEF Replica
        <3> HIDE DEF q
        <3>3. q.ran /\ q.at <= Len(image[r])
            BY <3>2, <2>1, <1>0 DEF InTransaction, Applying
        <3>4. /\ \A v \in 1..Versions : q.known[v] # Absent => recorded[v] = q.known[v]
              /\ \A v \in 1..Versions : v < q.at => v <= Len(image[r]) /\ recorded[v] = image[r][v]
            BY <3>2, <1>0 DEF Passed
        <3>5. /\ UNCHANGED <<recorded, effects>> /\ meta' \in BOOLEAN
              /\ image' = image /\ image' \in [Replicas -> Images]
            BY <2>1, <1>0
        <3>6. /\ recorded[q.at] = Absent
              /\ \A p \in Replicas : p # r /\ replica[p].row => replica[p].at # q.at
            BY <2>1, <2>3, <3>2
        <3>7. /\ q.at <= Len(image'[r])
              /\ \A v \in 1..Versions : v < q.at =>
                     v <= Len(image'[r]) /\ recorded[v] = image'[r][v]
            BY <3>3, <3>4, <3>5
        <3>8. q.pc = "commit" /\ q.row /\ q.ran
            BY <3>2, <3>3
        <3> QED BY <3>1, <3>2, <3>4, <3>5, <3>6, <3>7, <3>8, ReplicaChanges
    <2> QED BY <2>2, <2>3
<1> QED BY <1>1, <1>2

(* A script takes effect: its version is the next one, and nothing of what   *)
(* was recorded changes.                                                     *)
LEMMA CommitKeeps ==
    ASSUME MigratorInv, NEW r \in Replicas, MigrationCommit(r)
    PROVE  MigratorInv'
<1> DEFINE k == replica[r].at
           q == [replica[r] EXCEPT !.pc = "file", !.at = k + 1, !.ran = FALSE, !.row = FALSE]
<1>0. /\ replica[r] \in Replica /\ meta \in BOOLEAN /\ image \in [Replicas -> Images]
      /\ InTransaction(r) /\ Passed(r) /\ replica \in [Replicas -> Replica]
      /\ recorded \in [1..Versions -> Checksums \cup {Absent}] /\ effects \in Seq(File)
      /\ InOrder /\ RowsApart
    BY DEF MigratorInv, MigratorTypeOK
<1>1. /\ replica[r].pc = "commit" /\ UNCHANGED <<image, meta>>
      /\ recorded' = [recorded EXCEPT ![k] = image[r][k]]
    BY DEF MigrationCommit
<1>2. replica[r].ran /\ replica[r].row /\ k <= Len(image[r]) /\ recorded[k] = Absent
    BY <1>0, <1>1 DEF InTransaction, Applying
<1>3. k \in 1..Versions /\ image[r][k] \in Checksums /\ Versions \in Nat
    BY <1>0, <1>2, ReplicaFields, ImageIsSequence, VersionsAssumption
<1>4. replica' = [replica EXCEPT ![r] = q]
    BY <1>0 DEF MigrationCommit
<1>5. /\ q \in Replica /\ q.pc = "file" /\ q.known = replica[r].known /\ q.at = k + 1 /\ ~q.row
    <2>1. k + 1 \in 1..(Versions + 1)
        BY <1>3
    <2> HIDE DEF k
    <2> QED BY <2>1, <1>0 DEF Replica
<1>6. effects' = Append(effects, Now(r))
    BY <1>2 DEF MigrationCommit
<1>7. Now(r) \in File /\ Now(r).version = k /\ Now(r).checksum = image[r][k]
    BY <1>3 DEF Now, File
<1> HIDE DEF k, q
<1>8. /\ replica' \in [Replicas -> Replica] /\ replica'[r] = q
      /\ \A p \in Replicas : p # r => replica'[p] = replica[p]
    BY <1>0, <1>4, <1>5
<1>9. /\ recorded' \in [1..Versions -> Checksums \cup {Absent}] /\ recorded'[k] = image[r][k]
      /\ \A v \in 1..Versions : v # k => recorded'[v] = recorded[v]
      /\ \A v \in 1..Versions : recorded[v] # Absent => recorded'[v] = recorded[v]
    BY <1>0, <1>1, <1>2, <1>3
<1>10. k = Len(effects) + 1
    <2>1. Len(effects) \in Nat /\ Len(effects) <= Versions
        BY <1>0 DEF InOrder
    <2>2. ~ (k <= Len(effects))
        <3> SUFFICES ASSUME k <= Len(effects) PROVE FALSE
            OBVIOUS
        <3>1. recorded[k] = effects[k].checksum
            BY <1>0, <1>3 DEF InOrder
        <3>2. effects[k] \in File
            BY <1>0, <1>3, <2>1
        <3>3. effects[k].checksum \in Checksums
            BY <3>2 DEF File
        <3> QED BY <3>1, <3>3, <1>2, ChecksumsAssumption DEF Absent
    <2>3. ~ (Len(effects) + 1 < k)
        <3> SUFFICES ASSUME Len(effects) + 1 < k PROVE FALSE
            OBVIOUS
        <3>1. Len(effects) + 1 \in 1..Versions
            BY <2>1, <1>3
        <3>2. /\ Len(effects) + 1 <= Len(image[r])
              /\ recorded[Len(effects) + 1] = image[r][Len(effects) + 1]
            BY <3>1, <1>0 DEF Passed, k
        <3>3. recorded[Len(effects) + 1] = Absent
            BY <3>1, <2>1, <1>0 DEF InOrder
        <3>4. image[r][Len(effects) + 1] \in Checksums
            BY <1>0, <3>2, <3>1, ImageIsSequence
        <3> QED BY <3>2, <3>3, <3>4, ChecksumsAssumption DEF Absent
    <2> QED BY <1>3, <2>1, <2>2, <2>3
<1>11. /\ effects' \in Seq(File) /\ Len(effects') = k
       /\ \A i \in 1..Len(effects) : effects'[i] = effects[i]
       /\ effects'[k] = Now(r)
    BY <1>0, <1>6, <1>7, <1>10, AppendProperties
<1>12. MigratorTypeOK'
    BY <1>0, <1>1, <1>8, <1>9, <1>11 DEF MigratorTypeOK
<1>13. InOrder'
    <2>1. Len(effects) \in Nat
        BY <1>0
    <2>2. \A i \in 1..Len(effects') : effects'[i].version = i
        BY <2>1, <1>0, <1>7, <1>10, <1>11 DEF InOrder
    <2>3. ASSUME NEW v \in 1..Versions
          PROVE  recorded'[v] = IF v <= Len(effects') THEN effects'[v].checksum ELSE Absent
        <3>1. CASE v < k
            BY <3>1, <2>1, <1>0, <1>3, <1>9, <1>10, <1>11 DEF InOrder
        <3>2. CASE v = k
            BY <3>2, <1>3, <1>7, <1>9, <1>11
        <3>3. CASE k < v
            BY <3>3, <2>1, <1>0, <1>3, <1>9, <1>10, <1>11 DEF InOrder
        <3> QED BY <3>1, <3>2, <3>3, <1>3
    <2> QED BY <2>2, <2>3, <1>3, <1>11 DEF InOrder
<1>14. RowsApart'
    BY <1>0, <1>5, <1>8 DEF RowsApart
<1>15. ASSUME NEW p \in Replicas PROVE InTransaction(p)' /\ Passed(p)'
    <2>1. CASE p = r
        <3>1. InTransaction(r)'
            BY <1>5, <1>8 DEF InTransaction, Applying
        <3>2. \A v \in 1..Versions : q.known[v] # Absent => recorded'[v] = q.known[v]
            BY <1>0, <1>5, <1>9 DEF Passed
        <3>3. ASSUME NEW v \in 1..Versions, v < k + 1
              PROVE  v <= Len(image[r]) /\ recorded'[v] = image[r][v]
            <4>1. CASE v = k
                BY <4>1, <1>2, <1>9 DEF k
            <4>2. CASE v < k
                BY <4>2, <1>0, <1>3, <1>9 DEF Passed, k
            <4> QED BY <4>1, <4>2, <1>3, <3>3
        <3> QED BY <3>1, <3>2, <3>3, <2>1, <1>1, <1>5, <1>8 DEF Passed
    <2>2. CASE p # r
        <3>1. InTransaction(p) /\ Passed(p) /\ image[p] \in Images /\ replica[p] \in Replica
            BY <1>0 DEF MigratorInv
        <3>2. replica'[p] = replica[p] /\ image'[p] = image[p]
            BY <2>2, <1>1, <1>8
        <3>3. replica[p].pc = "commit" => recorded'[replica[p].at] = Absent
            <4> SUFFICES ASSUME replica[p].pc = "commit" PROVE recorded'[replica[p].at] = Absent
                OBVIOUS
            <4>1. replica[p].row /\ recorded[replica[p].at] = Absent
                  /\ replica[p].at <= Len(image[p])
                BY <3>1 DEF InTransaction, Applying
            <4>2. replica[p].at \in 1..Versions
                BY <4>1, <3>1, ReplicaFields, ImageIsSequence, VersionsAssumption
            <4>3. replica[p].at # k
                BY <4>1, <1>0, <1>2, <2>2 DEF RowsApart, k
            <4> QED BY <4>1, <4>2, <4>3, <1>9
        <3>4. InTransaction(p)'
            BY <3>1, <3>2, <3>3 DEF InTransaction, Applying
        <3>5. \A v \in 1..Versions : replica[p].known[v] # Absent =>
                  recorded'[v] = replica[p].known[v]
            BY <3>1, <1>9 DEF Passed
        <3>6. ASSUME NEW v \in 1..Versions, v < replica[p].at
              PROVE  v <= Len(image[p]) /\ recorded'[v] = image[p][v]
            <4>1. v <= Len(image[p]) /\ recorded[v] = image[p][v]
                BY <3>1, <3>6 DEF Passed
            <4>2. image[p][v] \in Checksums
                BY <4>1, <3>1, ImageIsSequence
            <4> QED BY <4>1, <4>2, <1>9, ChecksumsAssumption DEF Absent
        <3> QED BY <3>1, <3>2, <3>4, <3>5, <3>6 DEF Passed
    <2> QED BY <2>1, <2>2
<1> QED BY <1>12, <1>13, <1>14, <1>15 DEF MigratorInv

(* Whatever a replica does, the invariant stays.                             *)
LEMMA MigratorInvNext == MigratorInv /\ [MigratorNext]_migratorVars => MigratorInv'
<1> SUFFICES ASSUME MigratorInv, [MigratorNext]_migratorVars PROVE MigratorInv'
    OBVIOUS
<1>1. CASE UNCHANGED migratorVars
    BY <1>1 DEF migratorVars, MigratorInv, MigratorTypeOK, InOrder, RowsApart, InTransaction,
                Passed, Applying
<1>2. ASSUME NEW r \in Replicas, Restart(r) PROVE MigratorInv'
    <2>1. PICK files \in Images : image' = [image EXCEPT ![r] = files]
        BY <1>2 DEF Restart
    <2>2. image \in [Replicas -> Images] /\ meta \in BOOLEAN
        BY DEF MigratorInv, MigratorTypeOK
    <2>3. image' \in [Replicas -> Images] /\ \A p \in Replicas : p # r => image'[p] = image[p]
        BY <2>1, <2>2
    <2> QED BY <2>2, <2>3, <1>2, Restarts DEF Restart
<1> QED BY <1>1, <1>2, FirstStepsKeep, NextFileKeeps, TransactionKeeps, CommitKeeps
        DEF MigratorNext

(* Every reachable state of the migrator is well typed; replicas that write  *)
(* one version are kept apart, and what they read stays so.                  *)
THEOREM MigratorInvariant == MigratorSpec => []MigratorInv
BY MigratorInvInit, MigratorInvNext, PTL DEF MigratorSpec

(* For any replicas, images and restarts, every migration takes effect once, *)
(* in order, with the checksum recorded, and a replica serves only on a      *)
(* database that has all of its files.                                       *)
THEOREM MigratedOnceTheorem == MigratorSpec => []MigratedOnce
<1>1. MigratorInv => MigratedOnce
    <2> SUFFICES ASSUME MigratorInv PROVE MigratedOnce
        OBVIOUS
    <2>1. InOrder
        BY DEF MigratorInv
    <2>2. ASSUME NEW r \in Replicas, replica[r].pc = "serving", NEW v \in 1..Len(image[r])
          PROVE  recorded[v] = image[r][v]
        <3>1. /\ Passed(r) /\ image[r] \in Images /\ replica[r] \in Replica
            BY DEF MigratorInv, MigratorTypeOK
        <3>2. v \in 1..Versions /\ v < replica[r].at
            BY <3>1, <2>2, ReplicaFields, ImageIsSequence, VersionsAssumption DEF Passed
        <3> QED BY <3>1, <3>2 DEF Passed
    <2> QED BY <2>1, <2>2 DEF MigratedOnce, InOrder
<1> QED BY <1>1, MigratorInvariant, PTL

(***************************************************************************)
(* Scoring: what a Finish makes of a sheet                                 *)
(***************************************************************************)

\* A question `q` of the sheet of `g` has the grade that a kind and a key it had
\* give to its marks.
Justified(g, q) ==
    \E k \in grader[g].kinds[q], key \in grader[g].keys[q] :
        grader[g].grade[q] \in Earned(k, grader[g].marks[q], key)

(* The history of a request at work holds what the bank is now; a question  *)
(* yet to come has no grade, one that is past has the grade it deserves, and *)
(* the one it is at is scored, marked, and of a kind it had.                 *)
OfGrader(g) ==
    /\ Grading(g) => \A q \in Asked : /\ kind[q] \in grader[g].kinds[q]
                                      /\ Key(q) \in grader[g].keys[q]
    /\ grader[g].pc = "idle" => grader[g] = At("idle")
    /\ \A q \in grader[g].left : grader[g].grade[q] = "none"
    /\ grader[g].pc = "done" => grader[g].left = {}
    /\ grader[g].pc \in {"grade", "done"} =>
         \A q \in Asked \ grader[g].left : Justified(g, q)
    /\ grader[g].pc = "key" =>
         \E q \in Asked \ grader[g].left :
            /\ grader[g].at = {q} /\ grader[g].marks[q] # {}
            /\ grader[g].kind \in grader[g].kinds[q] \ {"unscored"}
            /\ \A p \in Asked \ (grader[g].left \cup {q}) : Justified(g, p)

BankInv == BankTypeOK /\ \A g \in Graders : OfGrader(g)

(* Counting the correct options and looking for each among the marks is     *)
(* comparing the two sets: what makes a multiple choice all or nothing.      *)
LEMMA AllMarkedExact ==
    ASSUME NEW marks \in SUBSET Choices, NEW key \in SUBSET Choices, marks # {}
    PROVE  AllMarked(marks, key) <=> marks = key
<1>1. IsFiniteSet(marks) /\ IsFiniteSet(key)
    BY ChoicesAssumption, FS_Subset
<1>2. Cardinality(marks) \in Nat /\ Cardinality(marks) > 0
    BY <1>1, FS_CardinalityType, FS_EmptySet
<1>3. ASSUME AllMarked(marks, key) PROVE marks = key
    BY <1>1, <1>3, FS_Subset DEF AllMarked
<1> QED
    BY <1>2, <1>3 DEF AllMarked

(* The branches of Earned, one by one.                                      *)
LEMMA EarnedBranches ==
    ASSUME NEW marks \in SUBSET Choices, NEW key \in SUBSET Choices
    PROVE  /\ "none" \in Earned("unscored", marks, key)
           /\ \A k \in Kind \ {"unscored"} : marks = {} =>
                "blank" \in Earned(k, marks, key)
           /\ marks # {} =>
                (IF marks = key THEN "right" ELSE "wrong")
                    \in Earned("multiple", marks, key)
           /\ \A c \in marks : (IF c \in key THEN "right" ELSE "wrong")
                                  \in Earned("choice", marks, key)
BY DEF Earned, Kind

(* Nobody has come in at first.                                            *)
LEMMA InitBankInv == BankInit => BankInv
BY DEF BankInit, BankInv, BankTypeOK, OfGrader, Grader, Editor, Option, Kind,
       Grade, At, Editing, Grading

(* A request of which the others know nothing leaves them as they are.      *)
LEMMA OtherGraders ==
    ASSUME BankInv, BankTypeOK', UNCHANGED <<kind, option>>, NEW g \in Graders,
           \A f \in Graders \ {g} : grader'[f] = grader[f], OfGrader(g)'
    PROVE  BankInv'
<1>1. ASSUME NEW f \in Graders \ {g} PROVE OfGrader(f)'
  <2>1. OfGrader(f) /\ grader'[f] = grader[f]
      BY <1>1 DEF BankInv
  <2>2. \A q \in Asked : Key(q)' = Key(q) /\ kind'[q] = kind[q]
      BY DEF Key
  <2>3. \A q \in Asked : Justified(f, q)' <=> Justified(f, q)
      BY <2>1 DEF Justified
  <2> QED
      BY <2>1, <2>2, <2>3 DEF OfGrader, Grading
<1> QED
    BY <1>1 DEF BankInv

(* The sheet is read: everything is yet to come.                            *)
LEMMA FinishBeginInv ==
    ASSUME BankInv, NEW g \in Graders, FinishBegin(g) PROVE BankInv'
<1>1. PICK marks \in [Asked -> SUBSET Choices] :
        grader' = [grader EXCEPT ![g] =
                     [@ EXCEPT !.pc = "grade", !.left = Asked, !.marks = marks,
                               !.kinds = [q \in Asked |-> {kind[q]}],
                               !.keys = [q \in Asked |-> {Key(q)}]]]
    BY DEF FinishBegin
<1>2. grader \in [Graders -> Grader] /\ kind \in [Asked -> Kind]
    BY DEF BankInv, BankTypeOK
<1>3. grader[g] = At("idle")
    BY DEF BankInv, OfGrader, FinishBegin
<1>4. \A q \in Asked : Key(q) \in SUBSET Choices
    BY DEF Key
<1> DEFINE new == [At("idle") EXCEPT !.pc = "grade", !.left = Asked, !.marks = marks,
                                     !.kinds = [q \in Asked |-> {kind[q]}],
                                     !.keys = [q \in Asked |-> {Key(q)}]]
<1>5. new \in Grader
  <2>1. /\ [q \in Asked |-> {kind[q]}] \in [Asked -> SUBSET Kind]
        /\ [q \in Asked |-> {Key(q)}] \in [Asked -> SUBSET (SUBSET Choices)]
      BY <1>2, <1>4
  <2>2. At("idle") \in Grader
      BY <1>2, <1>3
  <2> QED
      BY <2>1, <2>2 DEF Grader
<1>6. grader' = [grader EXCEPT ![g] = new]
    BY <1>1, <1>2, <1>3
<1> HIDE DEF new
<1>7. grader'[g] = new /\ \A f \in Graders \ {g} : grader'[f] = grader[f]
    BY <1>2, <1>6
<1>8. BankTypeOK' /\ UNCHANGED <<kind, option>>
    BY <1>2, <1>5, <1>6 DEF BankInv, BankTypeOK, FinishBegin
<1>9. OfGrader(g)'
  <2>1. \A q \in Asked : Key(q)' = Key(q) /\ kind'[q] = kind[q]
      BY <1>8 DEF Key
  <2>2. \A q \in Asked : new.kinds[q] = {kind[q]} /\ new.keys[q] = {Key(q)}
      BY DEF new, At
  <2>3. new.pc = "grade" /\ new.left = Asked /\ \A q \in Asked : new.grade[q] = "none"
      BY DEF new, At
  <2> QED
      BY <1>7, <2>1, <2>2, <2>3 DEF OfGrader
<1> QED
    BY <1>7, <1>8, <1>9, OtherGraders

(* A question is read: passed over, blank, or to be compared.               *)
LEMMA ReadKindInv ==
    ASSUME BankInv, NEW g \in Graders, ReadKind(g) PROVE BankInv'
<1> DEFINE r == grader[g]
           scored(q) == kind[q] # "unscored"
           blank(q) == r.marks[q] = {}
<1>1. PICK q \in r.left :
        grader' = [grader EXCEPT ![g] =
          [r EXCEPT !.left = r.left \ {q}, !.at = {q}, !.kind = kind[q],
                    !.grade[q] = IF scored(q) /\ blank(q) THEN "blank" ELSE "none",
                    !.pc = IF scored(q) /\ ~ blank(q) THEN "key" ELSE "grade"]]
    BY DEF ReadKind
<1>2. /\ grader \in [Graders -> Grader] /\ kind \in [Asked -> Kind]
      /\ r \in Grader /\ r.pc = "grade" /\ OfGrader(g)
    BY DEF BankInv, BankTypeOK, ReadKind
<1>3. q \in Asked /\ r.grade[q] = "none" /\ Key(q) \in r.keys[q]
      /\ kind[q] \in r.kinds[q]
    BY <1>2 DEF OfGrader, Grading, Grader
<1> DEFINE s == grader'[g]
<1>4. /\ s.left = r.left \ {q} /\ s.at = {q} /\ s.kind = kind[q]
      /\ s.grade = [r.grade EXCEPT ![q] = IF scored(q) /\ blank(q) THEN "blank" ELSE "none"]
      /\ s.pc = IF scored(q) /\ ~ blank(q) THEN "key" ELSE "grade"
      /\ s.marks = r.marks /\ s.kinds = r.kinds /\ s.keys = r.keys
      /\ s \in Grader
      /\ \A f \in Graders \ {g} : grader'[f] = grader[f]
  <2> DEFINE grades == [r.grade EXCEPT ![q] = IF scored(q) /\ blank(q) THEN "blank" ELSE "none"]
             pcs == IF scored(q) /\ ~ blank(q) THEN "key" ELSE "grade"
             t == [r EXCEPT !.left = r.left \ {q}, !.at = {q}, !.kind = kind[q],
                            !.grade = grades, !.pc = pcs]
  <2>1. grader' = [grader EXCEPT ![g] = t]
    <3>1. [r EXCEPT !.left = r.left \ {q}, !.at = {q}, !.kind = kind[q],
                    !.grade[q] = IF scored(q) /\ blank(q) THEN "blank" ELSE "none",
                    !.pc = IF scored(q) /\ ~ blank(q) THEN "key" ELSE "grade"] = t
      <4>1. r \in Grader /\ r.pc = "grade"
          BY <1>2
      <4> HIDE DEF r
      <4> QED
          BY <4>1 DEF Grader
    <3> QED
        BY <1>1, <3>1
  <2>2. grades \in [Asked -> Grade] /\ pcs \in {"key", "grade"}
      BY <1>2, <1>3 DEF Grader, Grade
  <2> HIDE DEF grades, pcs
  <2>3. t \in Grader
      BY <1>2, <1>3, <2>2 DEF Grader
  <2>4. /\ t.left = r.left \ {q} /\ t.at = {q} /\ t.kind = kind[q]
        /\ t.grade = grades /\ t.pc = pcs
        /\ t.marks = r.marks /\ t.kinds = r.kinds /\ t.keys = r.keys
      BY <1>2 DEF Grader
  <2> HIDE DEF t
  <2>5. s = t /\ \A f \in Graders \ {g} : grader'[f] = grader[f]
      BY <1>2, <2>1
  <2> QED
      BY <2>3, <2>4, <2>5 DEF grades, pcs
<1>5. BankTypeOK' /\ UNCHANGED <<kind, option>>
  <2>1. grader' \in [Graders -> Grader]
      BY <1>1, <1>2, <1>4
  <2> QED
      BY <2>1 DEF BankInv, BankTypeOK, ReadKind
<1>6. \A p \in Asked : Key(p)' = Key(p) /\ kind'[p] = kind[p]
    BY <1>5 DEF Key
<1>7. \A p \in Asked \ {q} : Justified(g, p) => Justified(g, p)'
    BY <1>2, <1>4 DEF Justified, Grader
<1>8. ~ (scored(q) /\ ~ blank(q)) => Justified(g, q)'
  <2>1. Key(q) \in SUBSET Choices /\ r.marks[q] \in SUBSET Choices /\ kind[q] \in Kind
      BY <1>2, <1>3 DEF Key, Grader
  <2>2. s.grade[q] = IF scored(q) /\ blank(q) THEN "blank" ELSE "none"
      BY <1>2, <1>3, <1>4 DEF Grader
  <2>3. CASE ~ scored(q)
    <3>1. "none" \in Earned(kind[q], r.marks[q], Key(q))
        BY <2>1, <2>3, EarnedBranches
    <3> QED
        BY <1>3, <1>4, <2>2, <2>3, <3>1 DEF Justified
  <2>4. CASE scored(q) /\ blank(q)
    <3>1. "blank" \in Earned(kind[q], r.marks[q], Key(q))
        BY <2>1, <2>4, EarnedBranches
    <3> QED
        BY <1>3, <1>4, <2>2, <2>4, <3>1 DEF Justified
  <2> QED
      BY <2>3, <2>4
<1>9. OfGrader(g)'
  <2>1. Grading(g) /\ Grading(g)'
      BY <1>2, <1>4 DEF Grading
  <2>2. \A p \in s.left : s.grade[p] = "none"
      BY <1>2, <1>4 DEF OfGrader, Grader
  <2>3. \A p \in Asked \ (s.left \cup {q}) : Justified(g, p)'
      BY <1>2, <1>4, <1>7 DEF OfGrader
  <2>4. s.pc = "grade" => \A p \in Asked \ s.left : Justified(g, p)'
      BY <1>4, <1>8, <2>3
  <2>5. s.pc = "key" => s.kind # "unscored" /\ s.marks[q] # {}
      BY <1>4
  <2>6. q \in Asked \ s.left /\ s.kind \in s.kinds[q]
      BY <1>3, <1>4
  <2>7. \A p \in Asked : kind'[p] \in s.kinds[p] /\ Key(p)' \in s.keys[p]
      BY <1>2, <1>4, <1>6, <2>1 DEF OfGrader
  <2> HIDE DEF s, r
  <2>8. s.pc \in {"key", "grade"} /\ s.at = {q}
      BY <1>4
  <2> QED
      BY <2>2, <2>3, <2>4, <2>5, <2>6, <2>7, <2>8 DEF OfGrader, s
<1> QED
    BY <1>4, <1>5, <1>9, OtherGraders

(* The options are read: the grade is what the kind read before and the key *)
(* there is now give.                                                      *)
LEMMA ReadKeyInv ==
    ASSUME BankInv, NEW g \in Graders, ReadKey(g) PROVE BankInv'
<1> DEFINE r == grader[g]
<1>1. /\ grader \in [Graders -> Grader] /\ r \in Grader /\ r.pc = "key" /\ OfGrader(g)
    BY DEF BankInv, BankTypeOK, ReadKey
<1>2. PICK q \in Asked \ r.left :
        /\ r.at = {q} /\ r.marks[q] # {}
        /\ r.kind \in r.kinds[q] \ {"unscored"}
        /\ \A p \in Asked \ (r.left \cup {q}) : Justified(g, p)
    BY <1>1 DEF OfGrader
<1> DEFINE right(first) == IF r.kind = "multiple" THEN AllMarked(r.marks[q], Key(q))
                           ELSE first \in Key(q)
<1>3. PICK first \in r.marks[q] :
        grader' = [grader EXCEPT ![g] =
                     [@ EXCEPT !.grade[q] = IF right(first) THEN "right" ELSE "wrong",
                               !.pc = "grade"]]
    BY <1>2 DEF ReadKey
<1> DEFINE s == grader'[g]
           got == IF right(first) THEN "right" ELSE "wrong"
<1>4. /\ s.grade = [r.grade EXCEPT ![q] = got] /\ s.pc = "grade"
      /\ s.left = r.left /\ s.at = r.at /\ s.kind = r.kind
      /\ s.marks = r.marks /\ s.kinds = r.kinds /\ s.keys = r.keys
      /\ s \in Grader
      /\ \A f \in Graders \ {g} : grader'[f] = grader[f]
    BY <1>1, <1>3 DEF Grader, Grade
<1>5. BankTypeOK' /\ UNCHANGED <<kind, option>>
  <2>1. grader' \in [Graders -> Grader]
      BY <1>1, <1>3, <1>4
  <2> QED
      BY <2>1 DEF BankInv, BankTypeOK, ReadKey
<1>6. \A p \in Asked : Key(p)' = Key(p) /\ kind'[p] = kind[p]
    BY <1>5 DEF Key
<1>7. \A p \in Asked \ {q} : Justified(g, p) => Justified(g, p)'
    BY <1>1, <1>4 DEF Justified, Grader
<1>8. Justified(g, q)'
  <2>1. /\ r.marks[q] \in SUBSET Choices /\ Key(q) \in SUBSET Choices
        /\ r.kind \in {"choice", "multiple"} /\ r.marks[q] # {}
      BY <1>1, <1>2 DEF Key, Grader, Kind
  <2>2. got \in Earned(r.kind, r.marks[q], Key(q)) => Justified(g, q)'
    <3>1. s.grade[q] = got /\ Key(q) \in r.keys[q] /\ r.kind \in r.kinds[q]
        BY <1>1, <1>2, <1>4 DEF OfGrader, Grading, Grader
    <3> HIDE DEF got
    <3> QED
        BY <1>4, <3>1 DEF Justified
  <2> HIDE DEF s
  <2>3. CASE r.kind = "multiple"
    <3>1. got = IF r.marks[q] = Key(q) THEN "right" ELSE "wrong"
        BY <2>1, <2>3, AllMarkedExact
    <3>2. got \in Earned(r.kind, r.marks[q], Key(q))
        BY <2>1, <2>3, <3>1, EarnedBranches
    <3> QED
        BY <2>2, <3>2
  <2>4. CASE r.kind = "choice"
    <3>1. got = IF first \in Key(q) THEN "right" ELSE "wrong"
        BY <2>4
    <3>2. got \in Earned(r.kind, r.marks[q], Key(q))
        BY <2>1, <2>4, <3>1, EarnedBranches
    <3> QED
        BY <2>2, <3>2
  <2> QED
      BY <2>1, <2>3, <2>4
<1>9. OfGrader(g)'
  <2>1. \A p \in Asked : kind'[p] \in s.kinds[p] /\ Key(p)' \in s.keys[p]
      BY <1>1, <1>4, <1>6 DEF OfGrader, Grading
  <2>2. \A p \in s.left : s.grade[p] = "none"
      BY <1>1, <1>2, <1>4 DEF OfGrader, Grader
  <2>3. \A p \in Asked \ s.left : Justified(g, p)'
      BY <1>2, <1>4, <1>7, <1>8
  <2>4. s.pc = "grade"
      BY <1>4
  <2> HIDE DEF s
  <2> QED
      BY <2>1, <2>2, <2>3, <2>4 DEF OfGrader, s
<1> QED
    BY <1>4, <1>5, <1>9, OtherGraders

(* The score is stored when no question is left.                            *)
LEMMA StoreScoreInv ==
    ASSUME BankInv, NEW g \in Graders, StoreScore(g) PROVE BankInv'
<1>1. /\ grader \in [Graders -> Grader] /\ grader[g].left = {}
      /\ grader[g].pc = "grade" /\ OfGrader(g)
    BY DEF BankInv, BankTypeOK, StoreScore
<1>2. /\ grader'[g] = [grader[g] EXCEPT !.pc = "done"]
      /\ \A f \in Graders \ {g} : grader'[f] = grader[f]
      /\ grader' \in [Graders -> Grader]
  <2>1. [grader[g] EXCEPT !.pc = "done"] \in Grader
    <3>1. grader[g] \in Grader
        BY <1>1
    <3> QED
        BY <3>1 DEF Grader
  <2>2. grader' = [grader EXCEPT ![g] = [grader[g] EXCEPT !.pc = "done"]]
      BY <1>1 DEF StoreScore
  <2> QED
      BY <1>1, <2>1, <2>2
<1>3. BankTypeOK' /\ UNCHANGED <<kind, option>>
    BY <1>2 DEF BankInv, BankTypeOK, StoreScore
<1>4. grader'[g].pc = "done" /\ grader'[g].left = {}
    BY <1>1, <1>2 DEF Grader
<1>5. \A q \in Asked : Justified(g, q) => Justified(g, q)'
    BY <1>1, <1>2 DEF Justified, Grader
<1>6. OfGrader(g)'
    BY <1>1, <1>4, <1>5 DEF OfGrader, Grading
<1> QED
    BY <1>2, <1>3, <1>6, OtherGraders

(* A request that failed stores nothing.                                    *)
LEMMA FinishFailsInv ==
    ASSUME BankInv, NEW g \in Graders, FinishFails(g) PROVE BankInv'
<1>1. /\ grader'[g] = At("failed")
      /\ \A f \in Graders \ {g} : grader'[f] = grader[f]
      /\ grader' \in [Graders -> Grader]
    BY DEF BankInv, BankTypeOK, FinishFails, Grader, At, Kind, Grade
<1>2. BankTypeOK' /\ UNCHANGED <<kind, option>>
    BY <1>1 DEF BankInv, BankTypeOK, FinishFails
<1>3. OfGrader(g)'
    BY <1>1 DEF OfGrader, Grading, At
<1> QED
    BY <1>1, <1>2, <1>3, OtherGraders

(* The bank changes one question, and the requests at work note it: what    *)
(* they graded by is still in their history.                                *)
LEMMA NotedInv ==
    ASSUME BankInv, NEW q \in Asked, Noted(q), editor' \in [Editors -> Editor],
           kind' \in [Asked -> Kind], option' \in [Asked -> [Choices -> Option]],
           \A p \in Asked \ {q} : kind'[p] = kind[p] /\ option'[p] = option[p]
    PROVE  BankInv'
<1>1. grader \in [Graders -> Grader] /\ \A g \in Graders : OfGrader(g)
    BY DEF BankInv, BankTypeOK
<1>2. \A p \in Asked : Key(p)' \in SUBSET Choices
    BY DEF Key
<1>3. \A p \in Asked \ {q} : Key(p)' = Key(p)
    BY DEF Key
<1>4. ASSUME NEW g \in Graders PROVE grader'[g] \in Grader /\ OfGrader(g)'
  <2>1. CASE ~ Grading(g)
    <3>1. grader'[g] = grader[g] /\ ~ Grading(g)'
        BY <1>1, <2>1 DEF Noted, Grading
    <3>2. \A p \in Asked : Justified(g, p)' <=> Justified(g, p)
        BY <3>1 DEF Justified
    <3> QED
        BY <1>1, <2>1, <3>1, <3>2 DEF OfGrader, Grading
  <2>2. CASE Grading(g)
    <3>1. grader'[g] = [grader[g] EXCEPT !.kinds[q] = @ \cup {kind'[q]},
                                         !.keys[q] = @ \cup {Key(q)'}]
        BY <2>2 DEF Noted
    <3>2. grader[g] \in Grader
        BY <1>1
    <3> DEFINE r == grader[g]
               s == grader'[g]
    <3>3. /\ s.kinds = [r.kinds EXCEPT ![q] = @ \cup {kind'[q]}]
          /\ s.keys = [r.keys EXCEPT ![q] = @ \cup {Key(q)'}]
          /\ s.pc = r.pc /\ s.left = r.left /\ s.at = r.at /\ s.kind = r.kind
          /\ s.marks = r.marks /\ s.grade = r.grade
          /\ s \in Grader
      <4> DEFINE kinds == [r.kinds EXCEPT ![q] = @ \cup {kind'[q]}]
                 keys == [r.keys EXCEPT ![q] = @ \cup {Key(q)'}]
      <4>1. /\ kinds \in [Asked -> SUBSET Kind]
            /\ keys \in [Asked -> SUBSET (SUBSET Choices)]
          BY <1>2, <3>2 DEF Grader
      <4>2. s = [r EXCEPT !.kinds = kinds, !.keys = keys]
          BY <3>1, <3>2 DEF Grader
      <4> HIDE DEF kinds, keys
      <4>3. s \in Grader
          BY <3>2, <4>1, <4>2 DEF Grader
      <4>4. /\ s.kinds = kinds /\ s.keys = keys
            /\ s.pc = r.pc /\ s.left = r.left /\ s.at = r.at /\ s.kind = r.kind
            /\ s.marks = r.marks /\ s.grade = r.grade
          BY <3>2, <4>2 DEF Grader
      <4> QED
          BY <4>3, <4>4 DEF kinds, keys
    <3>4. \A p \in Asked : r.kinds[p] \subseteq s.kinds[p] /\ r.keys[p] \subseteq s.keys[p]
        BY <3>2, <3>3 DEF Grader
    <3>5. \A p \in Asked : Justified(g, p) => Justified(g, p)'
        BY <3>3, <3>4 DEF Justified
    <3>6. \A p \in Asked : kind'[p] \in s.kinds[p] /\ Key(p)' \in s.keys[p]
        BY <1>1, <1>3, <2>2, <3>2, <3>3 DEF OfGrader, Grader
    <3>7. OfGrader(g)
        BY <1>1
    <3>8. s.pc = "key" =>
            \E p \in Asked \ s.left :
               /\ s.at = {p} /\ s.marks[p] # {}
               /\ s.kind \in s.kinds[p] \ {"unscored"}
               /\ \A o \in Asked \ (s.left \cup {p}) : Justified(g, o)'
        BY <3>3, <3>4, <3>5, <3>7 DEF OfGrader
    <3>9. s.pc # "idle" /\ s.pc # "done"
        BY <2>2, <3>3 DEF Grading
    <3> QED
        BY <3>3, <3>5, <3>6, <3>7, <3>8, <3>9 DEF OfGrader
  <2> QED
      BY <2>1, <2>2
<1>5. grader' \in [Graders -> Grader]
    BY <1>4 DEF Noted
<1> QED
    BY <1>4, <1>5 DEF BankInv, BankTypeOK

(* The edits: two of them change the bank.                                  *)
LEMMA EditorInv ==
    ASSUME BankInv, NEW e \in Editors,
           ReadQuestion(e) \/ WriteQuestion(e) \/ EditOption(e) \/ EditFails(e)
    PROVE  BankInv'
<1>1. /\ kind \in [Asked -> Kind] /\ option \in [Asked -> [Choices -> Option]]
      /\ editor \in [Editors -> Editor]
    BY DEF BankInv, BankTypeOK
<1>2. editor' \in [Editors -> Editor]
  <2>1. Editing("done") \in Editor
      BY DEF Editing, Editor, Kind
  <2>2. CASE ReadQuestion(e)
    <3>1. PICK new \in Editor : editor' = [editor EXCEPT ![e] = new]
        BY <2>2 DEF ReadQuestion, Editor
    <3> QED
        BY <1>1, <3>1
  <2>3. CASE WriteQuestion(e) \/ EditOption(e) \/ EditFails(e)
      BY <1>1, <2>1, <2>3 DEF WriteQuestion, EditOption, EditFails
  <2> QED
      BY <2>2, <2>3
<1>3. CASE ReadQuestion(e) \/ EditFails(e)
  <2>1. UNCHANGED <<kind, option, grader>>
      BY <1>3 DEF ReadQuestion, EditFails
  <2>2. BankTypeOK'
      BY <1>2, <2>1 DEF BankInv, BankTypeOK
  <2>3. ASSUME NEW g \in Graders PROVE OfGrader(g)'
    <3>1. OfGrader(g)
        BY DEF BankInv
    <3>2. \A q \in Asked : Key(q)' = Key(q)
        BY <2>1 DEF Key
    <3>3. \A q \in Asked : Justified(g, q)' <=> Justified(g, q)
        BY <2>1 DEF Justified
    <3> QED
        BY <2>1, <3>1, <3>2, <3>3 DEF OfGrader, Grading
  <2> QED
      BY <2>2, <2>3 DEF BankInv
<1>4. CASE WriteQuestion(e)
  <2>1. PICK q \in editor[e].at : /\ kind' = [kind EXCEPT ![q] = editor[e].kind]
                                  /\ option' = option /\ Noted(q)
      BY <1>4 DEF WriteQuestion
  <2>2. q \in Asked /\ editor[e].kind \in Kind
      BY <1>1, <2>1 DEF Editor
  <2>3. kind' \in [Asked -> Kind] /\ \A p \in Asked \ {q} : kind'[p] = kind[p]
      BY <1>1, <2>1, <2>2
  <2> QED
      BY <1>1, <1>2, <2>1, <2>2, <2>3, NotedInv
<1>5. CASE EditOption(e)
  <2>1. PICK q \in Asked, c \in Choices, o \in Option :
          /\ option' = [option EXCEPT ![q][c] = o] /\ kind' = kind /\ Noted(q)
      BY <1>5 DEF EditOption
  <2>2. option' \in [Asked -> [Choices -> Option]]
        /\ \A p \in Asked \ {q} : option'[p] = option[p]
      BY <1>1, <2>1
  <2> QED
      BY <1>1, <1>2, <2>1, <2>2, NotedInv
<1> QED
    BY <1>3, <1>4, <1>5

(* Every reachable state of the grading is well typed and keeps the         *)
(* invariant.                                                              *)
THEOREM ScoringInvariant == BankSpec => []BankInv
<1>1. BankInv /\ [BankNext]_bankVars => BankInv'
  <2> SUFFICES ASSUME BankInv, [BankNext]_bankVars PROVE BankInv'
      OBVIOUS
  <2>1. CASE UNCHANGED bankVars
    <3>1. \A g \in Graders, q \in Asked : Justified(g, q)' <=> Justified(g, q)
        BY <2>1 DEF Justified, bankVars
    <3>2. \A q \in Asked : Key(q)' = Key(q)
        BY <2>1 DEF Key, bankVars
    <3>3. \A g \in Graders : OfGrader(g) => OfGrader(g)'
        BY <2>1, <3>1, <3>2 DEF OfGrader, Grading, bankVars
    <3> QED
        BY <2>1, <3>3 DEF BankInv, BankTypeOK, bankVars
  <2>2. ASSUME NEW g \in Graders,
               FinishBegin(g) \/ ReadKind(g) \/ ReadKey(g)
                 \/ StoreScore(g) \/ FinishFails(g)
        PROVE  BankInv'
      BY <2>2, FinishBeginInv, ReadKindInv, ReadKeyInv, StoreScoreInv, FinishFailsInv
  <2> QED
      BY <2>1, <2>2, EditorInv DEF BankNext
<1> QED
    BY InitBankInv, <1>1, PTL DEF BankSpec

(* A score is what the exam was worth while it was graded, for every exam,  *)
(* sheet and number of edits meanwhile.                                     *)
THEOREM GradedTheorem == BankSpec => []GradedAsItWas
<1>1. BankInv => GradedAsItWas
    BY DEF BankInv, OfGrader, GradedAsItWas, Justified
<1> QED
    BY ScoringInvariant, <1>1, PTL

(***************************************************************************)
(* ExamCatalog: what is published                                          *)
(***************************************************************************)


\* Which operation a request is at a statement of.
OpAt(q) ==
    /\ q.pc = "idle" => q.op = "none" /\ q.to = NoOne
    /\ q.pc \in {"rename", "update"} => q.op = "update"
    /\ q.pc \in {"list", "publish", "activate"} => q.op = "publish"
    /\ q.pc \in {"version", "code", "copy"} => q.op = "clone"
    /\ q.pc = "save" => q.op \in {"create", "clone"}
    /\ q.pc \in {"add", "remove"} => q.op = q.pc /\ q.question \in Questions
    /\ q.pc # "done" => q.result = "none" /\ ~ q.overtook

\* The exam it names is stored, and what it saw of its family is still there.
Named(q) ==
    /\ q.op \notin {"none", "create"} => q.exam \in Exams /\ exam[q.exam].stored
    /\ q.pc = "activate" => exam[q.exam].published
    /\ q.op = "clone" => \A e \in q.before :
          e \in Exams /\ exam[e].stored /\ exam[e].root = exam[q.exam].root

\* A version that was drawn is above those of the family, and so is the clone.
Drawn(q) ==
    q.op = "clone" =>
        /\ q.pc = "version" => q.to = NoOne
        /\ q.pc \in {"code", "save"} =>
              q.to = NoOne /\ \A e \in q.before : exam[e].version < q.version
        /\ q.pc = "copy" => q.to \in Exams
        /\ q.to # NoOne => /\ q.to \in Exams /\ exam[q.to].stored
                           /\ \A e \in q.before : exam[e].version < exam[q.to].version

\* A request that may still change a published exam was there before.
Raced(r) ==
    /\ req[r].pc \in {"rename", "update", "add", "remove"} /\ exam[req[r].exam].published =>
           r \in racing[req[r].exam]
    /\ req[r].pc = "copy" /\ exam[req[r].to].published => r \in racing[req[r].to]

OfRequest(r) == OpAt(req[r]) /\ Named(req[r]) /\ Drawn(req[r]) /\ Raced(r)

\* Questions that Publish listed are gone by a Remove it was overtaken by.
Listed(p) ==
    req[p].pc = "publish" /\ link[req[p].exam] = {} =>
        \E r \in Reqs : req[r].op = "remove" /\ req[r].exam = req[p].exam /\ req[r].overtook

CatalogInv == /\ CatalogTypeOK
              /\ \A e \in Exams : exam[e].published => exam[e].stored
              /\ \A r \in Reqs : OfRequest(r) /\ Listed(r)
              /\ PublishedHasQuestions

\* What no step undoes.
Later == /\ \A e \in Exams : exam[e].stored =>
              /\ exam'[e].stored /\ exam'[e].root = exam[e].root
              /\ exam'[e].version = exam[e].version
         /\ \A e \in Exams : exam[e].published =>
              exam'[e].published /\ racing'[e] = racing[e]
         /\ \A e \in Exams : exam'[e].published /\ ~ exam[e].published =>
              { q \in Reqs : InFlight(q) } \subseteq racing'[e]
         /\ \A q \in Reqs : req[q].op # "none" =>
              /\ req'[q].op = req[q].op /\ req'[q].exam = req[q].exam
              /\ req[q].overtook => req'[q].overtook

\* Nothing is published, and no question goes away.
Grows == \A e \in Exams : /\ exam'[e].published => exam[e].published
                          /\ link'[e] = {} => link[e] = {}

-----------------------------------------------------------------------------

(* The rows and the requests have their fields, each of its type.            *)
LEMMA Fields ==
    ASSUME CatalogTypeOK
    PROVE  /\ \A e \in Exams : exam[e] \in Exam /\ exam[e].version \in Nat
                /\ exam[e].stored \in BOOLEAN /\ exam[e].published \in BOOLEAN
                /\ exam[e].active \in BOOLEAN
                /\ exam[e].root \in Exams \cup {NoOne} /\ link[e] \subseteq Questions
           /\ \A r \in Reqs : req[r] \in Request /\ req[r].version \in Nat
                /\ req[r].exam \in Exams \cup {NoOne} /\ req[r].to \in Exams \cup {NoOne}
                /\ req[r].overtook \in BOOLEAN /\ req[r].before \subseteq Exams
                /\ req[r].code \in Code /\ req[r].question \in Questions \cup {NoOne}
           /\ NoOne \notin Exams
<1>1. ASSUME NEW e \in Exams
      PROVE  /\ exam[e] \in Exam /\ exam[e].version \in Nat
             /\ exam[e].stored \in BOOLEAN /\ exam[e].published \in BOOLEAN
             /\ exam[e].active \in BOOLEAN
             /\ exam[e].root \in Exams \cup {NoOne} /\ link[e] \subseteq Questions
    <2>1. exam[e] \in Exam /\ link[e] \subseteq Questions
        BY DEF CatalogTypeOK
    <2> QED BY <2>1 DEF Exam
<1>2. ASSUME NEW r \in Reqs
      PROVE  /\ req[r] \in Request /\ req[r].version \in Nat
             /\ req[r].exam \in Exams \cup {NoOne} /\ req[r].to \in Exams \cup {NoOne}
             /\ req[r].overtook \in BOOLEAN /\ req[r].before \subseteq Exams
             /\ req[r].code \in Code /\ req[r].question \in Questions \cup {NoOne}
    <2>1. req[r] \in Request
        BY DEF CatalogTypeOK
    <2> QED BY <2>1 DEF Request
<1> QED BY <1>1, <1>2, NoOneAssumption

(* A request that does not move keeps its part of the invariant.             *)
LEMMA RequestStays ==
    ASSUME CatalogInv, Later, NEW r \in Reqs, req'[r] = req[r]
    PROVE  OfRequest(r)'
<1>1. OfRequest(r) /\ CatalogTypeOK
    BY DEF CatalogInv
<1>2. OpAt(req'[r])
    BY <1>1 DEF OfRequest
<1>3. Named(req[r])'
    BY <1>1, Fields DEF OfRequest, Named, Later, OpAt
<1>4. Drawn(req[r])'
    BY <1>1, Fields DEF OfRequest, Drawn, Later, Named
<1>5. Raced(r)'
    <2>1. ASSUME req[r].pc \in {"rename", "update", "add", "remove"},
                 exam'[req[r].exam].published
          PROVE  r \in racing'[req[r].exam]
        <3>1. req[r].exam \in Exams /\ InFlight(r)
            BY <1>1, <2>1 DEF OfRequest, OpAt, Named, InFlight
        <3> QED BY <3>1, <2>1, <1>1 DEF Later, OfRequest, Raced
    <2>2. ASSUME req[r].pc = "copy", exam'[req[r].to].published
          PROVE  r \in racing'[req[r].to]
        <3>1. req[r].to \in Exams /\ InFlight(r)
            BY <1>1, <2>2 DEF OfRequest, OpAt, Drawn, InFlight
        <3> QED BY <3>1, <2>2, <1>1 DEF Later, OfRequest, Raced
    <2> QED BY <2>1, <2>2 DEF Raced
<1> QED BY <1>2, <1>3, <1>4, <1>5 DEF OfRequest

(* Where nothing is published and no question goes, what is published asks.  *)
LEMMA QuestionsStay ==
    ASSUME CatalogInv, Later, Grows
    PROVE  PublishedHasQuestions'
<1> SUFFICES ASSUME NEW e \in Exams, exam'[e].published, link'[e] = {}
             PROVE  \E r \in Reqs : /\ req'[r].op = "remove" /\ req'[r].exam = e
                                    /\ r \in racing'[e] \/ req'[r].overtook
    BY DEF PublishedHasQuestions
<1>1. PICK r \in Reqs : /\ req[r].op = "remove" /\ req[r].exam = e
                        /\ r \in racing[e] \/ req[r].overtook
    BY DEF Grows, CatalogInv, PublishedHasQuestions
<1>2. racing'[e] = racing[e]
    BY DEF Grows, Later
<1> QED BY <1>1, <1>2 DEF Later

(* What a Publish listed stays, but for a Remove.                            *)
LEMMA ListedStays ==
    ASSUME CatalogInv, Later, NEW p \in Reqs, req'[p].exam = req[p].exam,
           req'[p].pc = "publish" => req[p].pc = "publish",
           link'[req[p].exam] = {} => link[req[p].exam] = {}
    PROVE  Listed(p)'
<1>1. ASSUME req[p].pc = "publish", link[req[p].exam] = {}
      PROVE \E r \in Reqs : req'[r].op = "remove" /\ req'[r].exam = req[p].exam
                             /\ req'[r].overtook
    <2>1. PICK r \in Reqs : req[r].op = "remove" /\ req[r].exam = req[p].exam /\ req[r].overtook
        BY <1>1 DEF CatalogInv, Listed
    <2> QED BY <2>1 DEF Later
<1> QED BY <1>1 DEF Listed

(* A step of a request that writes requests only.                            *)
LEMMA Quietly ==
    ASSUME CatalogInv, NEW r \in Reqs, UNCHANGED <<exam, link, racing>>,
           req' \in [Reqs -> Request], \A q \in Reqs : q # r => req'[q] = req[q],
           req[r].op # "none" => /\ req'[r].op = req[r].op /\ req'[r].exam = req[r].exam
                                 /\ req[r].overtook => req'[r].overtook,
           req'[r].pc = "publish" => link[req'[r].exam] # {},
           OfRequest(r)'
    PROVE  CatalogInv' /\ Later
<1>1. Later
    BY DEF Later, CatalogInv
<1>2. CatalogTypeOK'
    BY DEF CatalogInv, CatalogTypeOK
<1>3. PublishedHasQuestions'
    BY <1>1, QuestionsStay DEF Grows
<1>4. ASSUME NEW q \in Reqs PROVE OfRequest(q)' /\ Listed(q)'
    <2>1. CASE q = r
        BY <2>1 DEF Listed
    <2>2. CASE q # r
        <3>1. req'[q] = req[q]
            BY <2>2
        <3> QED BY <3>1, <1>1, RequestStays, ListedStays
    <2> QED BY <2>1, <2>2
<1> QED BY <1>1, <1>2, <1>3, <1>4 DEF CatalogInv

(* A request that ends.                                                      *)
LEMMA EndsKeeps ==
    ASSUME CatalogTypeOK, NEW r \in Reqs, NEW x \in {"ok", "refused", "failed"}, Ends(r, x)
    PROVE  /\ req' \in [Reqs -> Request] /\ \A q \in Reqs : q # r => req'[q] = req[q]
           /\ req'[r] = [req[r] EXCEPT !.pc = "done", !.result = x]
           /\ req'[r].pc = "done" /\ req'[r].op = req[r].op /\ req'[r].exam = req[r].exam
           /\ req'[r].to = req[r].to /\ req'[r].before = req[r].before
           /\ req'[r].overtook = req[r].overtook
           /\ req'[r].result = x
<1>1. req \in [Reqs -> Request] /\ req[r] \in Request
    BY DEF CatalogTypeOK
<1> DEFINE y == [req[r] EXCEPT !.pc = "done", !.result = x]
<1>2. y \in Request
    BY <1>1 DEF Request
<1>3. req' = [req EXCEPT ![r] = y]
    BY <1>1 DEF Ends
<1>4. /\ y.pc = "done" /\ y.op = req[r].op /\ y.exam = req[r].exam
      /\ y.to = req[r].to /\ y.before = req[r].before /\ y.overtook = req[r].overtook
      /\ y.result = x
    BY <1>1 DEF Request
<1> HIDE DEF y
<1>5. req' \in [Reqs -> Request] /\ \A q \in Reqs : q # r => req'[q] = req[q]
    BY <1>1, <1>2, <1>3
<1>6. req'[r] = y
    BY <1>1, <1>3
<1> QED BY <1>4, <1>5, <1>6 DEF y

(* One that ends keeps its part of the invariant.                            *)
LEMMA EndedIsFine ==
    ASSUME CatalogInv, Later, NEW r \in Reqs, InFlight(r),
           NEW x \in {"ok", "refused", "failed"}, Ends(r, x)
    PROVE  OfRequest(r)' /\ Listed(r)'
<1>1. CatalogTypeOK /\ OfRequest(r)
    BY DEF CatalogInv
<1>2. /\ req'[r].pc = "done" /\ req'[r].op = req[r].op /\ req'[r].exam = req[r].exam
      /\ req'[r].to = req[r].to /\ req'[r].before = req[r].before
    BY <1>1, EndsKeeps
<1>3. OpAt(req[r])'
    BY <1>2 DEF OpAt
<1>4. Named(req[r])'
    BY <1>1, <1>2, Fields DEF OfRequest, Named, Later
<1>5. Drawn(req[r])'
    BY <1>1, <1>2, Fields DEF OfRequest, Drawn, Named, Later
<1>6. Raced(r)' /\ Listed(r)'
    BY <1>2 DEF Raced, Listed
<1> QED BY <1>3, <1>4, <1>5, <1>6 DEF OfRequest

(* A statement that fails.                                                   *)
LEMMA EndsQuietly ==
    ASSUME CatalogInv, NEW r \in Reqs, InFlight(r), UNCHANGED <<exam, link, racing>>,
           NEW x \in {"ok", "refused", "failed"}, Ends(r, x)
    PROVE  CatalogInv' /\ Later
<1>1. /\ req' \in [Reqs -> Request] /\ \A q \in Reqs : q # r => req'[q] = req[q]
      /\ req'[r].op = req[r].op /\ req'[r].exam = req[r].exam
      /\ req'[r].overtook = req[r].overtook /\ req'[r].pc = "done"
    BY EndsKeeps DEF CatalogInv
<1>2. Later
    BY <1>1 DEF Later, CatalogInv
<1>3. OfRequest(r)'
    BY <1>2, EndedIsFine
<1> QED BY <1>1, <1>3, Quietly

(* A request that names a stored exam, and goes on or is refused.            *)
LEMMA FoundQuietly ==
    ASSUME CatalogInv, NEW r \in Reqs, req[r].pc = "idle", NEW e \in Exams, exam[e].stored,
           UNCHANGED <<exam, link, racing>>,
           NEW op \in {"update", "publish", "clone"},
           NEW p \in {"rename", "update", "list", "version"},
           Found(r, op, e, p),
           p \in {"rename", "update"} => op = "update" /\ ~ exam[e].published,
           p = "list" => op = "publish", p = "version" => op = "clone"
    PROVE  CatalogInv' /\ Later
<1>1. req \in [Reqs -> Request] /\ req[r] \in Request /\ OfRequest(r) /\ exam[e] \in Exam
    BY Fields DEF CatalogInv, CatalogTypeOK
<1>2. req[r].op = "none" /\ req[r].to = NoOne /\ req[r].result = "none" /\ ~ req[r].overtook
    BY <1>1 DEF OfRequest, OpAt
<1> DEFINE y == [req[r] EXCEPT !.op = op, !.exam = e, !.pc = p, !.code = exam[e].code,
                               !.before = Family(e)]
<1>3. Family(e) \subseteq Exams /\ exam[e].code \in Code
    BY <1>1 DEF Family, Stored, Exam
<1>4. y \in Request
    BY <1>1, <1>3 DEF Request
<1>5. /\ y.pc = p /\ y.op = op /\ y.exam = e /\ y.to = NoOne /\ y.before = Family(e)
      /\ ~ y.overtook /\ y.result = "none"
    BY <1>1, <1>2 DEF Request
<1>6. req' = [req EXCEPT ![r] = y]
    BY <1>1 DEF Found
<1> HIDE DEF y
<1>7. req' \in [Reqs -> Request] /\ \A q \in Reqs : q # r => req'[q] = req[q]
    BY <1>1, <1>4, <1>6
<1>8. req'[r] = y
    BY <1>1, <1>6
<1>9. \A d \in Family(e) : d \in Exams /\ exam[d].stored /\ exam[d].root = exam[e].root
    BY DEF Family, Stored
<1>10. /\ req'[r].pc = p /\ req'[r].op = op /\ req'[r].exam = e /\ req'[r].to = NoOne
       /\ req'[r].before = Family(e) /\ ~ req'[r].overtook /\ req'[r].result = "none"
    BY <1>5, <1>8
<1>11. OpAt(req[r])' /\ Named(req[r])' /\ Drawn(req[r])' /\ Raced(r)'
    BY <1>9, <1>10 DEF OpAt, Named, Drawn, Raced
<1>12. OfRequest(r)'
    BY <1>11 DEF OfRequest
<1> QED BY <1>2, <1>5, <1>7, <1>8, <1>12, Quietly

(* One that is refused.                                                      *)
LEMMA RefusedQuietly ==
    ASSUME CatalogInv, NEW r \in Reqs, req[r].pc = "idle", NEW e \in Exams, exam[e].stored,
           UNCHANGED <<exam, link, racing>>, NEW op \in {"update", "add", "remove"},
           Refused(r, op, e)
    PROVE  CatalogInv' /\ Later
<1>1. req \in [Reqs -> Request] /\ req[r] \in Request /\ OfRequest(r)
    BY Fields DEF CatalogInv, CatalogTypeOK
<1>2. req[r].op = "none" /\ req[r].to = NoOne
    BY <1>1 DEF OfRequest, OpAt
<1> DEFINE y == [req[r] EXCEPT !.op = op, !.exam = e, !.pc = "done", !.result = "refused"]
<1>3. y \in Request
    BY <1>1 DEF Request
<1>4. y.pc = "done" /\ y.op = op /\ y.exam = e
    BY <1>1 DEF Request
<1>5. req' = [req EXCEPT ![r] = y]
    BY <1>1 DEF Refused
<1> HIDE DEF y
<1>6. req' \in [Reqs -> Request] /\ \A q \in Reqs : q # r => req'[q] = req[q]
    BY <1>1, <1>3, <1>5
<1>7. req'[r] = y
    BY <1>1, <1>5
<1>8. req'[r].pc = "done" /\ req'[r].op = op /\ req'[r].exam = e
    BY <1>4, <1>7
<1>9. OfRequest(r)'
    BY <1>8 DEF OfRequest, OpAt, Named, Drawn, Raced
<1> QED BY <1>2, <1>4, <1>6, <1>7, <1>9, Quietly

(* Update, Publish and Clone come in.                                        *)
LEMMA UpdateBeginKeeps ==
    ASSUME CatalogInv, NEW r \in Reqs, UpdateBegin(r) PROVE CatalogInv' /\ Later
<1>1. req[r].pc = "idle" /\ UNCHANGED <<exam, link, racing>>
    BY DEF UpdateBegin
<1>2. PICK e \in Exams :
        /\ exam[e].stored
        /\ \/ Refused(r, "update", e)
           \/ ~ exam[e].published /\ \E p \in {"rename", "update"} : Found(r, "update", e, p)
    BY DEF UpdateBegin, Stored
<1>3. CASE Refused(r, "update", e)
    BY <1>1, <1>2, <1>3, RefusedQuietly
<1>4. ASSUME ~ exam[e].published, NEW p \in {"rename", "update"}, Found(r, "update", e, p)
      PROVE  CatalogInv' /\ Later
    BY <1>1, <1>2, <1>4, FoundQuietly
<1> QED BY <1>2, <1>3, <1>4

(* A Publish that finds its exam goes on to List.                            *)
LEMMA PublishBeginKeeps ==
    ASSUME CatalogInv, NEW r \in Reqs, PublishBegin(r) PROVE CatalogInv' /\ Later
<1>1. PICK e \in Exams : exam[e].stored /\ Found(r, "publish", e, "list")
    BY DEF PublishBegin, Stored
<1> QED BY <1>1, FoundQuietly DEF PublishBegin

(* A Clone that finds its exam goes on to MaxVersionInFamily.                *)
LEMMA CloneBeginKeeps ==
    ASSUME CatalogInv, NEW r \in Reqs, CloneBegin(r) PROVE CatalogInv' /\ Later
<1>1. PICK e \in Exams : exam[e].stored /\ Found(r, "clone", e, "version")
    BY DEF CloneBegin, Stored
<1> QED BY <1>1, FoundQuietly DEF CloneBegin

(* So do Add and Remove, of a draft.                                         *)
LEMMA EditBeginKeeps ==
    ASSUME CatalogInv, NEW r \in Reqs, NEW op \in {"add", "remove"}, EditBegin(r, op)
    PROVE  CatalogInv' /\ Later
<1>1. req[r].pc = "idle" /\ UNCHANGED <<exam, link, racing>>
    BY DEF EditBegin
<1>2. PICK e \in Exams, k \in Questions :
        /\ exam[e].stored
        /\ \/ Refused(r, op, e)
           \/ /\ ~ exam[e].published
              /\ req' = [req EXCEPT ![r].op = op, ![r].exam = e, ![r].question = k,
                                    ![r].pc = op]
    BY DEF EditBegin, Stored
<1>3. CASE Refused(r, op, e)
    BY <1>1, <1>2, <1>3, RefusedQuietly
<1>4. CASE /\ ~ exam[e].published
           /\ req' = [req EXCEPT ![r].op = op, ![r].exam = e, ![r].question = k, ![r].pc = op]
    <2>1. req \in [Reqs -> Request] /\ req[r] \in Request /\ OfRequest(r)
        BY Fields DEF CatalogInv, CatalogTypeOK
    <2>2. /\ req[r].op = "none" /\ req[r].to = NoOne /\ req[r].result = "none"
          /\ ~ req[r].overtook
        BY <2>1, <1>1 DEF OfRequest, OpAt
    <2> DEFINE y == [req[r] EXCEPT !.op = op, !.exam = e, !.question = k, !.pc = op]
    <2>3. y \in Request
        BY <2>1 DEF Request
    <2>4. /\ y.pc = op /\ y.op = op /\ y.exam = e /\ ~ y.overtook /\ y.result = "none"
          /\ y.question \in Questions
        BY <2>1, <2>2 DEF Request
    <2>5. req' = [req EXCEPT ![r] = y]
        BY <2>1, <1>4
    <2> HIDE DEF y
    <2>6. req' \in [Reqs -> Request] /\ \A q \in Reqs : q # r => req'[q] = req[q]
        BY <2>1, <2>3, <2>5
    <2>7. req'[r] = y
        BY <2>1, <2>5
    <2>8. /\ req'[r].pc = op /\ req'[r].op = op /\ req'[r].exam = e
          /\ ~ req'[r].overtook /\ req'[r].result = "none" /\ req'[r].question \in Questions
        BY <2>4, <2>7
    <2>9. OfRequest(r)'
        BY <2>8, <1>1, <1>2, <1>4 DEF OfRequest, OpAt, Named, Drawn, Raced
    <2> QED BY <2>2, <2>4, <2>6, <2>7, <2>9, <1>1, Quietly
<1> QED BY <1>2, <1>3, <1>4

(* Create comes in.                                                          *)
LEMMA CreateBeginKeeps ==
    ASSUME CatalogInv, NEW r \in Reqs, CreateBegin(r) PROVE CatalogInv' /\ Later
<1>1. /\ req \in [Reqs -> Request] /\ req[r] \in Request /\ OfRequest(r)
      /\ UNCHANGED <<exam, link, racing>> /\ req[r].pc = "idle"
    BY Fields DEF CatalogInv, CatalogTypeOK, CreateBegin
<1>2. req[r].op = "none" /\ req[r].result = "none" /\ ~ req[r].overtook
    BY <1>1 DEF OfRequest, OpAt
<1>3. PICK s \in Stems :
        \/ \E c \in Code : req' = [req EXCEPT ![r] = [req[r] EXCEPT !.op = "create",
                              !.pc = "save", !.version = 1, !.code = c]]
        \/ req' = [req EXCEPT ![r] = [req[r] EXCEPT !.op = "create", !.pc = "done",
                                                    !.result = "refused"]]
    <2>1. PICK s \in Stems, own \in BOOLEAN :
            LET base == [stem |-> s, n |-> 1]
                new(c) == req' = [req EXCEPT ![r] = [@ EXCEPT !.op = "create",
                                    !.pc = "save", !.version = 1, !.code = c]] IN
            \/ ~ Taken(base) /\ new(base)
            \/ Taken(base) /\ ~ own /\ new([stem |-> r, n |-> 1])
            \/ Taken(base) /\ own /\ req' = [req EXCEPT ![r].op = "create",
                                         ![r].pc = "done", ![r].result = "refused"]
        BY DEF CreateBegin
    <2>2. [stem |-> s, n |-> 1] \in Code /\ [stem |-> r, n |-> 1] \in Code
        BY DEF Code
    <2>3. \/ req' = [req EXCEPT ![r] = [req[r] EXCEPT !.op = "create",
                       !.pc = "save", !.version = 1, !.code = [stem |-> s, n |-> 1]]]
          \/ req' = [req EXCEPT ![r] = [req[r] EXCEPT !.op = "create",
                       !.pc = "save", !.version = 1, !.code = [stem |-> r, n |-> 1]]]
          \/ req' = [req EXCEPT ![r] = [req[r] EXCEPT !.op = "create", !.pc = "done",
                                                      !.result = "refused"]]
        BY <2>1, <1>1
    <2> QED BY <2>2, <2>3
<1>4. CASE \E c \in Code : req' = [req EXCEPT ![r] = [req[r] EXCEPT !.op = "create",
                              !.pc = "save", !.version = 1, !.code = c]]
    <2>1. PICK c \in Code : req' = [req EXCEPT ![r] = [req[r] EXCEPT !.op = "create",
                              !.pc = "save", !.version = 1, !.code = c]]
        BY <1>4
    <2> DEFINE y == [req[r] EXCEPT !.op = "create", !.pc = "save", !.version = 1, !.code = c]
    <2>2. y \in Request
        BY <1>1 DEF Request
    <2>3. y.pc = "save" /\ y.op = "create" /\ y.result = "none" /\ ~ y.overtook
        BY <1>1, <1>2 DEF Request
    <2> HIDE DEF y
    <2>4. req' \in [Reqs -> Request] /\ \A q \in Reqs : q # r => req'[q] = req[q]
        BY <2>1, <2>2, <1>1 DEF y
    <2>5. /\ req'[r].pc = "save" /\ req'[r].op = "create" /\ req'[r].result = "none"
          /\ ~ req'[r].overtook
        BY <2>1, <2>3, <1>1 DEF y
    <2>6. OfRequest(r)'
        BY <2>5 DEF OfRequest, OpAt, Named, Drawn, Raced
    <2> QED BY <2>4, <2>5, <2>6, <1>1, <1>2, Quietly
<1>5. CASE req' = [req EXCEPT ![r] = [req[r] EXCEPT !.op = "create", !.pc = "done",
                                                    !.result = "refused"]]
    <2> DEFINE y == [req[r] EXCEPT !.op = "create", !.pc = "done", !.result = "refused"]
    <2>2. y \in Request
        BY <1>1 DEF Request
    <2>3. y.pc = "done" /\ y.op = "create"
        BY <1>1 DEF Request
    <2> HIDE DEF y
    <2>4. req' \in [Reqs -> Request] /\ \A q \in Reqs : q # r => req'[q] = req[q]
        BY <1>5, <2>2, <1>1 DEF y
    <2>5. req'[r].pc = "done" /\ req'[r].op = "create"
        BY <1>5, <2>3, <1>1 DEF y
    <2>6. OfRequest(r)'
        BY <2>5 DEF OfRequest, OpAt, Named, Drawn, Raced
    <2> QED BY <2>4, <2>5, <2>6, <1>1, <1>2, Quietly
<1> QED BY <1>3, <1>4, <1>5

(* A request that goes on to a statement, with a code and a version.         *)
LEMMA GoesKeeps ==
    ASSUME CatalogTypeOK, NEW r \in Reqs, NEW n \in Nat, NEW c \in Code,
           NEW p \in {"update", "publish", "activate", "code", "save"},
           req' = [req EXCEPT ![r] = [req[r] EXCEPT !.pc = p, !.version = n, !.code = c]]
    PROVE  /\ req' \in [Reqs -> Request] /\ \A q \in Reqs : q # r => req'[q] = req[q]
           /\ req'[r].pc = p /\ req'[r].op = req[r].op /\ req'[r].exam = req[r].exam
           /\ req'[r].to = req[r].to /\ req'[r].before = req[r].before
           /\ req'[r].overtook = req[r].overtook /\ req'[r].result = req[r].result
           /\ req'[r].version = n
<1>1. req \in [Reqs -> Request] /\ req[r] \in Request
    BY DEF CatalogTypeOK
<1> DEFINE y == [req[r] EXCEPT !.pc = p, !.version = n, !.code = c]
<1>2. y \in Request
    BY <1>1 DEF Request
<1>4. /\ y.pc = p /\ y.op = req[r].op /\ y.exam = req[r].exam
      /\ y.to = req[r].to /\ y.before = req[r].before /\ y.overtook = req[r].overtook
      /\ y.result = req[r].result /\ y.version = n
    BY <1>1 DEF Request
<1> HIDE DEF y
<1>5. req' \in [Reqs -> Request] /\ \A q \in Reqs : q # r => req'[q] = req[q]
    BY <1>1, <1>2 DEF y
<1>6. req'[r] = y
    BY <1>1 DEF y
<1> QED BY <1>4, <1>5, <1>6

(* Update asks for a free code.                                              *)
LEMMA UpdateRenameKeeps ==
    ASSUME CatalogInv, NEW r \in Reqs, UpdateRename(r) PROVE CatalogInv' /\ Later
<1>1. /\ req \in [Reqs -> Request] /\ req[r] \in Request /\ OfRequest(r)
      /\ UNCHANGED <<exam, link, racing>> /\ req[r].pc = "rename" /\ InFlight(r)
    BY Fields DEF CatalogInv, CatalogTypeOK, UpdateRename, InFlight
<1>2. PICK s \in Stems, n \in 1..2 :
        \/ Ends(r, "refused")
        \/ req' = [req EXCEPT ![r].code = [stem |-> s, n |-> n], ![r].pc = "update"]
    BY DEF UpdateRename
<1>3. CASE Ends(r, "refused")
    BY <1>1, <1>3, EndsQuietly
<1>4. CASE req' = [req EXCEPT ![r].code = [stem |-> s, n |-> n], ![r].pc = "update"]
    <2>1. [stem |-> s, n |-> n] \in Code /\ req[r].version \in Nat
        BY <1>1 DEF Code, Request
    <2>2. req' = [req EXCEPT ![r] = [req[r] EXCEPT !.pc = "update", !.version = req[r].version,
                                                   !.code = [stem |-> s, n |-> n]]]
        BY <1>1, <1>4 DEF Request
    <2>3. /\ req' \in [Reqs -> Request] /\ \A q \in Reqs : q # r => req'[q] = req[q]
          /\ req'[r].pc = "update" /\ req'[r].op = req[r].op /\ req'[r].exam = req[r].exam
          /\ req'[r].overtook = req[r].overtook /\ req'[r].result = req[r].result
        BY <2>1, <2>2, GoesKeeps DEF CatalogInv
    <2>4. OfRequest(r)'
        BY <1>1, <2>3 DEF OfRequest, OpAt, Named, Drawn, Raced
    <2> QED BY <1>1, <2>3, <2>4, Quietly
<1> QED BY <1>2, <1>3, <1>4

(* Publish lists the questions.                                              *)
LEMMA PublishListKeeps ==
    ASSUME CatalogInv, NEW r \in Reqs, PublishList(r) PROVE CatalogInv' /\ Later
<1>1. /\ req \in [Reqs -> Request] /\ req[r] \in Request /\ OfRequest(r)
      /\ UNCHANGED <<exam, link, racing>> /\ req[r].pc = "list" /\ InFlight(r)
    BY Fields DEF CatalogInv, CatalogTypeOK, PublishList, InFlight
<1>2. CASE link[req[r].exam] = {}
    BY <1>1, <1>2, EndsQuietly DEF PublishList
<1>3. CASE link[req[r].exam] # {}
    <2>1. req[r].code \in Code /\ req[r].version \in Nat
        BY <1>1 DEF Request
    <2>2. req' = [req EXCEPT ![r] = [req[r] EXCEPT !.pc = "publish",
                                      !.version = req[r].version, !.code = req[r].code]]
        BY <1>1, <1>3 DEF PublishList, Goes, Request
    <2>3. /\ req' \in [Reqs -> Request] /\ \A q \in Reqs : q # r => req'[q] = req[q]
          /\ req'[r].pc = "publish" /\ req'[r].op = req[r].op /\ req'[r].exam = req[r].exam
          /\ req'[r].overtook = req[r].overtook /\ req'[r].result = req[r].result
        BY <2>1, <2>2, GoesKeeps DEF CatalogInv
    <2>4. OfRequest(r)'
        BY <1>1, <2>3 DEF OfRequest, OpAt, Named, Drawn, Raced
    <2> QED BY <1>1, <1>3, <2>3, <2>4, Quietly
<1> QED BY <1>2, <1>3

(* Clone draws the version above all that are stored of the family.          *)
LEMMA CloneVersionKeeps ==
    ASSUME CatalogInv, NEW r \in Reqs, CloneVersion(r) PROVE CatalogInv' /\ Later
<1>1. /\ req \in [Reqs -> Request] /\ req[r] \in Request /\ OfRequest(r)
      /\ UNCHANGED <<exam, link, racing>> /\ req[r].pc = "version"
    BY Fields DEF CatalogInv, CatalogTypeOK, CloneVersion
<1>2. PICK d \in Family(req[r].exam) :
        /\ \A f \in Family(req[r].exam) : exam[f].version <= exam[d].version
        /\ req' = [req EXCEPT ![r].version = exam[d].version + 1, ![r].pc = "code"]
    BY DEF CloneVersion
<1>3. /\ d \in Exams /\ exam[d].version \in Nat /\ exam[d].version + 1 \in Nat
      /\ req[r].code \in Code
    BY <1>1, Fields DEF Family, Stored, CatalogInv
<1>4. req' = [req EXCEPT ![r] = [req[r] EXCEPT !.pc = "code",
                              !.version = exam[d].version + 1, !.code = req[r].code]]
    BY <1>1, <1>2 DEF Request
<1> DEFINE n == exam[d].version + 1
           c == req[r].code
<1>9. n \in Nat /\ c \in Code /\ CatalogTypeOK
      /\ req' = [req EXCEPT ![r] = [req[r] EXCEPT !.pc = "code", !.version = n, !.code = c]]
    BY <1>3, <1>4 DEF CatalogInv
<1> HIDE DEF n, c
<1>5. /\ req' \in [Reqs -> Request] /\ \A q \in Reqs : q # r => req'[q] = req[q]
      /\ req'[r].pc = "code" /\ req'[r].op = req[r].op /\ req'[r].exam = req[r].exam
      /\ req'[r].to = req[r].to /\ req'[r].before = req[r].before
      /\ req'[r].overtook = req[r].overtook /\ req'[r].result = req[r].result
      /\ req'[r].version = n
    BY <1>9, GoesKeeps
<1>6. \A e \in req[r].before : e \in Family(req[r].exam) /\ exam[e].version \in Nat
    BY <1>1, Fields DEF OfRequest, OpAt, Named, Family, Stored, CatalogInv
<1>7. \A e \in req[r].before : exam[e].version < exam[d].version + 1
    BY <1>2, <1>3, <1>6
<1>8. OfRequest(r)'
    BY <1>1, <1>5, <1>7 DEF OfRequest, OpAt, Named, Drawn, Raced, n
<1> QED BY <1>1, <1>5, <1>8, Quietly

(* And a code that is free, or that nobody has.                              *)
LEMMA CloneCodeKeeps ==
    ASSUME CatalogInv, NEW r \in Reqs, CloneCode(r) PROVE CatalogInv' /\ Later
<1>1. /\ req \in [Reqs -> Request] /\ req[r] \in Request /\ OfRequest(r)
      /\ UNCHANGED <<exam, link, racing>> /\ req[r].pc = "code"
    BY Fields DEF CatalogInv, CatalogTypeOK, CloneCode
<1>2. PICK s \in Stems :
        LET n == req[r].version
            own == [req[r].code EXCEPT !.n = n]
            base == [stem |-> s, n |-> n] IN
        req' = [req EXCEPT ![r].code = IF ~ Taken(own) THEN own
                                       ELSE IF ~ Taken(base) THEN base
                                       ELSE [stem |-> r, n |-> n],
                           ![r].pc = "save"]
    BY DEF CloneCode
<1>3. PICK c \in Code : req' = [req EXCEPT ![r].code = c, ![r].pc = "save"]
    <2>1. req[r].version \in Nat /\ req[r].code \in Code
        BY <1>1 DEF Request
    <2>2. /\ [req[r].code EXCEPT !.n = req[r].version] \in Code
          /\ [stem |-> s, n |-> req[r].version] \in Code
          /\ [stem |-> r, n |-> req[r].version] \in Code
        BY <2>1 DEF Code
    <2> QED BY <1>2, <2>2
<1>4. req' = [req EXCEPT ![r] = [req[r] EXCEPT !.pc = "save",
                              !.version = req[r].version, !.code = c]]
    BY <1>1, <1>3 DEF Request
<1> DEFINE n == req[r].version
<1>5. /\ n \in Nat /\ c \in Code /\ CatalogTypeOK
      /\ req' = [req EXCEPT ![r] = [req[r] EXCEPT !.pc = "save", !.version = n, !.code = c]]
    BY <1>1, <1>3, <1>4 DEF Request, CatalogInv
<1> HIDE DEF n
<1>6. /\ req' \in [Reqs -> Request] /\ \A q \in Reqs : q # r => req'[q] = req[q]
      /\ req'[r].pc = "save" /\ req'[r].op = req[r].op /\ req'[r].exam = req[r].exam
      /\ req'[r].to = req[r].to /\ req'[r].before = req[r].before
      /\ req'[r].overtook = req[r].overtook /\ req'[r].result = req[r].result
      /\ req'[r].version = n
    BY <1>5, GoesKeeps
<1>7. OfRequest(r)'
    BY <1>1, <1>6 DEF OfRequest, OpAt, Named, Drawn, Raced, n
<1> QED BY <1>1, <1>6, <1>7, Quietly

(* A statement that fails leaves everything as it was.                       *)
LEMMA FailsKeeps ==
    ASSUME CatalogInv, NEW r \in Reqs, Fails(r) PROVE CatalogInv' /\ Later
BY EndsQuietly DEF Fails

(* A step that ends a request, or moves it, and that publishes and empties   *)
(* nothing.                                                                 *)
LEMMA GrowsKeeps ==
    ASSUME CatalogInv, Later, Grows, NEW r \in Reqs, CatalogTypeOK',
           \A e \in Exams : exam'[e].published => exam'[e].stored,
           \A q \in Reqs : q # r => req'[q] = req[q],
           OfRequest(r)', req'[r].pc # "publish"
    PROVE  CatalogInv'
<1>1. ASSUME NEW q \in Reqs PROVE OfRequest(q)' /\ Listed(q)'
    <2>1. CASE q = r
        BY <2>1 DEF Listed
    <2>2. CASE q # r
        <3>1. req'[q] = req[q]
            BY <2>2
        <3>2. Listed(q)'
            <4>1. CASE req[q].pc = "publish"
                <5>1. req[q].exam \in Exams
                    BY <4>1 DEF CatalogInv, OfRequest, OpAt, Named
                <5> QED BY <3>1, <5>1, ListedStays DEF Grows
            <4>2. CASE req[q].pc # "publish"
                BY <3>1, <4>2 DEF Listed
            <4> QED BY <4>1, <4>2
        <3> QED BY <3>1, <3>2, RequestStays
    <2> QED BY <2>1, <2>2
<1> QED BY <1>1, QuestionsStay DEF CatalogInv

(* An exam is stored with a root, or is not.                                 *)
LEMMA ExamFields ==
    ASSUME CatalogTypeOK, NEW e \in Exams
    PROVE  /\ exam \in [Exams -> Exam] /\ exam[e] \in Exam
           /\ exam[e].stored <=> exam[e].root # NoOne
BY DEF CatalogTypeOK

(* A column of an exam is written, other than those the invariant reads.     *)
LEMMA ColumnKeeps ==
    ASSUME CatalogTypeOK, NEW e \in Exams, exam[e].stored, NEW x \in Exam,
           exam' = [exam EXCEPT ![e] = x],
           x.stored, x.root = exam[e].root, x.version = exam[e].version
    PROVE  /\ exam' \in [Exams -> Exam]
           /\ exam'[e] = x /\ \A d \in Exams : d # e => exam'[d] = exam[d]
           /\ \A d \in Exams : exam'[d].stored <=> exam'[d].root # NoOne
           /\ \A d \in Exams : exam[d].stored =>
                /\ exam'[d].stored /\ exam'[d].root = exam[d].root
                /\ exam'[d].version = exam[d].version
<1>1. exam \in [Exams -> Exam]
    BY DEF CatalogTypeOK
<1>2. /\ exam' \in [Exams -> Exam]
      /\ exam'[e] = x /\ \A d \in Exams : d # e => exam'[d] = exam[d]
    BY <1>1
<1> QED BY <1>2 DEF CatalogTypeOK

(* Update writes the row back.                                               *)
LEMMA UpdateWriteKeeps ==
    ASSUME CatalogInv, NEW r \in Reqs, UpdateWrite(r) PROVE CatalogInv' /\ Later
<1> DEFINE e == req[r].exam
<1>1. /\ CatalogTypeOK /\ OfRequest(r) /\ req[r].pc = "update" /\ InFlight(r)
      /\ e \in Exams /\ exam[e].stored /\ UNCHANGED <<link, racing>>
    BY DEF CatalogInv, UpdateWrite, InFlight, OfRequest, OpAt, Named
<1>2. CASE Ends(r, "failed") /\ UNCHANGED exam
    BY <1>1, <1>2, EndsQuietly
<1>3. CASE exam' = [exam EXCEPT ![e].code = req[r].code] /\ Ends(r, "ok")
    <2> DEFINE x == [exam[e] EXCEPT !.code = req[r].code]
    <2>1. exam[e] \in Exam /\ req[r].code \in Code
        BY <1>1, Fields
    <2>2. /\ x \in Exam /\ x.stored = exam[e].stored /\ x.root = exam[e].root
          /\ x.version = exam[e].version /\ x.published = exam[e].published
        BY <2>1 DEF Exam
    <2>3. exam' = [exam EXCEPT ![e] = x]
        BY <1>3
    <2> HIDE DEF x, e
    <2>4. /\ exam' \in [Exams -> Exam]
          /\ exam'[e] = x /\ \A d \in Exams : d # e => exam'[d] = exam[d]
          /\ \A d \in Exams : exam'[d].stored <=> exam'[d].root # NoOne
          /\ \A d \in Exams : exam[d].stored =>
                /\ exam'[d].stored /\ exam'[d].root = exam[d].root
                /\ exam'[d].version = exam[d].version
        BY <1>1, <2>2, <2>3, ColumnKeeps
    <2>5. /\ req' \in [Reqs -> Request] /\ \A q \in Reqs : q # r => req'[q] = req[q]
          /\ req'[r].pc = "done" /\ req'[r].op = req[r].op /\ req'[r].exam = req[r].exam
          /\ req'[r].overtook = req[r].overtook
        BY <1>1, <1>3, EndsKeeps
    <2>6. \A d \in Exams : exam'[d].published = exam[d].published
        BY <2>2, <2>4
    <2>7. Later
        BY <1>1, <2>4, <2>5, <2>6 DEF Later
    <2>8. OfRequest(r)'
        BY <1>1, <1>3, <2>7, EndedIsFine
    <2>9. CatalogTypeOK' /\ Grows
        BY <1>1, <2>4, <2>5, <2>6 DEF CatalogTypeOK, Grows
    <2>10. \A d \in Exams : exam'[d].published => exam'[d].stored
        BY <2>4, <2>6 DEF CatalogInv
    <2> QED BY <2>5, <2>7, <2>8, <2>9, <2>10, GrowsKeeps
<1> QED BY <1>2, <1>3 DEF UpdateWrite

(* Deactivate and Reactivate.                                                *)
LEMMA SwitchKeeps ==
    ASSUME CatalogInv, NEW r \in Reqs, Switch(r) PROVE CatalogInv' /\ Later
<1>1. PICK e \in Exams, b \in BOOLEAN :
        /\ exam[e].stored /\ exam' = [exam EXCEPT ![e].active = b]
        /\ req' = [req EXCEPT ![r].op = "switch", ![r].exam = e,
                              ![r].pc = "done", ![r].result = "ok"]
    BY DEF Switch, Stored
<1>2. /\ CatalogTypeOK /\ OfRequest(r) /\ req[r].pc = "idle" /\ UNCHANGED <<link, racing>>
      /\ req \in [Reqs -> Request] /\ req[r] \in Request
    BY Fields DEF CatalogInv, Switch, CatalogTypeOK
<1>3. req[r].op = "none"
    BY <1>2 DEF OfRequest, OpAt
<1> DEFINE x == [exam[e] EXCEPT !.active = b]
           y == [req[r] EXCEPT !.op = "switch", !.exam = e, !.pc = "done", !.result = "ok"]
<1>4. exam[e] \in Exam
    BY <1>2, Fields
<1>5. /\ x \in Exam /\ x.stored = exam[e].stored /\ x.root = exam[e].root
      /\ x.version = exam[e].version /\ x.published = exam[e].published
    BY <1>4 DEF Exam
<1>6. y \in Request /\ y.pc = "done" /\ y.op = "switch" /\ y.exam = e
    BY <1>2 DEF Request
<1>7. exam' = [exam EXCEPT ![e] = x] /\ req' = [req EXCEPT ![r] = y]
    BY <1>1, <1>2
<1> HIDE DEF x, y
<1>8. /\ exam' \in [Exams -> Exam]
      /\ exam'[e] = x /\ \A d \in Exams : d # e => exam'[d] = exam[d]
      /\ \A d \in Exams : exam'[d].stored <=> exam'[d].root # NoOne
      /\ \A d \in Exams : exam[d].stored =>
            /\ exam'[d].stored /\ exam'[d].root = exam[d].root
            /\ exam'[d].version = exam[d].version
    BY <1>1, <1>2, <1>5, <1>7, ColumnKeeps
<1>9. req' \in [Reqs -> Request] /\ \A q \in Reqs : q # r => req'[q] = req[q]
    BY <1>2, <1>6, <1>7
<1>10. req'[r].pc = "done" /\ req'[r].op = "switch" /\ req'[r].exam = e
    BY <1>2, <1>6, <1>7
<1>11. \A d \in Exams : exam'[d].published = exam[d].published
    BY <1>5, <1>8
<1>12. Later
    <2>1. \A q \in Reqs : req[q].op # "none" =>
            /\ req'[q].op = req[q].op /\ req'[q].exam = req[q].exam
            /\ req[q].overtook => req'[q].overtook
        BY <1>3, <1>9
    <2> QED BY <1>2, <1>8, <1>11, <2>1 DEF Later
<1>13. OfRequest(r)'
    BY <1>1, <1>8, <1>10 DEF OfRequest, OpAt, Named, Drawn, Raced
<1>14. CatalogTypeOK' /\ Grows
    BY <1>2, <1>8, <1>9, <1>11 DEF CatalogTypeOK, Grows
<1>15. \A d \in Exams : exam'[d].published => exam'[d].stored
    BY <1>8, <1>11 DEF CatalogInv
<1> QED BY <1>9, <1>10, <1>12, <1>13, <1>14, <1>15, GrowsKeeps

(* The last UPDATE of Publish.                                               *)
LEMMA SetActiveKeeps ==
    ASSUME CatalogInv, NEW r \in Reqs, SetActive(r) PROVE CatalogInv' /\ Later
<1> DEFINE e == req[r].exam
<1>1. /\ CatalogTypeOK /\ OfRequest(r) /\ req[r].pc = "activate" /\ InFlight(r)
      /\ e \in Exams /\ exam[e].stored /\ UNCHANGED <<link, racing>>
      /\ exam' = [exam EXCEPT ![e].active = TRUE] /\ Ends(r, "ok")
    BY DEF CatalogInv, SetActive, InFlight, OfRequest, OpAt, Named
<1> DEFINE x == [exam[e] EXCEPT !.active = TRUE]
<1>2. exam[e] \in Exam
    BY <1>1, Fields
<1>3. /\ x \in Exam /\ x.stored = exam[e].stored /\ x.root = exam[e].root
      /\ x.version = exam[e].version /\ x.published = exam[e].published
    BY <1>2 DEF Exam
<1>4. exam' = [exam EXCEPT ![e] = x]
    BY <1>1
<1> HIDE DEF x, e
<1>5. /\ exam' \in [Exams -> Exam]
      /\ exam'[e] = x /\ \A d \in Exams : d # e => exam'[d] = exam[d]
      /\ \A d \in Exams : exam'[d].stored <=> exam'[d].root # NoOne
      /\ \A d \in Exams : exam[d].stored =>
            /\ exam'[d].stored /\ exam'[d].root = exam[d].root
            /\ exam'[d].version = exam[d].version
    BY <1>1, <1>3, <1>4, ColumnKeeps
<1>6. /\ req' \in [Reqs -> Request] /\ \A q \in Reqs : q # r => req'[q] = req[q]
      /\ req'[r].pc = "done" /\ req'[r].op = req[r].op /\ req'[r].exam = req[r].exam
      /\ req'[r].overtook = req[r].overtook
    BY <1>1, EndsKeeps
<1>7. \A d \in Exams : exam'[d].published = exam[d].published
    BY <1>3, <1>5
<1>8. Later
    BY <1>1, <1>5, <1>6, <1>7 DEF Later
<1>9. OfRequest(r)'
    BY <1>1, <1>8, EndedIsFine
<1>10. CatalogTypeOK' /\ Grows
    BY <1>1, <1>5, <1>6, <1>7 DEF CatalogTypeOK, Grows
<1>11. \A d \in Exams : exam'[d].published => exam'[d].stored
    BY <1>5, <1>7 DEF CatalogInv
<1> QED BY <1>6, <1>8, <1>9, <1>10, <1>11, GrowsKeeps

(* The first one: who was in flight may still change the exam.               *)
LEMMA SetPublishedKeeps ==
    ASSUME CatalogInv, NEW r \in Reqs, SetPublished(r) PROVE CatalogInv' /\ Later
<1> DEFINE e == req[r].exam
           crowd == IF exam[e].published THEN racing[e] ELSE { q \in Reqs : InFlight(q) }
<1>1. /\ CatalogTypeOK /\ OfRequest(r) /\ req[r].pc = "publish"
      /\ e \in Exams /\ exam[e].stored /\ UNCHANGED link
      /\ req \in [Reqs -> Request] /\ req[r] \in Request
    BY Fields DEF CatalogInv, SetPublished, OfRequest, OpAt, Named, CatalogTypeOK
<1>2. /\ exam' = [exam EXCEPT ![e].published = TRUE] /\ Goes(r, "activate")
      /\ racing' = [racing EXCEPT ![e] = crowd]
    BY DEF SetPublished
<1> DEFINE x == [exam[e] EXCEPT !.published = TRUE]
<1>3. exam[e] \in Exam /\ racing \in [Exams -> SUBSET Reqs]
    BY <1>1, Fields DEF CatalogTypeOK
<1>4. /\ x \in Exam /\ x.stored = exam[e].stored /\ x.root = exam[e].root
      /\ x.version = exam[e].version /\ x.published
    BY <1>3 DEF Exam
<1>5. exam' = [exam EXCEPT ![e] = x]
    BY <1>2
<1>6. /\ crowd \subseteq Reqs
      /\ exam[e].published => crowd = racing[e]
      /\ ~ exam[e].published => crowd = { q \in Reqs : InFlight(q) }
    BY <1>1, <1>3
<1> HIDE DEF x, crowd
<1>7. /\ exam' \in [Exams -> Exam]
      /\ exam'[e] = x /\ \A d \in Exams : d # e => exam'[d] = exam[d]
      /\ \A d \in Exams : exam'[d].stored <=> exam'[d].root # NoOne
      /\ \A d \in Exams : exam[d].stored =>
            /\ exam'[d].stored /\ exam'[d].root = exam[d].root
            /\ exam'[d].version = exam[d].version
    BY <1>1, <1>4, <1>5, ColumnKeeps
<1>8. /\ racing' \in [Exams -> SUBSET Reqs] /\ racing'[e] = crowd
      /\ \A d \in Exams : d # e => racing'[d] = racing[d]
    BY <1>1, <1>2, <1>3, <1>6
<1>9. /\ req' \in [Reqs -> Request] /\ \A q \in Reqs : q # r => req'[q] = req[q]
      /\ req'[r].pc = "activate" /\ req'[r].op = req[r].op /\ req'[r].exam = e
      /\ req'[r].overtook = req[r].overtook /\ req'[r].result = req[r].result
    <2>1. req' = [req EXCEPT ![r] = [req[r] EXCEPT !.pc = "activate",
                                       !.version = req[r].version, !.code = req[r].code]]
        BY <1>1, <1>2 DEF Goes, Request
    <2>2. req[r].version \in Nat /\ req[r].code \in Code
        BY <1>1 DEF Request
    <2> QED BY <1>1, <2>1, <2>2, GoesKeeps
<1>10. Later
    <2>1. \A d \in Exams : exam[d].published =>
              exam'[d].published /\ racing'[d] = racing[d]
        BY <1>4, <1>6, <1>7, <1>8
    <2>2. \A d \in Exams : exam'[d].published /\ ~ exam[d].published =>
              { q \in Reqs : InFlight(q) } \subseteq racing'[d]
        BY <1>6, <1>7, <1>8
    <2> QED BY <1>7, <1>9, <2>1, <2>2 DEF Later
<1>11. CatalogTypeOK'
    BY <1>1, <1>7, <1>8, <1>9 DEF CatalogTypeOK
<1>12. OfRequest(r)'
    BY <1>1, <1>4, <1>7, <1>9 DEF OfRequest, OpAt, Named, Drawn, Raced
<1>13. ASSUME NEW q \in Reqs PROVE OfRequest(q)' /\ Listed(q)'
    <2>1. CASE q = r
        BY <2>1, <1>9, <1>12 DEF Listed
    <2>2. CASE q # r
        <3>1. req'[q] = req[q]
            BY <2>2, <1>9
        <3> QED BY <3>1, <1>1, <1>10, RequestStays, ListedStays
    <2> QED BY <2>1, <2>2
<1>14. PublishedHasQuestions'
    <2> SUFFICES ASSUME NEW d \in Exams, exam'[d].published, link'[d] = {}
                 PROVE  \E q \in Reqs : /\ req'[q].op = "remove" /\ req'[q].exam = d
                                        /\ q \in racing'[d] \/ req'[q].overtook
        BY DEF PublishedHasQuestions
    <2>1. CASE exam[d].published
        <3>1. PICK q \in Reqs : /\ req[q].op = "remove" /\ req[q].exam = d
                                /\ q \in racing[d] \/ req[q].overtook
            BY <1>1, <2>1 DEF CatalogInv, PublishedHasQuestions
        <3> QED BY <3>1, <2>1, <1>10 DEF Later
    <2>2. CASE ~ exam[d].published
        <3>1. d = e
            BY <1>7, <2>2
        <3>2. PICK q \in Reqs : req[q].op = "remove" /\ req[q].exam = d /\ req[q].overtook
            BY <1>1, <3>1 DEF CatalogInv, Listed
        <3> QED BY <3>2, <1>10 DEF Later
    <2> QED BY <2>1, <2>2
<1>15. \A d \in Exams : exam'[d].published => exam'[d].stored
    BY <1>1, <1>7 DEF CatalogInv
<1> QED BY <1>10, <1>11, <1>13, <1>14, <1>15 DEF CatalogInv

(* Create and Clone save a draft.                                            *)
LEMMA SaveExamKeeps ==
    ASSUME CatalogInv, NEW r \in Reqs, SaveExam(r) PROVE CatalogInv' /\ Later
<1>1. /\ CatalogTypeOK /\ OfRequest(r) /\ req[r].pc = "save" /\ InFlight(r)
      /\ UNCHANGED <<link, racing>> /\ req \in [Reqs -> Request] /\ req[r] \in Request
    BY Fields DEF CatalogInv, SaveExam, InFlight, CatalogTypeOK
<1>2. CASE Ends(r, "failed") /\ UNCHANGED exam
    BY <1>1, <1>2, EndsQuietly
<1>3. ASSUME NEW e \in Exams, ~ exam[e].stored,
             exam' = [exam EXCEPT ![e] =
                [stored |-> TRUE, version |-> req[r].version,
                 root |-> IF req[r].op = "clone" THEN exam[req[r].exam].root ELSE e,
                 code |-> req[r].code, published |-> FALSE, active |-> TRUE]],
             req' = [req EXCEPT ![r] = [req[r] EXCEPT !.to = e,
                !.pc = IF req[r].op = "clone" THEN "copy" ELSE "done",
                !.result = IF req[r].op = "clone" THEN req[r].result ELSE "ok"]]
      PROVE  CatalogInv' /\ Later
    <2> DEFINE top == IF req[r].op = "clone" THEN exam[req[r].exam].root ELSE e
               x == [stored |-> TRUE, version |-> req[r].version, root |-> top,
                     code |-> req[r].code, published |-> FALSE, active |-> TRUE]
               p == IF req[r].op = "clone" THEN "copy" ELSE "done"
               y == [req[r] EXCEPT !.to = e, !.pc = p,
                       !.result = IF req[r].op = "clone" THEN req[r].result ELSE "ok"]
    <2>1. top \in Exams
        <3>1. CASE req[r].op = "clone"
            BY <1>1, <3>1, Fields DEF OfRequest, Named, CatalogTypeOK
        <3> QED BY <3>1
    <2>2. req[r].version \in Nat /\ req[r].code \in Code
        BY <1>1, Fields
    <2>3. x \in Exam /\ x.stored /\ x.root # NoOne /\ x.version = req[r].version
          /\ ~ x.published
        BY <2>1, <2>2, <1>1, Fields DEF Exam
    <2>4. /\ y \in Request /\ y.to = e /\ y.op = req[r].op /\ y.exam = req[r].exam
          /\ y.before = req[r].before /\ y.overtook = req[r].overtook /\ y.pc = p
          /\ req[r].op = "clone" => y.result = req[r].result
        BY <1>1 DEF Request
    <2>5. exam' = [exam EXCEPT ![e] = x] /\ req' = [req EXCEPT ![r] = y]
        BY <1>3
    <2>6. p = IF req[r].op = "clone" THEN "copy" ELSE "done"
        OBVIOUS
    <2> HIDE DEF x, y, p, top
    <2>7. /\ exam' \in [Exams -> Exam] /\ exam'[e] = x
          /\ \A d \in Exams : d # e => exam'[d] = exam[d]
        BY <1>1, <2>3, <2>5 DEF CatalogTypeOK
    <2>8. /\ req' \in [Reqs -> Request] /\ req'[r] = y
          /\ \A q \in Reqs : q # r => req'[q] = req[q]
        BY <1>1, <2>4, <2>5
    <2>9. ~ exam[e].published
        BY <1>3 DEF CatalogInv
    <2>10. /\ \A d \in Exams : exam'[d].published = exam[d].published
           /\ \A d \in Exams : exam[d].stored => exam'[d] = exam[d]
        BY <1>3, <2>3, <2>7, <2>9, Fields, <1>1
    <2>11. Later
        BY <1>1, <2>4, <2>8, <2>10 DEF Later
    <2>12. CatalogTypeOK' /\ Grows
        BY <1>1, <2>3, <2>7, <2>8, <2>10 DEF CatalogTypeOK, Grows
    <2>13. \A d \in Exams : exam'[d].published => exam'[d].stored
        BY <2>10 DEF CatalogInv
    <2>14. /\ req'[r].pc = p /\ req'[r].op = req[r].op /\ req'[r].exam = req[r].exam
           /\ req'[r].to = e /\ req'[r].before = req[r].before
           /\ req'[r].overtook = req[r].overtook
           /\ req[r].op = "clone" => req'[r].result = req[r].result
        BY <2>4, <2>8
    <2>15. OpAt(req[r])'
        BY <2>6, <2>14, <1>1 DEF OfRequest, OpAt
    <2>16. Named(req[r])' /\ Raced(r)'
        BY <2>6, <2>14, <2>10, <2>9, <1>1, <1>3 DEF OfRequest, Named, Raced
    <2>17. Drawn(req[r])'
        <3>1. \A d \in req[r].before : req[r].op = "clone" =>
                exam'[d] = exam[d] /\ exam[d].version < req[r].version
            BY <1>1, <2>10 DEF OfRequest, Named, Drawn
        <3>2. exam'[e].stored /\ exam'[e].version = req[r].version
            BY <2>3, <2>7
        <3> QED BY <3>1, <3>2, <2>14, <2>6, <1>3 DEF Drawn
    <2>18. OfRequest(r)' /\ req'[r].pc # "publish"
        BY <2>15, <2>16, <2>17, <2>14, <2>6 DEF OfRequest
    <2> QED BY <2>8, <2>11, <2>12, <2>13, <2>18, GrowsKeeps
<1>4. ASSUME ~ (Ends(r, "failed") /\ UNCHANGED exam)
      PROVE  CatalogInv' /\ Later
    <2>1. PICK e \in Exams \ Stored :
            /\ exam' = [exam EXCEPT ![e] =
                [stored |-> TRUE, version |-> req[r].version,
                 root |-> IF req[r].op = "clone" THEN exam[req[r].exam].root ELSE e,
                 code |-> req[r].code, published |-> FALSE, active |-> TRUE]]
            /\ req' = [req EXCEPT ![r].to = e,
                ![r].pc = IF req[r].op = "clone" THEN "copy" ELSE "done",
                ![r].result = IF req[r].op = "clone" THEN @ ELSE "ok"]
        BY <1>1, <1>4 DEF SaveExam
    <2>2. e \in Exams /\ ~ exam[e].stored
        BY DEF Stored
    <2>3. req' = [req EXCEPT ![r] = [req[r] EXCEPT !.to = e,
                !.pc = IF req[r].op = "clone" THEN "copy" ELSE "done",
                !.result = IF req[r].op = "clone" THEN req[r].result ELSE "ok"]]
        BY <2>1, <1>1 DEF Request
    <2> QED BY <2>1, <2>2, <2>3, <1>3
<1> QED BY <1>2, <1>4

(* A step that adds questions to one exam and ends.                          *)
LEMMA LinkGrows ==
    ASSUME CatalogInv, NEW r \in Reqs, InFlight(r), Ends(r, "ok"), UNCHANGED <<exam, racing>>,
           NEW e \in Exams, NEW more \in SUBSET Questions,
           link' = [link EXCEPT ![e] = link[e] \cup more]
    PROVE  CatalogInv' /\ Later
<1>1. CatalogTypeOK
    BY DEF CatalogInv
<1>2. /\ req' \in [Reqs -> Request] /\ \A q \in Reqs : q # r => req'[q] = req[q]
      /\ req'[r].pc = "done" /\ req'[r].op = req[r].op /\ req'[r].exam = req[r].exam
      /\ req'[r].overtook = req[r].overtook
    BY <1>1, EndsKeeps
<1>3. Later
    BY <1>2 DEF Later, CatalogInv
<1>4. /\ link' \in [Exams -> SUBSET Questions]
      /\ \A d \in Exams : link[d] \subseteq link'[d]
    BY <1>1 DEF CatalogTypeOK
<1>5. CatalogTypeOK' /\ Grows
    BY <1>1, <1>2, <1>4 DEF CatalogTypeOK, Grows
<1>6. OfRequest(r)'
    BY <1>3, EndedIsFine
<1>7. \A d \in Exams : exam'[d].published => exam'[d].stored
    BY DEF CatalogInv
<1> QED BY <1>2, <1>3, <1>5, <1>6, <1>7, GrowsKeeps

(* The questions of the clone are those of the exam, in one INSERT.          *)
LEMMA CloneIntoKeeps ==
    ASSUME CatalogInv, NEW r \in Reqs, CloneInto(r) PROVE CatalogInv' /\ Later
<1>1. /\ CatalogTypeOK /\ InFlight(r) /\ UNCHANGED <<exam, racing>>
      /\ req[r].exam \in Exams /\ req[r].to \in Exams
    BY DEF CatalogInv, CloneInto, InFlight, OfRequest, OpAt, Named, Drawn
<1>2. CASE Ends(r, "failed") /\ UNCHANGED link
    BY <1>1, <1>2, EndsQuietly
<1>3. CASE /\ link' = [link EXCEPT ![req[r].to] = link[req[r].to] \cup link[req[r].exam]]
           /\ Ends(r, "ok")
    <2>1. link[req[r].exam] \in SUBSET Questions
        BY <1>1 DEF CatalogTypeOK
    <2> QED BY <1>1, <1>3, <2>1, LinkGrows
<1> QED BY <1>2, <1>3 DEF CloneInto

(* Add is refused, or adds one question.                                     *)
LEMMA AddQuestionKeeps ==
    ASSUME CatalogInv, NEW r \in Reqs, AddQuestion(r) PROVE CatalogInv' /\ Later
<1>1. /\ CatalogTypeOK /\ InFlight(r) /\ UNCHANGED <<exam, racing>>
      /\ req[r].exam \in Exams /\ {req[r].question} \in SUBSET Questions
    BY DEF CatalogInv, AddQuestion, InFlight, OfRequest, OpAt, Named
<1>2. CASE Ends(r, "refused") /\ UNCHANGED link
    BY <1>1, <1>2, EndsQuietly
<1>3. CASE /\ link' = [link EXCEPT ![req[r].exam] = link[req[r].exam] \cup {req[r].question}]
           /\ Ends(r, "ok")
    BY <1>1, <1>3, LinkGrows
<1> QED BY <1>2, <1>3 DEF AddQuestion

(* A Remove that empties an exam was there before it was published, and      *)
(* remembers the Publish it overtakes.                                       *)
LEMMA RemoveQuestionKeeps ==
    ASSUME CatalogInv, NEW r \in Reqs, RemoveQuestion(r) PROVE CatalogInv' /\ Later
<1> DEFINE e == req[r].exam
           b == \E p \in Reqs : req[p].pc = "publish" /\ req[p].exam = e
           y == [req[r] EXCEPT !.pc = "done", !.result = "ok", !.overtook = b]
<1>1. /\ CatalogTypeOK /\ OfRequest(r) /\ req[r].pc = "remove" /\ req[r].op = "remove"
      /\ ~ req[r].overtook /\ e \in Exams /\ exam[e].stored /\ InFlight(r)
      /\ UNCHANGED <<exam, racing>>
      /\ req \in [Reqs -> Request] /\ req[r] \in Request
    BY Fields DEF CatalogInv, RemoveQuestion, InFlight, OfRequest, OpAt, Named, CatalogTypeOK
<1>2. /\ y \in Request /\ y.pc = "done" /\ y.op = "remove" /\ y.exam = e
      /\ y.to = req[r].to /\ y.before = req[r].before /\ y.overtook = b
    BY <1>1 DEF Request
<1>3. req' = [req EXCEPT ![r] = y]
    BY <1>1 DEF RemoveQuestion
<1>4. link' = [link EXCEPT ![e] = link[e] \ {req[r].question}]
    BY DEF RemoveQuestion
<1> HIDE DEF y, b
<1>5. /\ req' \in [Reqs -> Request] /\ req'[r] = y
      /\ \A q \in Reqs : q # r => req'[q] = req[q]
    BY <1>1, <1>2, <1>3
<1>6. /\ req'[r].pc = "done" /\ req'[r].op = "remove" /\ req'[r].exam = e
      /\ req'[r].to = req[r].to /\ req'[r].before = req[r].before /\ req'[r].overtook = b
    BY <1>2, <1>5
<1>7. /\ link' \in [Exams -> SUBSET Questions]
      /\ \A d \in Exams : d # e => link'[d] = link[d]
    BY <1>1, <1>4 DEF CatalogTypeOK
<1>8. Later
    BY <1>1, <1>5, <1>6 DEF Later, CatalogInv
<1>9. CatalogTypeOK'
    BY <1>1, <1>5, <1>7 DEF CatalogTypeOK
<1>10. OfRequest(r)'
    BY <1>1, <1>6 DEF OfRequest, OpAt, Named, Drawn, Raced
<1>11. ASSUME NEW q \in Reqs PROVE OfRequest(q)' /\ Listed(q)'
    <2>1. CASE q = r
        BY <2>1, <1>6, <1>10 DEF Listed
    <2>2. CASE q # r
        <3>1. req'[q] = req[q]
            BY <2>2, <1>5
        <3>2. CASE req[q].pc = "publish" /\ req[q].exam = e
            <4>1. b
                BY <3>2 DEF b
            <4> QED BY <3>1, <3>2, <4>1, <1>6, <1>8, RequestStays DEF Listed
        <3>3. CASE req[q].pc = "publish" /\ req[q].exam # e
            <4>1. req[q].exam \in Exams
                BY <3>3 DEF CatalogInv, OfRequest, OpAt, Named
            <4> QED BY <3>1, <3>3, <4>1, <1>7, <1>8, RequestStays, ListedStays
        <3>4. CASE req[q].pc # "publish"
            BY <3>1, <3>4, <1>8, RequestStays DEF Listed
        <3> QED BY <3>2, <3>3, <3>4
    <2> QED BY <2>1, <2>2
<1>12. PublishedHasQuestions'
    <2> SUFFICES ASSUME NEW d \in Exams, exam'[d].published, link'[d] = {}
                 PROVE  \E q \in Reqs : /\ req'[q].op = "remove" /\ req'[q].exam = d
                                        /\ q \in racing'[d] \/ req'[q].overtook
        BY DEF PublishedHasQuestions
    <2>1. CASE d = e
        <3>1. r \in racing'[d]
            BY <1>1, <2>1 DEF OfRequest, Raced
        <3> QED BY <3>1, <1>6, <2>1
    <2>2. CASE d # e
        <3>1. PICK q \in Reqs : /\ req[q].op = "remove" /\ req[q].exam = d
                                /\ q \in racing[d] \/ req[q].overtook
            BY <1>1, <1>7, <2>2 DEF CatalogInv, PublishedHasQuestions
        <3> QED BY <3>1, <1>1, <1>8 DEF Later
    <2> QED BY <2>1, <2>2
<1> QED BY <1>1, <1>8, <1>9, <1>11, <1>12 DEF CatalogInv

-----------------------------------------------------------------------------

(* The exams created before are drafts, and no request is under way.         *)
LEMMA CatalogInitInv == CatalogInit => CatalogInv
<1> SUFFICES ASSUME CatalogInit PROVE CatalogInv
    OBVIOUS
<1>1. \A e \in Exams : exam[e] = IF e \in Drafts
                                THEN [NoExam EXCEPT !.stored = TRUE, !.root = e,
                                        !.version = 1, !.active = TRUE,
                                        !.code = [stem |-> e, n |-> 1]]
                                ELSE NoExam
    BY DEF CatalogInit
<1>2. ASSUME NEW e \in Exams
      PROVE  /\ exam[e] \in Exam /\ ~ exam[e].published
             /\ exam[e].stored <=> exam[e].root # NoOne
    <2>1. CASE e \in Drafts
        <3>1. [stem |-> e, n |-> 1] \in Code
            BY <2>1 DEF Code
        <3>2. exam[e] = [stored |-> TRUE, root |-> e, version |-> 1,
                         code |-> [stem |-> e, n |-> 1], published |-> FALSE, active |-> TRUE]
            BY <1>1, <2>1 DEF NoExam
        <3> QED BY <3>1, <3>2, NoOneAssumption DEF Exam
    <2>2. CASE e \notin Drafts
        <3>1. NoCode \in Code
            BY DEF Code, NoCode
        <3>2. exam[e] = NoExam
            BY <1>1, <2>2
        <3>3. NoExam \in Exam /\ ~ NoExam.published /\ ~ NoExam.stored /\ NoExam.root = NoOne
            BY <3>1 DEF Exam, NoExam
        <3> QED BY <3>2, <3>3
    <2> QED BY <2>1, <2>2
<1>3. \A r \in Reqs : /\ req[r] \in Request /\ req[r].pc = "idle" /\ req[r].op = "none"
                       /\ req[r].to = NoOne /\ req[r].result = "none" /\ ~ req[r].overtook
    BY DEF CatalogInit, Request, NoCode, Code
<1>4. CatalogTypeOK
    <2>1. exam \in [Exams -> Exam] /\ req \in [Reqs -> Request]
        BY <1>2, <1>3 DEF CatalogInit
    <2>2. link \in [Exams -> SUBSET Questions]
        BY DEF CatalogInit
    <2>3. racing \in [Exams -> SUBSET Reqs]
        BY DEF CatalogInit
    <2> QED BY <1>2, <2>1, <2>2, <2>3 DEF CatalogTypeOK
<1>5. ASSUME NEW r \in Reqs PROVE OfRequest(r) /\ Listed(r)
    <2>1. req[r].pc = "idle" /\ req[r].op = "none" /\ req[r].to = NoOne
          /\ req[r].result = "none" /\ ~ req[r].overtook
        BY <1>3
    <2> QED BY <2>1 DEF OfRequest, OpAt, Named, Drawn, Raced, Listed
<1> QED BY <1>2, <1>4, <1>5 DEF CatalogInv, PublishedHasQuestions

(* Every step keeps the invariant, and undoes none of what Later names.      *)
LEMMA CatalogNextInv == CatalogInv /\ [CatalogNext]_catalogVars => CatalogInv' /\ Later
<1> SUFFICES ASSUME CatalogInv, [CatalogNext]_catalogVars PROVE CatalogInv' /\ Later
    OBVIOUS
<1>1. CASE UNCHANGED catalogVars
    <2>1. Later
        BY <1>1 DEF Later, catalogVars, CatalogInv
    <2>2. CatalogInv'
        BY <1>1 DEF catalogVars, CatalogInv, CatalogTypeOK, OfRequest, OpAt, Named, Drawn,
                    Raced, Listed, PublishedHasQuestions
    <2> QED BY <2>1, <2>2
<1>2. ASSUME NEW r \in Reqs, Begin(r) PROVE CatalogInv' /\ Later
    BY <1>2, CreateBeginKeeps, UpdateBeginKeeps, SwitchKeeps, PublishBeginKeeps,
       CloneBeginKeeps, EditBeginKeeps DEF Begin
<1>3. ASSUME NEW r \in Reqs, Step(r) PROVE CatalogInv' /\ Later
    BY <1>3, UpdateRenameKeeps, UpdateWriteKeeps, PublishListKeeps, SetPublishedKeeps,
       SetActiveKeeps, CloneVersionKeeps, CloneCodeKeeps, SaveExamKeeps, CloneIntoKeeps,
       AddQuestionKeeps, RemoveQuestionKeeps DEF Step
<1>4. ASSUME NEW r \in Reqs, Fails(r) PROVE CatalogInv' /\ Later
    BY <1>4, FailsKeeps
<1> QED BY <1>1, <1>2, <1>3, <1>4 DEF CatalogNext

-----------------------------------------------------------------------------

(* The invariant, of any number of exams, questions and requests.            *)
THEOREM CatalogInvariant == CatalogSpec => []CatalogInv
BY CatalogInitInv, CatalogNextInv, PTL DEF CatalogSpec

(* A published exam without questions was emptied by a Remove that was in    *)
(* flight when Publish set it: PublishQuestions and AssertEditable are not    *)
(* undone by any other interleaving.                                         *)
THEOREM PublishedExamsHaveQuestions == CatalogSpec => []PublishedHasQuestions
<1>1. CatalogInv => PublishedHasQuestions
    BY DEF CatalogInv
<1> QED BY <1>1, CatalogInvariant, PTL

(* However many clones are made at once, the version of a clone is above      *)
(* those of the family that it saw.                                          *)
THEOREM CloneVersionsGrow == CatalogSpec => []VersionsGrow
<1>1. CatalogInv => VersionsGrow
    BY DEF CatalogInv, OfRequest, Drawn, VersionsGrow
<1> QED BY <1>1, CatalogInvariant, PTL

(* A request's step writes its own row of `req`.                             *)
LEMMA OneMoves ==
    ASSUME CatalogTypeOK, NEW q \in Reqs, Begin(q) \/ Step(q) \/ Fails(q), NEW r \in Reqs, r # q
    PROVE  req'[r] = req[r]
<1>1. req \in [Reqs -> Request]
    BY DEF CatalogTypeOK
<1>2. CASE Begin(q)
    BY <1>1, <1>2 DEF Begin, CreateBegin, UpdateBegin, Switch, PublishBegin, CloneBegin,
                      EditBegin, Found, Refused
<1>3. CASE Step(q)
    BY <1>1, <1>3 DEF Step, UpdateRename, UpdateWrite, PublishList, SetPublished, SetActive,
                      CloneVersion, CloneCode, SaveExam, CloneInto, AddQuestion,
                      RemoveQuestion, Goes, Ends
<1>4. CASE Fails(q)
    BY <1>1, <1>4 DEF Fails, Ends
<1> QED BY <1>2, <1>3, <1>4

(* Publish answers when the exam is published and active.                    *)
THEOREM PublishedExamsAreLive == CatalogSpec => PublishedIsLive
<1>1. ASSUME CatalogInv, NEW q \in Reqs, Begin(q) \/ Step(q) \/ Fails(q), NEW r \in Reqs,
             req[r].op = "publish", req[r].result = "none", req'[r].result = "ok"
      PROVE  exam'[req[r].exam].published /\ exam'[req[r].exam].active
    <2>1. /\ CatalogTypeOK /\ OfRequest(r) /\ req \in [Reqs -> Request] /\ req[r] \in Request
        BY <1>1, Fields DEF CatalogInv, CatalogTypeOK
    <2>2. q = r
        BY <1>1, <2>1, OneMoves
    <2>3. req[r].pc \in {"list", "publish", "activate", "done"}
        BY <1>1, <2>1 DEF OfRequest, OpAt, Request
    <2>4. PublishList(r) \/ SetPublished(r) \/ SetActive(r) \/ Fails(r)
        BY <1>1, <2>2, <2>3 DEF Begin, Step, Fails, InFlight, CreateBegin, UpdateBegin, Switch,
              PublishBegin, CloneBegin, EditBegin, UpdateRename, UpdateWrite, CloneVersion,
              CloneCode, SaveExam, CloneInto, AddQuestion, RemoveQuestion
    <2>5. SetActive(r)
        <3>1. \A x \in {"refused", "failed"} : Ends(r, x) => req'[r].result # "ok"
            BY <2>1, EndsKeeps
        <3>2. \A p : Goes(r, p) => req'[r].result = req[r].result
            BY <2>1 DEF Goes, Request
        <3> QED BY <2>4, <1>1, <3>1, <3>2 DEF PublishList, SetPublished, Fails
    <2>6. /\ req[r].exam \in Exams /\ exam[req[r].exam].published
          /\ exam[req[r].exam] \in Exam /\ exam \in [Exams -> Exam]
        BY <2>1, <2>5, Fields DEF SetActive, OfRequest, OpAt, Named, CatalogTypeOK
    <2> QED BY <2>5, <2>6 DEF SetActive, Exam
<1>2. CatalogInv /\ [CatalogNext]_catalogVars =>
        [\A r \in Reqs : /\ req[r].op = "publish"
                         /\ req[r].result = "none" /\ req'[r].result = "ok"
           => exam'[req[r].exam].published /\ exam'[req[r].exam].active]_catalogVars
    BY <1>1 DEF CatalogNext
<1> QED BY <1>2, CatalogInvariant, PTL DEF CatalogSpec, PublishedIsLive

(* What a published exam says is written by no step but these.               *)
LEMMA OthersLeaveIt ==
    ASSUME CatalogInv, NEW q \in Reqs, Begin(q) \/ Step(q) \/ Fails(q), NEW e \in Exams,
           exam[e].published,
           ~ UpdateWrite(q), ~ CloneInto(q), ~ AddQuestion(q), ~ RemoveQuestion(q)
    PROVE  link' = link /\ exam'[e].code = exam[e].code
<1>1. /\ exam \in [Exams -> Exam] /\ exam[e] \in Exam /\ exam[e].stored
    BY Fields DEF CatalogInv, CatalogTypeOK
<1>2. CASE Switch(q)
    <2>1. PICK d \in Exams, b \in BOOLEAN : exam' = [exam EXCEPT ![d].active = b]
        BY <1>2 DEF Switch, Stored
    <2> QED BY <1>1, <1>2, <2>1 DEF Switch, Exam
<1>3. CASE SetPublished(q)
    BY <1>1, <1>3 DEF SetPublished, Exam
<1>4. CASE SetActive(q)
    BY <1>1, <1>4 DEF SetActive, Exam
<1>5. CASE SaveExam(q)
    BY <1>1, <1>5 DEF SaveExam, Stored
<1>6. CASE ~ (Switch(q) \/ SetPublished(q) \/ SetActive(q) \/ SaveExam(q))
    BY <1>6 DEF Begin, Step, Fails, CreateBegin, UpdateBegin, PublishBegin, CloneBegin,
                EditBegin, UpdateRename, PublishList, CloneVersion, CloneCode
<1> QED BY <1>2, <1>3, <1>4, <1>5, <1>6

(* A published exam is changed by a request that was in flight when it was   *)
(* published, and by no other.                                               *)
THEOREM PublishedExamsAreFrozen == CatalogSpec => PublishedIsFrozen
<1>1. ASSUME CatalogInv, NEW q \in Reqs, Begin(q) \/ Step(q) \/ Fails(q), NEW e \in Exams,
             exam[e].published, link'[e] # link[e] \/ exam'[e].code # exam[e].code
      PROVE  \E r \in racing[e] : req'[r] # req[r]
    <2>1. /\ CatalogTypeOK /\ OfRequest(q) /\ req \in [Reqs -> Request] /\ req[q] \in Request
          /\ exam \in [Exams -> Exam] /\ link \in [Exams -> SUBSET Questions]
        BY Fields, <1>1 DEF CatalogInv, CatalogTypeOK
    <2>2. CASE UpdateWrite(q)
        <3>1. req[q].exam = e /\ req[q].pc = "update"
            BY <1>1, <2>1, <2>2 DEF UpdateWrite
        <3>2. req'[q].pc = "done"
            BY <2>1, <2>2, EndsKeeps DEF UpdateWrite
        <3> QED BY <1>1, <2>1, <3>1, <3>2 DEF OfRequest, Raced
    <2>3. CASE CloneInto(q)
        <3>1. req[q].to = e /\ req[q].pc = "copy"
            BY <1>1, <2>1, <2>3 DEF CloneInto
        <3>2. req'[q].pc = "done"
            BY <2>1, <2>3, EndsKeeps DEF CloneInto
        <3> QED BY <1>1, <2>1, <3>1, <3>2 DEF OfRequest, Raced
    <2>4. CASE AddQuestion(q)
        <3>1. req[q].exam = e /\ req[q].pc = "add"
            BY <1>1, <2>1, <2>4 DEF AddQuestion
        <3>2. req'[q].pc = "done"
            BY <2>1, <2>4, EndsKeeps DEF AddQuestion
        <3> QED BY <1>1, <2>1, <3>1, <3>2 DEF OfRequest, Raced
    <2>5. CASE RemoveQuestion(q)
        <3>1. req[q].exam = e /\ req[q].pc = "remove"
            BY <1>1, <2>1, <2>5 DEF RemoveQuestion
        <3>2. req'[q].pc = "done"
            BY <2>1, <2>5 DEF RemoveQuestion
        <3> QED BY <1>1, <2>1, <3>1, <3>2 DEF OfRequest, Raced
    <2> QED BY <1>1, <2>2, <2>3, <2>4, <2>5, OthersLeaveIt
<1>2. CatalogInv /\ [CatalogNext]_catalogVars =>
        [\A e \in Exams :
           /\ exam[e].published
           /\ link'[e] # link[e] \/ exam'[e].code # exam[e].code
           => \E r \in racing[e] : req'[r] # req[r]]_catalogVars
    BY <1>1 DEF CatalogNext
<1> QED BY <1>2, CatalogInvariant, PTL DEF CatalogSpec, PublishedIsFrozen

(***************************************************************************)
(* The five together                                                       *)
(***************************************************************************)

(* A behaviour of the five parts is one of each of them.                     *)
LEMMA FiveParts ==
    PartsSpec => CatalogSpec /\ BankSpec /\ Spec /\ LimitSpec /\ MigratorSpec
<1>1. PartsInit => CatalogInit /\ BankInit /\ Init /\ LimitInit /\ MigratorInit
    BY DEF PartsInit
<1>2. [PartsNext]_partVars => /\ [CatalogNext]_catalogVars /\ [BankNext]_bankVars
                             /\ [Next]_vars /\ [LimitNext]_limitVars
                             /\ [MigratorNext]_migratorVars
    BY DEF PartsNext, partVars
<1> QED BY <1>1, <1>2, PTL DEF PartsSpec, CatalogSpec, BankSpec, Spec, LimitSpec, MigratorSpec

(* The five, as the run has them, keep all that is claimed of each.          *)
THEOREM PartsTheorem ==
    PartsSpec => /\ [](PublishedHasQuestions /\ VersionsGrow /\ GradedAsItWas)
                 /\ [](RateBounded /\ MinuteBounded /\ MigratedOnce)
                 /\ PublishedIsFrozen
<1> QED BY FiveParts, PublishedExamsHaveQuestions, CloneVersionsGrow, GradedTheorem,
           RateTheorem, MinuteTheorem, MigratedOnceTheorem, PublishedExamsAreFrozen, PTL
=============================================================================
