------------------------------ MODULE Migrator ------------------------------
(***************************************************************************)
(* The migrator that each service runs when it starts: replicas of one or   *)
(* two images start at the same time, each of them may die at any moment    *)
(* and starts again.                                                       *)
(*                                                                         *)
(* An image has the files 1..n of some n, each with a checksum.  A          *)
(* transaction sees and keeps what it wrote, and the primary key of the     *)
(* table of migrations makes the second INSERT of a version wait for the    *)
(* first.                                                                  *)
(***************************************************************************)
EXTENDS Integers, Sequences

CONSTANTS Replicas, Versions, Checksums

ASSUME VersionsAssumption == Versions \in Nat
ASSUME ChecksumsAssumption == "-" \notin Checksums

VARIABLES
    image,      \* the files of each replica
    meta,       \* whether __schema_migrations exists
    recorded,   \* its rows
    effects,    \* the scripts that took effect, in order
    replica

migratorVars == <<image, meta, recorded, effects, replica>>

File == [version: 1..Versions, checksum: Checksums]
Absent == "-"
Images == UNION { [1..n -> Checksums] : n \in 0..Versions }
Nothing == [v \in 1..Versions |-> Absent]

\* `known`: what fetchApplied read; `at`: the file it is at.  `ran`: the script
\* ran in the transaction that is open; `row`: so did the INSERT.
Replica == [pc: {"ensure", "create", "fetch", "file", "execute", "record", "commit",
                 "serving", "refused"},
            known: [1..Versions -> Checksums \cup {Absent}], at: 1..(Versions + 1),
            ran: BOOLEAN, row: BOOLEAN]
Starting == [pc |-> "ensure", known |-> Nothing, at |-> 1, ran |-> FALSE, row |-> FALSE]

MigratorInit ==
    /\ image \in [Replicas -> Images]
    /\ meta = FALSE /\ recorded = Nothing /\ effects = <<>>
    /\ replica = [r \in Replicas |-> Starting]

ReplicaGoes(r, p) == replica' = [replica EXCEPT ![r].pc = p]

\* IF NOT EXISTS and CREATE TABLE: two replicas may both find none.
EnsureFind(r) ==
    /\ replica[r].pc = "ensure"
    /\ ReplicaGoes(r, IF meta THEN "fetch" ELSE "create")
    /\ UNCHANGED <<image, meta, recorded, effects>>

\* The second CREATE fails, and the replica with it.
EnsureCreate(r) ==
    /\ replica[r].pc = "create"
    /\ meta' = TRUE
    /\ replica' = [replica EXCEPT ![r] = IF meta THEN Starting ELSE [@ EXCEPT !.pc = "fetch"]]
    /\ UNCHANGED <<image, recorded, effects>>

FetchApplied(r) ==
    /\ replica[r].pc = "fetch"
    /\ replica' = [replica EXCEPT ![r].known = recorded, ![r].pc = "file"]
    /\ UNCHANGED <<image, meta, recorded, effects>>

\* Run, for each file in order: one that is known with another checksum ends it.
NextFile(r) ==
    /\ replica[r].pc = "file"
    /\ LET v == replica[r].at IN
       IF v > Len(image[r]) THEN ReplicaGoes(r, "serving")
       ELSE IF replica[r].known[v] = Absent THEN ReplicaGoes(r, "execute")
       ELSE IF replica[r].known[v] # image[r][v] THEN ReplicaGoes(r, "refused")
       ELSE replica' = [replica EXCEPT ![r].at = v + 1]
    /\ UNCHANGED <<image, meta, recorded, effects>>

Now(r) == [version |-> replica[r].at, checksum |-> image[r][replica[r].at]]

\* Variant: the script is run outside the transaction.
ExecuteAlone(r) ==
    /\ replica[r].pc = "execute"
    /\ effects' = Append(effects, Now(r))
    /\ ReplicaGoes(r, "record")
    /\ UNCHANGED <<image, meta, recorded>>

Execute(r) ==
    /\ replica[r].pc = "execute"
    /\ replica' = [replica EXCEPT ![r].pc = "record", ![r].ran = TRUE]
    /\ UNCHANGED <<image, meta, recorded, effects>>

\* It waits for another transaction that inserted the version, and fails when
\* that one committed: rollback, and the replica starts again.
Record(r) ==
    /\ replica[r].pc = "record"
    /\ ~ \E q \in Replicas \ {r} : replica[q].row /\ replica[q].at = replica[r].at
    /\ replica' = [replica EXCEPT ![r] =
           IF recorded[replica[r].at] # Absent THEN Starting
           ELSE [@ EXCEPT !.pc = "commit", !.row = TRUE]]
    /\ UNCHANGED <<image, meta, recorded, effects>>

MigrationCommit(r) ==
    /\ replica[r].pc = "commit"
    /\ recorded' = [recorded EXCEPT ![replica[r].at] = image[r][replica[r].at]]
    /\ effects' = IF replica[r].ran THEN Append(effects, Now(r)) ELSE effects
    /\ replica' = [replica EXCEPT ![r].pc = "file", ![r].at = @ + 1,
                                  ![r].ran = FALSE, ![r].row = FALSE]
    /\ UNCHANGED <<image, meta>>

\* A statement fails, or the pod dies: rollback; another one of any image.
Restart(r) ==
    /\ replica' = [replica EXCEPT ![r] = Starting]
    /\ \E files \in Images : image' = [image EXCEPT ![r] = files]
    /\ UNCHANGED <<meta, recorded, effects>>

MigratorNext == \E r \in Replicas :
    \/ EnsureFind(r) \/ EnsureCreate(r) \/ FetchApplied(r) \/ NextFile(r)
    \/ Execute(r) \/ Record(r) \/ MigrationCommit(r) \/ Restart(r)

MigratorSpec == MigratorInit /\ [][MigratorNext]_migratorVars
-----------------------------------------------------------------------------
MigratorTypeOK == /\ image \in [Replicas -> Images] /\ meta \in BOOLEAN
                  /\ recorded \in [1..Versions -> Checksums \cup {Absent}]
                  /\ effects \in Seq(File) /\ replica \in [Replicas -> Replica]

(* Each migration takes effect once, in order, and with the checksum that is *)
(* recorded, however many replicas start, die and start again with other    *)
(* files; and a replica serves only on a database that has had all of its   *)
(* files, as they are in its image.                                        *)
MigratedOnce ==
    /\ \A i \in 1..Len(effects) : effects[i].version = i
    /\ \A v \in 1..Versions :
         recorded[v] = IF v <= Len(effects) THEN effects[v].checksum ELSE Absent
    /\ \A r \in Replicas : replica[r].pc = "serving" =>
         \A v \in 1..Len(image[r]) : recorded[v] = image[r][v]
=============================================================================
