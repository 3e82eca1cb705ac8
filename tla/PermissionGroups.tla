-------------------------- MODULE PermissionGroups --------------------------
(***************************************************************************)
(* users_service: permission groups, what they grant, who is in them, and   *)
(* the check of every request (permmw with the local resolver, which asks   *)
(* the database each time).                                                *)
(*                                                                         *)
(* The shared state is the tables permission_group,                         *)
(* permission_group_permission and user_permission_group; all foreign keys  *)
(* cascade.  A call runs one statement, or one transaction, per action.     *)
(***************************************************************************)
EXTENDS OfficeCalls

CONSTANTS Members,      \* the users
          Supers,       \* of them, the superadmins
          Groups, Permissions

ASSUME MembersAssumption == Supers \subseteq Members

VARIABLES
    group,      \* of each group: not yet created, there, or deleted
    grants,     \* <<group, permission>>
    joined,     \* <<user, group>>
    permit      \* the calls

permissionVars == <<group, grants, joined, permit>>

\* `user`, `in`, `code`: what it is about.  `before` is history: the calls that
\* had ended when this one came in.
Permit == [pc: {"idle", "codes", "exists", "join", "permission", "grant", "members",
                "drop", "done"},
           op: {"none", "request", "assign", "revoke", "grant", "delete"},
           result: {"none", "ok", "refused", "failed"},
           user: Members \cup {NoOne}, in: Groups \cup {NoOne},
           code: Permissions \cup {NoOne}, before: SUBSET Calls]
NoPermit == [pc |-> "idle", op |-> "none", result |-> "none", user |-> NoOne,
             in |-> NoOne, code |-> NoOne, before |-> {}]

Stands(g) == group[g] = "there"                          \* GroupExists
CodesOf(u) == { p \in Permissions :                      \* FindCodesByUserID
    \E g \in Groups : <<u, g>> \in joined /\ <<g, p>> \in grants }

PermissionsInit ==
    /\ group \in [Groups -> {"new", "there"}]
    /\ grants \in SUBSET { a \in Groups \X Permissions : Stands(a[1]) }
    /\ joined \in SUBSET { a \in Members \X Groups : Stands(a[2]) }
    /\ permit = [c \in Calls |-> NoPermit]

\* Of a call that ended, what the properties speak of is kept.
Settled(r, e) ==
    IF e = "ok" /\ r.op \in {"assign", "revoke", "delete", "request"}
    THEN [r EXCEPT !.pc = "done", !.result = e]
    ELSE [NoPermit EXCEPT !.pc = "done"]

PermitEnds(c, e) == permit' = [permit EXCEPT ![c] = Settled(permit[c], e)]
PermitGoes(c, p) == permit' = [permit EXCEPT ![c].pc = p]
Asked(op, u, g, p, pc) == [pc |-> pc, op |-> op, result |-> "none", user |-> u,
                           in |-> g, code |-> p, before |-> EndedIn(permit)]
Asks(c, op, u, g, p, pc) == permit' = [permit EXCEPT ![c] = Asked(op, u, g, p, pc)]
AsksOnce(c, op, u, g, p) ==
    permit' = [permit EXCEPT ![c] = Settled(Asked(op, u, g, p, "done"), "ok")]

(***************************************************************************)
(* The check of a request                                                  *)
(***************************************************************************)

\* HasPermission reads the user, and then the codes unless it is a superadmin;
\* an error denies the request.
RequestFind(c) ==
    /\ Comes(c, permit)
    /\ \E u \in Members, p \in Permissions :
         IF u \in Supers THEN AsksOnce(c, "request", u, NoOne, p)
         ELSE Asks(c, "request", u, NoOne, p, "codes")
    /\ UNCHANGED <<group, grants, joined>>

\* Variant: the groups that were deleted or left count as well.
RequestCodesOfAll(c) ==
    /\ permit[c].pc = "codes"
    /\ PermitEnds(c, IF \E a \in grants : a[2] = permit[c].code THEN "ok" ELSE "refused")
    /\ UNCHANGED <<group, grants, joined>>

RequestCodes(c) ==
    /\ permit[c].pc = "codes"
    /\ PermitEnds(c, IF permit[c].code \in CodesOf(permit[c].user) THEN "ok" ELSE "refused")
    /\ UNCHANGED <<group, grants, joined>>

(***************************************************************************)
(* Members                                                                 *)
(***************************************************************************)

AssignFind(c) ==
    /\ Comes(c, permit)
    /\ \E u \in Members, g \in Groups : Asks(c, "assign", u, g, NoOne, "exists")
    /\ UNCHANGED <<group, grants, joined>>

AssignExists(c) ==
    /\ permit[c].pc = "exists" /\ permit[c].op = "assign"
    /\ IF Stands(permit[c].in) THEN PermitGoes(c, "join") ELSE PermitEnds(c, "refused")
    /\ UNCHANGED <<group, grants, joined>>

\* The foreign key refuses a group that was deleted since.
AssignGroupToUser(c) ==
    /\ permit[c].pc = "join"
    /\ LET a == <<permit[c].user, permit[c].in>> IN
       IF Stands(a[2]) THEN joined' = joined \cup {a} /\ PermitEnds(c, "ok")
       ELSE UNCHANGED joined /\ PermitEnds(c, "failed")
    /\ UNCHANGED <<group, grants>>

RevokeGroupFromUser(c) ==
    /\ Comes(c, permit)
    /\ \E u \in Members, g \in Groups :
         /\ joined' = joined \ {<<u, g>>}
         /\ AsksOnce(c, "revoke", u, g, NoOne)
    /\ UNCHANGED <<group, grants>>

(***************************************************************************)
(* Groups                                                                  *)
(***************************************************************************)

\* One transaction: the group and its permissions.
CreateGroup(c) ==
    /\ Comes(c, permit)
    /\ \E g \in Groups, P \in SUBSET Permissions :
         /\ group[g] = "new"
         /\ group' = [group EXCEPT ![g] = "there"]
         /\ grants' = grants \cup ({g} \X P)
         /\ AsksOnce(c, "grant", NoOne, g, NoOne)
    /\ UNCHANGED joined

\* Variant: a group with members is deleted too.
DeleteGroupCheckNothing(c) ==
    /\ Comes(c, permit)
    /\ \E g \in Groups : Asks(c, "delete", NoOne, g, NoOne, "drop")
    /\ UNCHANGED <<group, grants, joined>>

\* GroupHasUsers.
DeleteGroupCheck(c) ==
    /\ Comes(c, permit)
    /\ \E g \in Groups :
         IF \E u \in Members : <<u, g>> \in joined
         THEN permit' = [permit EXCEPT ![c].pc = "done"]
         ELSE Asks(c, "delete", NoOne, g, NoOne, "drop")
    /\ UNCHANGED <<group, grants, joined>>

\* One transaction; the members that came since go with the group, by cascade.
DeleteGroup(c) ==
    /\ permit[c].pc = "drop"
    /\ LET g == permit[c].in IN
       IF Stands(g)
       THEN /\ group' = [group EXCEPT ![g] = "deleted"]
            /\ grants' = { a \in grants : a[1] # g }
            /\ joined' = { a \in joined : a[2] # g }
            /\ PermitEnds(c, "ok")
       ELSE PermitEnds(c, "refused") /\ UNCHANGED <<group, grants, joined>>

AddPermissionFind(c) ==
    /\ Comes(c, permit)
    /\ \E g \in Groups, p \in Permissions : Asks(c, "grant", NoOne, g, p, "exists")
    /\ UNCHANGED <<group, grants, joined>>

AddPermissionExists(c) ==
    /\ permit[c].pc = "exists" /\ permit[c].op = "grant"
    /\ IF Stands(permit[c].in) THEN PermitGoes(c, "grant") ELSE PermitEnds(c, "refused")
    /\ UNCHANGED <<group, grants, joined>>

AddPermissionToGroup(c) ==
    /\ permit[c].pc = "grant"
    /\ IF Stands(permit[c].in)
       THEN grants' = grants \cup {<<permit[c].in, permit[c].code>>} /\ PermitEnds(c, "ok")
       ELSE UNCHANGED grants /\ PermitEnds(c, "failed")
    /\ UNCHANGED <<group, joined>>

RemovePermissionFromGroup(c) ==
    /\ Comes(c, permit)
    /\ \E g \in Groups, p \in Permissions :
         /\ grants' = grants \ {<<g, p>>}
         /\ AsksOnce(c, "grant", NoOne, g, p)
    /\ UNCHANGED <<group, joined>>

\* A statement fails, or the pod dies.
PermitFails(c) ==
    /\ permit[c].pc \notin {"idle", "done"}
    /\ PermitEnds(c, "failed")
    /\ UNCHANGED <<group, grants, joined>>

-----------------------------------------------------------------------------
PermissionsNext == \E c \in Calls :
    \/ RequestFind(c) \/ RequestCodes(c)
    \/ AssignFind(c) \/ AssignExists(c) \/ AssignGroupToUser(c)
    \/ RevokeGroupFromUser(c) \/ CreateGroup(c)
    \/ DeleteGroupCheck(c) \/ DeleteGroup(c)
    \/ AddPermissionFind(c) \/ AddPermissionExists(c) \/ AddPermissionToGroup(c)
    \/ RemovePermissionFromGroup(c) \/ PermitFails(c)

PermissionsSpec == PermissionsInit /\ [][PermissionsNext]_permissionVars
-----------------------------------------------------------------------------
PermissionsTypeOK == /\ group \in [Groups -> {"new", "there", "deleted"}]
                     /\ grants \subseteq Groups \X Permissions
                     /\ joined \subseteq Members \X Groups
                     /\ permit \in [Calls -> Permit]

Well(c, op) == permit[c].op = op /\ permit[c].result = "ok"
SamePair(c, d) == permit[c].user = permit[d].user /\ permit[c].in = permit[d].in

(* Who was put in a group stays in it: a membership that was acknowledged is *)
(* gone only after a revocation that had not ended before it, or a deletion *)
(* of the group that overlapped it.  A deletion that comes after finds the  *)
(* member, and refuses.                                                    *)
MembersSurvive ==
    \A c \in Calls :
        Well(c, "assign") /\ <<permit[c].user, permit[c].in>> \notin joined =>
            \E d \in Calls :
                \/ /\ Well(d, "revoke") /\ SamePair(c, d)
                   /\ d \notin permit[c].before
                \/ /\ Well(d, "delete") /\ permit[d].in = permit[c].in
                   /\ c \notin permit[d].before /\ d \notin permit[c].before

(* A revocation holds from the next request on: one that is let through is   *)
(* of a superadmin, or of a user whom no revocation of each group had left  *)
(* outside, with no later assignment, when the request came in.             *)
RevokedIsDenied ==
    \A r \in Calls : Well(r, "request") /\ permit[r].user \notin Supers =>
        \E g \in Groups : \A q \in permit[r].before :
            Well(q, "revoke") /\ permit[q].user = permit[r].user /\ permit[q].in = g =>
                \E a \in Calls : /\ Well(a, "assign") /\ SamePair(a, q)
                                 /\ a \notin permit[q].before

(* What the comment of DeleteGroup says: a group with users is not deleted.  *)
(* TLC refutes this: the check is outside the transaction, and the foreign  *)
(* key takes the users with it.                                            *)
DeletedWasEmpty ==
    [][\A g \in Groups : group[g] = "there" /\ group'[g] = "deleted" =>
           \A u \in Members : <<u, g>> \notin joined]_permissionVars
=============================================================================
