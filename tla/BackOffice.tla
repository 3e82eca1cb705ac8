----------------------------- MODULE BackOffice -----------------------------
(***************************************************************************)
(* The back office of users_service: accounts, permission groups and        *)
(* assignments.  They are different tables, and no statement of one reads   *)
(* what the properties of another speak of: a behaviour has the calls of    *)
(* one of the three, and leaves the other two alone.                        *)
(***************************************************************************)
EXTENDS UserAccounts, PermissionGroups, Assignments

VARIABLE part

officeVars == <<part, accountVars, permissionVars, assignmentVars>>

\* What the part that is not looked at starts with is fixed, up to the names.
OfficeInit ==
    /\ part \in {"accounts", "permissions", "assignments"}
    /\ AccountsInit /\ (part # "accounts" => exists = FALSE)
    /\ PermissionsInit /\ (part # "permissions" => \A g \in Groups : group[g] = "new")
    /\ AssignmentsInit /\ (part # "assignments" => /\ \A s \in Schools : owner[s] = NoOne
                                                  /\ \A s \in Schools : active[s]
                                                  /\ \A i \in Olds : rows[i].kind = "asesor")

OfficeNext ==
    /\ UNCHANGED part
    /\ \/ /\ part = "accounts" /\ AccountsNext
          /\ UNCHANGED <<permissionVars, assignmentVars>>
       \/ /\ part = "permissions" /\ PermissionsNext
          /\ UNCHANGED <<accountVars, assignmentVars>>
       \/ /\ part = "assignments" /\ AssignmentsNext
          /\ UNCHANGED <<accountVars, permissionVars>>

OfficeSpec == OfficeInit /\ [][OfficeNext]_officeVars
=============================================================================
