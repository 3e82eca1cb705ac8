---------------------------- MODULE MCKeyService ----------------------------
(* Small instances of KeyService: the drafts and edits of each run.          *)
EXTENDS KeyService, TLC

Draft(code, mode, cap, from, to) ==
    [code |-> code, mode |-> mode, cap |-> cap, uses |-> 0, active |-> TRUE,
     from |-> from, to |-> to, landing |-> 0]

\* Usage: a school key of one seat or without limit, or that expires; later of
\* two seats, or deactivated.
UsageDrafts == { Draft(-1, "school", cap, {}, {}) : cap \in 0..1 }
               \cup { Draft(-1, "school", 1, {}, {0}) }
UsageEdits == { [NoEdit EXCEPT !.cap = {2}], [NoEdit EXCEPT !.active = {FALSE}] }

\* Campaigns: LAN keys named by the service or by hand, and one school key.
LanDrafts == { Draft(0, "lan", 0, {}, {}), Draft(1, "lan", 0, {}, {}) }
LanEdits == { [NoEdit EXCEPT !.active = {TRUE}],
              [NoEdit EXCEPT !.active = {FALSE}],
              [NoEdit EXCEPT !.landing = {1}] }

\* Windows: bounds over three instants, moved together or one at a time.
Bounds == { {} } \cup { {t} : t \in 0..2 }
WindowDrafts == { Draft(-1, "school", 0, {}, {}), Draft(-1, "school", 0, {1}, {2}),
                  Draft(-1, "school", 0, {2}, {1}) }
WindowEdits == { [NoEdit EXCEPT !.from = f, !.to = t] : f, t \in Bounds }

AdminDrafts == LanDrafts \cup WindowDrafts
AdminEdits == LanEdits \cup WindowEdits

AdminSymmetry == Permutations(KeyIds) \cup Permutations(Reqs)
=============================================================================
