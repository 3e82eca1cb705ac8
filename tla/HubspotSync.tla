----------------------------- MODULE HubspotSync -----------------------------
(***************************************************************************)
(* hubspot_service: the calls that keep the objects of HubSpot, answered    *)
(* while the caller waits: SendOTP, SyncStudentContact, SyncLead (contacts  *)
(* found by e-mail), UpsertContact (found by DNI), SyncKey (found by code). *)
(*                                                                         *)
(* HubSpot holds one object per e-mail or code and refuses a second one;    *)
(* its search is an index that lags behind.  Each call of a request is one  *)
(* action and may fail.  A write may be executed without an answer, and     *)
(* then again, when the engine repeats it or its caller has given up.       *)
(* A contact is named by the e-mail of its student, whose DNI is always the *)
(* same, and holds one code: the last one written.                         *)
(***************************************************************************)
EXTENDS Integers, FiniteSets

CONSTANTS Emails,
          Syncs,         \* the requests, each made once
          KindOf,        \* what each request asks for
          EmailOf        \* and for whom (a key's code is an e-mail here)

Kinds == {"otp", "signup", "student", "lead", "user", "key"}

ASSUME KindsAssumption == KindOf \in [Syncs -> Kinds] /\ EmailOf \in [Syncs -> Emails]

VARIABLES
    contact,   \* the contacts of HubSpot, and what its search sees of them
    linked,    \* the objects associated with a school's company or an adviser
    recorded,  \* the users whose hubspot_record_id users_service stored
    sync,
    late,      \* the writes whose caller gave up, and the engine has not
    beside     \* history: the SendOTP of one e-mail that were in flight at once

syncVars == <<contact, linked, recorded, sync, late, beside>>

Ptr(S) == { p \in SUBSET S : \A v, w \in p : v = w }

\* `code`: the request whose otp_estudiante it holds.
Contact == [there: BOOLEAN, dni: BOOLEAN, code: Ptr(Syncs),
            byEmail: BOOLEAN, byDni: BOOLEAN]

Sync == [pc: {"idle", "search", "update", "create", "research", "rewrite",
              "adviser", "company", "trigger", "callback", "done"},
         result: {"none", "ok", "failed"},
         faults: BOOLEAN,    \* a call failed
         missed: BOOLEAN]    \* the second search saw nothing

SyncInit ==
    /\ contact = [e \in Emails |-> [there |-> FALSE, dni |-> FALSE, code |-> {},
                                    byEmail |-> FALSE, byDni |-> FALSE]]
    /\ linked = {} /\ recorded = {} /\ late = {} /\ beside = {}
    /\ sync = [r \in Syncs |-> [pc |-> "idle", result |-> "none",
                                faults |-> FALSE, missed |-> FALSE]]

\* What the properties of a request hold.  SendOTP of a login has the code only.
HasDni(r) == KindOf[r] \notin {"otp", "key"}
ByDni(r) == KindOf[r] = "user"
ByEmail(r) == KindOf[r] \notin {"user", "key"}
HasSchool(r) == KindOf[r] \in {"signup", "student"}
HasCode(r) == KindOf[r] \in {"otp", "signup"}

\* A request that may still write: it runs, or left a write in the engine.
Active(r) == sync[r].pc \notin {"idle", "done"} \/ \E w \in late : w[1] = r
Rival(q, r) == q # r /\ EmailOf[q] = EmailOf[r] /\ HasCode(q) /\ HasCode(r)
SyncTo(r, p) == sync' = [sync EXCEPT ![r].pc = p]
SyncEnds(r, e) == sync' = [sync EXCEPT ![r].pc = "done", ![r].result = e]
Faulty(r, p, e) == sync' = [sync EXCEPT ![r].pc = p, ![r].result = e,
                                        ![r].faults = TRUE]

\* What follows the upsert: associations, the webhook, the callback.
AfterUpsert(r) == CASE KindOf[r] = "key" -> "adviser"
                    [] HasSchool(r) -> "company"
                    [] KindOf[r] = "otp" -> "trigger"
                    [] ByDni(r) -> "callback"
                    [] OTHER -> "done"
ResultAt(p) == IF p = "done" THEN "ok" ELSE "none"

Merged(r) == contact' = [contact EXCEPT ![EmailOf[r]].there = TRUE,
                                        ![EmailOf[r]].dni = @ \/ HasDni(r),
                                        ![EmailOf[r]].code = IF HasCode(r) THEN {r} ELSE @]

Upserted(r) ==
    /\ Merged(r)
    /\ sync' = [sync EXCEPT ![r].pc = AfterUpsert(r),
                            ![r].result = ResultAt(AfterUpsert(r))]
    /\ UNCHANGED <<linked, recorded, late, beside>>

\* HubSpot's index catches up with a contact.
Index(e) ==
    /\ contact[e].byEmail # contact[e].there \/ contact[e].byDni # contact[e].dni
    /\ contact' = [contact EXCEPT ![e].byEmail = contact[e].there,
                                  ![e].byDni = contact[e].dni]
    /\ UNCHANGED <<linked, recorded, sync, late, beside>>

SyncBegin(r) ==
    /\ sync[r].pc = "idle"
    /\ SyncTo(r, "search")
    /\ beside' = beside \cup { {q, r} : q \in { x \in Syncs : Active(x) /\ Rival(x, r) } }
    /\ UNCHANGED <<contact, linked, recorded, late>>

\* searchByProperty.
SyncSearch(r) ==
    /\ sync[r].pc = "search"
    /\ LET seen == contact[EmailOf[r]]
       IN  SyncTo(r, IF (IF ByDni(r) THEN seen.byDni ELSE seen.byEmail)
                     THEN "update" ELSE "create")
    /\ UNCHANGED <<contact, linked, recorded, late, beside>>

SyncUpdate(r) ==
    /\ sync[r].pc = "update"
    /\ Upserted(r)

SyncCreate(r) ==
    /\ sync[r].pc = "create" /\ ~contact[EmailOf[r]].there
    /\ Upserted(r)

\* Variant: a contact that exists already is an error like any other.
SyncConflictFails(r) ==
    /\ sync[r].pc = "create" /\ contact[EmailOf[r]].there
    /\ SyncEnds(r, "failed")
    /\ UNCHANGED <<contact, linked, recorded, late, beside>>

\* The object exists: the error names it (409, 400) or does not.  Only the
\* upsert by e-mail goes on.
SyncConflict(r) ==
    /\ sync[r].pc = "create" /\ contact[EmailOf[r]].there
    /\ IF ByEmail(r) THEN SyncTo(r, "rewrite") \/ SyncTo(r, "research")
       ELSE SyncEnds(r, "failed")
    /\ UNCHANGED <<contact, linked, recorded, late, beside>>

SyncResearch(r) ==
    /\ sync[r].pc = "research"
    /\ IF contact[EmailOf[r]].byEmail THEN SyncTo(r, "rewrite")
       ELSE sync' = [sync EXCEPT ![r].pc = "done", ![r].result = "failed",
                                 ![r].missed = TRUE]
    /\ UNCHANGED <<contact, linked, recorded, late, beside>>

\* The properties, without the e-mail, go to the contact that was found.
SyncRewrite(r) ==
    /\ sync[r].pc = "rewrite"
    /\ Upserted(r)

\* Best effort: an error of the search or of the association is logged.
SyncAssociate(r, to, next) ==
    /\ sync[r].pc = to
    /\ \/ /\ linked' = linked \cup {<<EmailOf[r], to>>}
          /\ sync' = [sync EXCEPT ![r].pc = next, ![r].result = ResultAt(next)]
       \/ /\ Faulty(r, next, ResultAt(next))
          /\ UNCHANGED linked
    /\ UNCHANGED <<contact, recorded, late, beside>>

SyncAdviser(r) == SyncAssociate(r, "adviser", "company")
SyncCompany(r) == SyncAssociate(r, "company", IF HasCode(r) THEN "trigger" ELSE "done")

\* HubSpot's automation accepts the code.
SyncTrigger(r) ==
    /\ sync[r].pc = "trigger"
    /\ SyncEnds(r, "ok")
    /\ UNCHANGED <<contact, linked, recorded, late, beside>>

\* SetUserHubspotRecordID, best effort.
SyncCallback(r) ==
    /\ sync[r].pc = "callback"
    /\ \/ recorded' = recorded \cup {EmailOf[r]} /\ SyncEnds(r, "ok")
       \/ Faulty(r, "done", "ok") /\ UNCHANGED recorded
    /\ UNCHANGED <<contact, linked, late, beside>>

\* Variant: a code is sent although the upsert failed.
SyncFailsOn(r) ==
    /\ sync[r].pc \in {"search", "update", "create", "research", "rewrite"}
    /\ Faulty(r, IF HasCode(r) THEN "trigger" ELSE "done",
                 IF HasCode(r) THEN "none" ELSE "failed")
    /\ UNCHANGED <<contact, linked, recorded, late, beside>>

\* A write of r, of an object that must not be there yet or of one that is.
Writes(r) == sync[r].pc \in {"update", "create", "rewrite"}
WriteOf(r) == IF sync[r].pc = "create" THEN "create" ELSE "update"
Executed(r, w) == (w = "create" => ~contact[EmailOf[r]].there) /\ Merged(r)

\* HubSpot executes a write, and its answer is lost: the engine sends it again,
\* or the call fails.
SyncUnanswered(r) ==
    /\ Writes(r) /\ Executed(r, WriteOf(r))
    /\ UNCHANGED <<linked, recorded, sync, late, beside>>

\* A call fails.  What a failed creation left behind is looked for, by the
\* upsert by e-mail.
SyncFails(r) ==
    /\ \/ sync[r].pc \in {"search", "research", "update", "rewrite", "trigger"}
          /\ Faulty(r, "done", "failed")
       \/ sync[r].pc = "create"
          /\ IF ByEmail(r) THEN Faulty(r, "research", "none")
             ELSE Faulty(r, "done", "failed")
    /\ UNCHANGED <<contact, linked, recorded, late, beside>>

\* The time of the caller is over while its write is in the engine.
SyncGivesUp(r) ==
    /\ Writes(r)
    /\ Faulty(r, "done", "failed")
    /\ late' = late \cup {<<r, WriteOf(r)>>}
    /\ UNCHANGED <<contact, linked, recorded, beside>>

\* The engine comes to such a write, once or again, or ends before.
SyncLate(r) ==
    /\ \E w \in late :
          /\ w[1] = r
          /\ Executed(r, w[2]) \/ UNCHANGED contact
          /\ late' \in {late, late \ {w}}
    /\ UNCHANGED <<linked, recorded, sync, beside>>

SyncStep(r) == \/ SyncSearch(r) \/ SyncUpdate(r) \/ SyncCreate(r)
               \/ SyncConflict(r) \/ SyncResearch(r) \/ SyncRewrite(r)
               \/ SyncAdviser(r) \/ SyncCompany(r) \/ SyncTrigger(r) \/ SyncCallback(r)
               \/ SyncUnanswered(r) \/ SyncFails(r) \/ SyncGivesUp(r) \/ SyncLate(r)
-----------------------------------------------------------------------------
SyncTypeOK == /\ contact \in [Emails -> Contact]
              /\ linked \subseteq Emails \X {"adviser", "company"}
              /\ recorded \subseteq Emails
              /\ sync \in [Syncs -> Sync]
              /\ late \subseteq Syncs \X {"create", "update"}
              /\ beside \subseteq SUBSET Syncs

(* When SendOTP asks for the mail, the contact the mail is built from holds  *)
(* its code, by whichever of the five ways the upsert took, or the code of  *)
(* another SendOTP of that e-mail that was in flight beside it, or had left *)
(* a write in the engine: never none, and never that of an earlier request. *)
(* And only contacts that exist are associated and recorded.               *)
MailedIsStored ==
    /\ \A r \in Syncs : sync[r].pc = "trigger" =>
          \E q \in contact[EmailOf[r]].code : q = r \/ {q, r} \in beside
    /\ \A e \in recorded \cup { l[1] : l \in linked } : contact[e].there

(* What the comment of SendOTP says: the mail is built from otp_estudiante,   *)
(* which the upsert set.  TLC refutes this: the upsert of another SendOTP of *)
(* the e-mail, or what is left of it, comes between the upsert and the mail. *)
MailedIsOwn ==
    \A r \in Syncs : sync[r].pc = "trigger" => contact[EmailOf[r]].code = {r}

(* Losing the race to create a contact is no failure: a request by e-mail    *)
(* fails only if a call failed, or if HubSpot neither named the contact nor  *)
(* had it in its index yet.                                                *)
EmailUpsertRecovers ==
    \A r \in Syncs : sync[r].result = "failed" /\ ByEmail(r) =>
                         sync[r].faults \/ sync[r].missed
=============================================================================
