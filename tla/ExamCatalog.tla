----------------------------- MODULE ExamCatalog -----------------------------
(***************************************************************************)
(* exams_service: the exams an administrator edits, publishes and clones.  *)
(*                                                                         *)
(* The shared state is the tables exam and exam_question.  A request runs   *)
(* one SQL statement per action; any may fail, and what it wrote stays      *)
(* written.  What an exam says is left out, but for its code, which must be *)
(* unique, and its questions.  The order of the questions is left out.      *)
(***************************************************************************)
EXTENDS Integers, FiniteSets

CONSTANTS Exams, Questions, Reqs,
          Drafts,   \* exams created before, with any questions
          Stems,    \* what codes are made of, before their "-V{n}"
          NoOne     \* none of the above

ASSUME DraftsAssumption == Drafts \subseteq Exams
ASSUME NoOneAssumption == NoOne \notin Exams \cup Questions \cup Reqs \cup Stems
ASSUME StemsAssumption == Stems \cap Reqs = {} /\ Drafts \cap (Stems \cup Reqs) = {}

VARIABLES
    exam,    \* table exam
    link,    \* table exam_question: the questions of each exam
    req,     \* the requests
    racing   \* history: the requests in flight when each exam was published

catalogVars == <<exam, link, req, racing>>

\* A code is a stem and a version; a random suffix is the request that drew it.
Code == [stem: Stems \cup Reqs \cup Drafts \cup {NoOne}, n: Nat]
NoCode == [stem |-> NoOne, n |-> 0]

\* `root` is the ancestor that MaxVersionInFamily climbs to by parent_exam_id.
Exam == [stored: BOOLEAN, root: Exams \cup {NoOne}, version: Nat, code: Code,
         published: BOOLEAN, active: BOOLEAN]
NoExam == [stored |-> FALSE, root |-> NoOne, version |-> 0, code |-> NoCode,
           published |-> FALSE, active |-> FALSE]

\* `exam` is the one the request names, `to` the one it inserted; `before` is
\* history: the family of the exam when the request came in; `overtook` too: a
\* Publish of the exam that had listed its questions was under way at its DELETE.
Request == [pc: {"idle", "rename", "update", "list", "publish", "activate",
                 "version", "code", "save", "copy", "add", "remove", "done"},
            op: {"none", "create", "update", "publish", "switch", "clone",
                 "add", "remove"},
            exam: Exams \cup {NoOne}, to: Exams \cup {NoOne},
            question: Questions \cup {NoOne},
            version: Nat, code: Code, before: SUBSET Exams,
            overtook: BOOLEAN, result: {"none", "ok", "refused", "failed"}]

CatalogInit ==
    /\ exam = [e \in Exams |-> IF e \in Drafts
                               THEN [NoExam EXCEPT !.stored = TRUE, !.root = e,
                                       !.version = 1, !.active = TRUE,
                                       !.code = [stem |-> e, n |-> 1]]
                               ELSE NoExam]
    /\ link \in { l \in [Exams -> SUBSET Questions] :
                    \A e \in Exams \ Drafts : l[e] = {} }
    /\ req = [r \in Reqs |-> [pc |-> "idle", op |-> "none", exam |-> NoOne,
                              to |-> NoOne, question |-> NoOne, version |-> 0,
                              code |-> NoCode, before |-> {},
                              overtook |-> FALSE, result |-> "none"]]
    /\ racing = [e \in Exams |-> {}]

Stored == { e \in Exams : exam[e].stored }
Taken(c) == \E e \in Stored : exam[e].code = c
Family(e) == { d \in Stored : exam[d].root = exam[e].root }

Goes(r, p) == req' = [req EXCEPT ![r].pc = p]
Ends(r, result) == req' = [req EXCEPT ![r].pc = "done", ![r].result = result]

\* FindByID, with which every request on an exam begins.
Found(r, op, e, p) ==
    req' = [req EXCEPT ![r] = [@ EXCEPT !.op = op, !.exam = e, !.pc = p,
                                        !.code = exam[e].code,
                                        !.before = Family(e)]]

Refused(r, op, e) ==
    req' = [req EXCEPT ![r] = [@ EXCEPT !.op = op, !.exam = e, !.pc = "done",
                                        !.result = "refused"]]

InFlight(r) == req[r].pc \notin {"idle", "done"}

(***************************************************************************)
(* Creating and updating                                                   *)
(***************************************************************************)

\* Create with a code of its own, refused when taken, or a generated one, which
\* draws a suffix when taken.
CreateBegin(r) ==
    /\ req[r].pc = "idle"
    /\ \E s \in Stems, own \in BOOLEAN :
         LET base == [stem |-> s, n |-> 1]
             new(c) == req' = [req EXCEPT ![r] = [@ EXCEPT !.op = "create",
                                 !.pc = "save", !.version = 1, !.code = c]] IN
         \/ ~ Taken(base) /\ new(base)
         \/ Taken(base) /\ ~ own /\ new([stem |-> r, n |-> 1])
         \/ Taken(base) /\ own /\ req' = [req EXCEPT ![r].op = "create",
                                      ![r].pc = "done", ![r].result = "refused"]
    /\ UNCHANGED <<exam, link, racing>>

UpdateBegin(r) ==
    /\ req[r].pc = "idle"
    /\ \E e \in Stored :
         \/ exam[e].published /\ Refused(r, "update", e)
         \/ ~ exam[e].published /\ \E p \in {"rename", "update"} :
                                      Found(r, "update", e, p)
    /\ UNCHANGED <<exam, link, racing>>

\* ExistsByCode of the new code.
UpdateRename(r) ==
    /\ req[r].pc = "rename"
    /\ \E s \in Stems, n \in 1..2 :
         LET c == [stem |-> s, n |-> n] IN
         \/ Taken(c) /\ c # req[r].code /\ Ends(r, "refused")
         \/ ~ Taken(c) /\ req' = [req EXCEPT ![r].code = c, ![r].pc = "update"]
    /\ UNCHANGED <<exam, link, racing>>

\* The UPDATE writes back the code it read, when it was given none; the unique
\* index refuses one taken meanwhile.
UpdateWrite(r) ==
    /\ req[r].pc = "update"
    /\ LET e == req[r].exam
           others == { exam[d].code : d \in Stored \ {e} } IN
       \/ /\ req[r].code \notin others
          /\ exam' = [exam EXCEPT ![e].code = req[r].code]
          /\ Ends(r, "ok")
       \/ /\ req[r].code \in others
          /\ Ends(r, "failed")
          /\ UNCHANGED exam
    /\ UNCHANGED <<link, racing>>

\* Deactivate and Reactivate, whether the exam is published or not.
Switch(r) ==
    /\ req[r].pc = "idle"
    /\ \E e \in Stored, b \in BOOLEAN :
         /\ exam' = [exam EXCEPT ![e].active = b]
         /\ req' = [req EXCEPT ![r].op = "switch", ![r].exam = e,
                               ![r].pc = "done", ![r].result = "ok"]
    /\ UNCHANGED <<link, racing>>

(***************************************************************************)
(* Publishing                                                              *)
(***************************************************************************)

PublishBegin(r) ==
    /\ req[r].pc = "idle"
    /\ \E e \in Stored : Found(r, "publish", e, "list")
    /\ UNCHANGED <<exam, link, racing>>

\* Variant: the questions are not looked at.
PublishUnlisted(r) ==
    /\ req[r].pc = "list"
    /\ Goes(r, "publish")
    /\ UNCHANGED <<exam, link, racing>>

\* List: an exam without questions is refused.
PublishList(r) ==
    /\ req[r].pc = "list"
    /\ IF link[req[r].exam] = {} THEN Ends(r, "refused") ELSE Goes(r, "publish")
    /\ UNCHANGED <<exam, link, racing>>

SetPublished(r) ==
    /\ req[r].pc = "publish"
    /\ exam' = [exam EXCEPT ![req[r].exam].published = TRUE]
    /\ Goes(r, "activate")
    /\ racing' = [racing EXCEPT ![req[r].exam] =
                    IF exam[req[r].exam].published THEN @
                    ELSE { q \in Reqs : InFlight(q) }]
    /\ UNCHANGED link

SetActive(r) ==
    /\ req[r].pc = "activate"
    /\ exam' = [exam EXCEPT ![req[r].exam].active = TRUE]
    /\ Ends(r, "ok")
    /\ UNCHANGED <<link, racing>>

(***************************************************************************)
(* Cloning                                                                 *)
(***************************************************************************)

CloneBegin(r) ==
    /\ req[r].pc = "idle"
    /\ \E e \in Stored : Found(r, "clone", e, "version")
    /\ UNCHANGED <<exam, link, racing>>

\* Variant: the version that follows the one of the cloned exam.
CloneNext(r) ==
    /\ req[r].pc = "version"
    /\ req' = [req EXCEPT ![r].version = exam[req[r].exam].version + 1,
                          ![r].pc = "code"]
    /\ UNCHANGED <<exam, link, racing>>

\* MaxVersionInFamily
CloneVersion(r) ==
    /\ req[r].pc = "version"
    /\ \E d \in Family(req[r].exam) :
         /\ \A f \in Family(req[r].exam) : exam[f].version <= exam[d].version
         /\ req' = [req EXCEPT ![r].version = exam[d].version + 1,
                               ![r].pc = "code"]
    /\ UNCHANGED <<exam, link, racing>>

\* nextCloneCode: the stem of the cloned exam; if taken, the stem of the type;
\* if taken too, a random suffix.
CloneCode(r) ==
    /\ req[r].pc = "code"
    /\ \E s \in Stems :
         LET n == req[r].version
             own == [req[r].code EXCEPT !.n = n]
             base == [stem |-> s, n |-> n] IN
         req' = [req EXCEPT ![r].code = IF ~ Taken(own) THEN own
                                        ELSE IF ~ Taken(base) THEN base
                                        ELSE [stem |-> r, n |-> n],
                            ![r].pc = "save"]
    /\ UNCHANGED <<exam, link, racing>>

\* Save of Create and Clone: a draft, unless the unique index refuses the code.
SaveExam(r) ==
    /\ req[r].pc = "save"
    /\ \/ Taken(req[r].code) /\ Ends(r, "failed") /\ UNCHANGED exam
       \/ /\ ~ Taken(req[r].code)
          /\ \E e \in Exams \ Stored :
               LET clone == req[r].op = "clone" IN
               /\ exam' = [exam EXCEPT ![e] =
                             [stored |-> TRUE, version |-> req[r].version,
                              root |-> IF clone THEN exam[req[r].exam].root ELSE e,
                              code |-> req[r].code,
                              published |-> FALSE, active |-> TRUE]]
               /\ req' = [req EXCEPT ![r].to = e,
                            ![r].pc = IF clone THEN "copy" ELSE "done",
                            ![r].result = IF clone THEN @ ELSE "ok"]
    /\ UNCHANGED <<link, racing>>

\* CloneInto: one INSERT of every question, refused by the primary key when one
\* of them was added to the clone meanwhile.
CloneInto(r) ==
    /\ req[r].pc = "copy"
    /\ LET src == link[req[r].exam]
           dst == link[req[r].to] IN
       \/ src \cap dst # {} /\ Ends(r, "failed") /\ UNCHANGED link
       \/ /\ src \cap dst = {}
          /\ link' = [link EXCEPT ![req[r].to] = dst \cup src]
          /\ Ends(r, "ok")
    /\ UNCHANGED <<exam, racing>>

(***************************************************************************)
(* Questions                                                               *)
(***************************************************************************)

\* Variant: a published exam is edited like any other.
EditAny(r, op) ==
    /\ req[r].pc = "idle"
    /\ \E e \in Stored, q \in Questions :
         req' = [req EXCEPT ![r].op = op, ![r].exam = e, ![r].question = q,
                            ![r].pc = op]
    /\ UNCHANGED <<exam, link, racing>>

\* assertEditable, then Add or Remove.
EditBegin(r, op) ==
    /\ req[r].pc = "idle"
    /\ \E e \in Stored, q \in Questions :
         \/ exam[e].published /\ Refused(r, op, e)
         \/ /\ ~ exam[e].published
            /\ req' = [req EXCEPT ![r].op = op, ![r].exam = e, ![r].question = q,
                                  ![r].pc = op]
    /\ UNCHANGED <<exam, link, racing>>

\* SELECT and INSERT: a question already there is refused by one or the other.
AddQuestion(r) ==
    /\ req[r].pc = "add"
    /\ LET e == req[r].exam
           q == req[r].question IN
       \/ q \in link[e] /\ Ends(r, "refused") /\ UNCHANGED link
       \/ /\ q \notin link[e]
          /\ link' = [link EXCEPT ![e] = @ \cup {q}]
          /\ Ends(r, "ok")
    /\ UNCHANGED <<exam, racing>>

RemoveQuestion(r) ==
    /\ req[r].pc = "remove"
    /\ link' = [link EXCEPT ![req[r].exam] = @ \ {req[r].question}]
    /\ req' = [req EXCEPT ![r].pc = "done", ![r].result = "ok",
                          ![r].overtook = \E p \in Reqs :
                              req[p].pc = "publish" /\ req[p].exam = req[r].exam]
    /\ UNCHANGED <<exam, racing>>

\* A statement fails or the pod dies.
Fails(r) ==
    /\ InFlight(r)
    /\ Ends(r, "failed")
    /\ UNCHANGED <<exam, link, racing>>

-----------------------------------------------------------------------------

Step(r) == \/ UpdateRename(r) \/ UpdateWrite(r)
           \/ PublishList(r) \/ SetPublished(r) \/ SetActive(r)
           \/ CloneVersion(r) \/ CloneCode(r) \/ SaveExam(r) \/ CloneInto(r)
           \/ AddQuestion(r) \/ RemoveQuestion(r)

Begin(r) == \/ CreateBegin(r) \/ UpdateBegin(r) \/ Switch(r)
            \/ PublishBegin(r) \/ CloneBegin(r)
            \/ EditBegin(r, "add") \/ EditBegin(r, "remove")

CatalogNext == \E r \in Reqs : Begin(r) \/ Step(r) \/ Fails(r)

CatalogSpec == CatalogInit /\ [][CatalogNext]_catalogVars
-----------------------------------------------------------------------------
(***************************************************************************)
(* Properties                                                              *)
(***************************************************************************)

CatalogTypeOK == /\ exam \in [Exams -> Exam]
                 /\ \A e \in Exams : exam[e].stored <=> exam[e].root # NoOne
                 /\ link \in [Exams -> SUBSET Questions]
                 /\ req \in [Reqs -> Request]
                 /\ racing \in [Exams -> SUBSET Reqs]

(* An exam is published without questions only by a Remove that was in      *)
(* flight when Publish set it: neither a clone cut short before CloneInto,  *)
(* nor any sequence of requests that do not overlap, gets there.            *)
PublishedHasQuestions ==
    \A e \in Exams : exam[e].published /\ link[e] = {} =>
        \E r \in Reqs : /\ req[r].op = "remove" /\ req[r].exam = e
                        /\ r \in racing[e] \/ req[r].overtook

(* A published exam is immutable but for the requests that were in flight   *)
(* when it was published: its code and its questions are changed by no      *)
(* request that comes in later.                                            *)
PublishedIsFrozen ==
    [][\A e \in Exams :
         /\ exam[e].published
         /\ link'[e] # link[e] \/ exam'[e].code # exam[e].code
         => \E r \in racing[e] : req'[r] # req[r]]_catalogVars

(* Publish answers when the exam is both published and active, whatever     *)
(* came in between its two UPDATEs.                                        *)
PublishedIsLive ==
    [][\A r \in Reqs : /\ req[r].op = "publish"
                       /\ req[r].result = "none" /\ req'[r].result = "ok"
         => exam'[req[r].exam].published /\ exam'[req[r].exam].active]_catalogVars

(* The version of a clone is above that of every exam of the family that    *)
(* was there when the request came in, however many clones there are.       *)
VersionsGrow ==
    \A r \in Reqs : req[r].op = "clone" /\ req[r].to # NoOne =>
        \A e \in req[r].before : exam[e].version < exam[req[r].to].version

(* What Clone says: the version of a clone is unique in its family.         *)
VersionsUnique ==
    \A d, e \in Stored :
        exam[d].root = exam[e].root /\ exam[d].version = exam[e].version => d = e
=============================================================================
