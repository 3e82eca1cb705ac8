--------------------------- MODULE SurveyService ---------------------------
(***************************************************************************)
(* satisfaction_service: the surveys an administrator edits, publishes,     *)
(* aims at keys and clones, the responses of students and their metrics.    *)
(*                                                                         *)
(* The shared state is the tables survey, survey_question, survey_key,      *)
(* survey_response and survey_answer.  A call runs one SQL statement (or,   *)
(* for a response, one transaction) per action, and may end after any of    *)
(* them.  Of trigger_kind the model keeps what the code tells apart: a type *)
(* of exam, "recurring", or another one.  Texts and options are left out.   *)
(***************************************************************************)
EXTENDS Integers, FiniteSets

CONSTANTS Surveys, Questions, Keys, Users, Attempts, Calls,
          Firsts,       \* the surveys that exist before
          NoOne,        \* none of the above
          MaxInFlight   \* bound of the model: calls at one time

ASSUME FirstsAssumption == Firsts \subseteq Surveys
ASSUME NoOneAssumption ==
    NoOne \notin Surveys \cup Questions \cup Keys \cup Users \cup Attempts

VARIABLES
    survey,    \* table survey
    owner,     \* the survey each question was inserted for
    live,      \* the questions that exist; of those, the required ones
    required,
    keyed,     \* table survey_key: a key has one survey at most
    call

vars == <<survey, owner, live, required, keyed, call>>

Triggers == {"exam", "other", "recurring"}

\* A clone takes its code and version from its original, for good.
Survey == [stored: BOOLEAN, of: Surveys \cup {NoOne}, trigger: Triggers,
           published: BOOLEAN, active: BOOLEAN]
NoSurvey == [stored |-> FALSE, of |-> NoOne, trigger |-> "other",
             published |-> FALSE, active |-> FALSE]

\* `before` is history: the calls that had ended when this one came in.
Call == [pc: {"idle", "assign", "write", "list", "target", "publish", "activate",
              "copies", "copy", "insert", "change", "delete", "listed", "exists",
              "answers", "questions", "done"},
         op: {"none", "create", "update", "publish", "switch", "clone", "add",
              "change", "remove", "serve", "submit", "metrics"},
         result: {"none", "ok", "refused", "failed"},
         survey: Surveys \cup {NoOne},
         aim: Questions \cup Keys \cup {NoOne, "-"},
         trigger: Triggers,
         user: Users \cup {NoOne}, attempt: Attempts \cup {NoOne},
         listed: SUBSET Questions, answers: SUBSET Questions,
         total: SUBSET Calls, counted: SUBSET (Calls \X Questions),
         before: SUBSET Calls]

NoCall == [pc |-> "idle", op |-> "none", result |-> "none", survey |-> NoOne,
           aim |-> NoOne, trigger |-> "other", user |-> NoOne,
           attempt |-> NoOne, listed |-> {}, answers |-> {}, total |-> {},
           counted |-> {}, before |-> {}]

Of(s) == { q \in live : owner[q] = s }          \* ListBySurvey
HasKeys(s) == \E k \in Keys : keyed[k] = s
Live(s) == survey[s].published /\ survey[s].active
Stored == { s \in Surveys : survey[s].stored }

\* Surveys with a required question each, drafts or published, for a key where
\* Publish asks for one.
Init ==
    /\ owner \in { o \in [Questions -> Firsts \cup {NoOne}] :
                     \A s \in Firsts : \E q \in Questions : o[q] = s }
    /\ live = { q \in Questions : owner[q] # NoOne }
    /\ required = live
    /\ survey \in { t \in [Surveys -> Survey] : \A s \in Surveys :
                      /\ t[s].stored = (s \in Firsts) /\ t[s].active = t[s].stored
                      /\ t[s].of = NoOne
                      /\ ~ t[s].stored => t[s] = NoSurvey }
    /\ keyed \in [Keys -> Firsts \cup {NoOne}]
    /\ \A s \in Firsts : HasKeys(s) = (survey[s].published /\ survey[s].trigger # "exam")
    /\ call = [c \in Calls |-> NoCall]

Idle(c) ==
    /\ call[c].pc = "idle"
    /\ Cardinality({ d \in Calls : call[d].pc \notin {"idle", "done"} }) < MaxInFlight

\* Of a call that ended, what the responses are and the properties speak of is
\* kept.
Kept(r, e) ==
    LET done == [NoCall EXCEPT !.pc = "done", !.op = r.op, !.result = e,
                               !.survey = r.survey, !.before = r.before] IN
    IF e = "ok" /\ r.op \in {"submit", "metrics"}
    THEN [r EXCEPT !.pc = "done", !.result = "ok"]
    ELSE IF r.op \in {"publish", "remove"} THEN done
    ELSE [NoCall EXCEPT !.pc = "done"]

Goes(c, p) == call' = [call EXCEPT ![c].pc = p]
Ends(c, e) == call' = [call EXCEPT ![c] = Kept(call[c], e)]
Ended == { c \in Calls : call[c].pc = "done" }

\* A call comes in and reads, as all but Deactivate begin by doing, its survey.
Begins(c, op, s, with, p) ==
    call' = [call EXCEPT ![c] = [with EXCEPT !.op = op, !.survey = s, !.pc = p,
                                             !.trigger = survey[s].trigger,
                                             !.before = Ended]]
Declines(c, op, s, with) ==
    call' = [call EXCEPT ![c] = Kept([with EXCEPT !.op = op, !.survey = s,
                                                  !.before = Ended], "refused")]

NewSurvey(s, t, of) ==
    survey' = [survey EXCEPT ![s] = [NoSurvey EXCEPT !.stored = TRUE, !.of = of,
                                       !.trigger = t, !.active = TRUE]]

\* A question that never was.
Unused == { q \in Questions : owner[q] = NoOne }
NewQuestion(q, s, must) ==
    /\ owner' = [owner EXCEPT ![q] = s]
    /\ live' = live \cup {q}
    /\ required' = IF must THEN required \cup {q} ELSE required

(***************************************************************************)
(* Surveys                                                                 *)
(***************************************************************************)

\* Save, and the key it is for.
Create(c) ==
    /\ Idle(c)
    /\ \E s \in Surveys \ Stored, t \in Triggers, k \in Keys \cup {NoOne} :
         /\ NewSurvey(s, t, NoOne)
         /\ LET r == [NoCall EXCEPT !.op = "create", !.aim = k, !.survey = s,
                                     !.pc = "assign", !.before = Ended]
            IN  call' = [call EXCEPT ![c] = IF k = NoOne THEN Kept(r, "ok") ELSE r]
    /\ UNCHANGED <<owner, live, required, keyed>>

\* Update of the content, refused once published, or of the key alone, or both;
\* "-" takes all keys away.  The row that was read is written back.
UpdateFind(c) ==
    /\ Idle(c)
    /\ \E s \in Stored, k \in Keys \cup {NoOne, "-"}, t \in Triggers \cup {""} :
         LET with == [NoCall EXCEPT !.aim = k] IN
         IF survey[s].published /\ t # "" THEN Declines(c, "update", s, with)
         ELSE call' = [call EXCEPT ![c] =
                [with EXCEPT !.op = "update", !.survey = s, !.pc = "write",
                             !.trigger = IF t = "" THEN survey[s].trigger ELSE t,
                             !.before = Ended]]
    /\ UNCHANGED <<survey, owner, live, required, keyed>>

UpdateWrite(c) ==
    /\ call[c].pc = "write"
    /\ survey' = [survey EXCEPT ![call[c].survey].trigger = call[c].trigger]
    /\ IF call[c].aim = NoOne THEN Ends(c, "ok") ELSE Goes(c, "assign")
    /\ UNCHANGED <<owner, live, required, keyed>>

\* AssignKeyToSurvey moves the key; UnassignKeysFromSurvey.
Assign(c) ==
    /\ call[c].pc = "assign"
    /\ keyed' = [k \in Keys |->
                   IF call[c].aim = k THEN call[c].survey
                   ELSE IF call[c].aim = "-" /\ keyed[k] = call[c].survey THEN NoOne
                   ELSE keyed[k]]
    /\ Ends(c, "ok")
    /\ UNCHANGED <<survey, owner, live, required>>

PublishFind(c) ==
    /\ Idle(c)
    /\ \E s \in Stored : Begins(c, "publish", s, NoCall, "list")
    /\ UNCHANGED <<survey, owner, live, required, keyed>>

\* Variant: a survey without questions is published too.
PublishListAny(c) ==
    /\ call[c].pc = "list"
    /\ Goes(c, IF call[c].trigger = "exam" THEN "publish" ELSE "target")
    /\ UNCHANGED <<survey, owner, live, required, keyed>>

PublishList(c) ==
    /\ call[c].pc = "list"
    /\ IF Of(call[c].survey) = {} THEN Ends(c, "refused")
       ELSE Goes(c, IF call[c].trigger = "exam" THEN "publish" ELSE "target")
    /\ UNCHANGED <<survey, owner, live, required, keyed>>

PublishTarget(c) ==
    /\ call[c].pc = "target"
    /\ IF HasKeys(call[c].survey) THEN Goes(c, "publish") ELSE Ends(c, "refused")
    /\ UNCHANGED <<survey, owner, live, required, keyed>>

SetPublished(c) ==
    /\ call[c].pc = "publish"
    /\ survey' = [survey EXCEPT ![call[c].survey].published = TRUE]
    /\ Goes(c, "activate")
    /\ UNCHANGED <<owner, live, required, keyed>>

SetActive(c) ==
    /\ call[c].pc = "activate"
    /\ survey' = [survey EXCEPT ![call[c].survey].active = TRUE]
    /\ Ends(c, "ok")
    /\ UNCHANGED <<owner, live, required, keyed>>

Deactivate(c) ==
    /\ Idle(c)
    /\ \E s \in Stored :
         /\ survey' = [survey EXCEPT ![s].active = FALSE]
         /\ call' = [call EXCEPT ![c] = Kept([NoCall EXCEPT !.op = "switch"], "ok")]
    /\ UNCHANGED <<owner, live, required, keyed>>

ReactivateFind(c) ==
    /\ Idle(c)
    /\ \E s \in Stored : Begins(c, "switch", s, NoCall, "activate")
    /\ UNCHANGED <<survey, owner, live, required, keyed>>

CloneFind(c) ==
    /\ Idle(c)
    /\ \E s \in Stored : Begins(c, "clone", s, NoCall, "copies")
    /\ UNCHANGED <<survey, owner, live, required, keyed>>

\* ListBySurvey and Save: a second clone of one survey has the code and the
\* version of the first, which uk_survey_code_version refuses.
CloneSave(c) ==
    /\ call[c].pc = "copies"
    /\ IF \E d \in Stored : survey[d].of = call[c].survey
       THEN Ends(c, "refused") /\ UNCHANGED survey
       ELSE \E s \in Surveys \ Stored :
              /\ NewSurvey(s, call[c].trigger, call[c].survey)
              /\ call' = [call EXCEPT ![c].survey = s,
                                      ![c].listed = Of(call[c].survey),
                                      ![c].pc = "copy"]
    /\ UNCHANGED <<owner, live, required, keyed>>

CloneCopy(c) ==
    /\ call[c].pc = "copy"
    /\ IF call[c].listed = {} THEN Ends(c, "ok") /\ UNCHANGED <<owner, live, required>>
       ELSE \E q \in call[c].listed, new \in Unused :
              /\ NewQuestion(new, call[c].survey, q \in required)
              /\ call' = [call EXCEPT ![c].listed = @ \ {q}]
    /\ UNCHANGED <<survey, keyed>>

(***************************************************************************)
(* Questions                                                               *)
(***************************************************************************)

AddFind(c) ==
    /\ Idle(c)
    /\ \E s \in Stored :
         IF survey[s].published THEN Declines(c, "add", s, NoCall)
         ELSE Begins(c, "add", s, NoCall, "insert")
    /\ UNCHANGED <<survey, owner, live, required, keyed>>

AddInsert(c) ==
    /\ call[c].pc = "insert" /\ call[c].op = "add"
    /\ \E q \in Unused, must \in BOOLEAN : NewQuestion(q, call[c].survey, must)
    /\ Ends(c, "ok")
    /\ UNCHANGED <<survey, keyed>>

\* The question and then its survey, which no one changes: a question keeps its
\* survey, and one that is gone meanwhile is not noticed before the write.
EditFind(c) ==
    /\ Idle(c)
    /\ \E q \in live, p \in {"change", "delete"} :
         LET op == IF p = "change" THEN "change" ELSE "remove"
             with == [NoCall EXCEPT !.aim = q] IN
         IF survey[owner[q]].published THEN Declines(c, op, owner[q], with)
         ELSE Begins(c, op, owner[q], with, p)
    /\ UNCHANGED <<survey, owner, live, required, keyed>>

Change(c) ==
    /\ call[c].pc = "change"
    /\ IF call[c].aim \notin live THEN Ends(c, "refused") /\ UNCHANGED required
       ELSE /\ \E must \in BOOLEAN :
                 required' = IF must THEN required \cup {call[c].aim}
                             ELSE required \ {call[c].aim}
            /\ Ends(c, "ok")
    /\ UNCHANGED <<survey, owner, live, keyed>>

Responses == { c \in Calls : call[c].op = "submit" /\ call[c].result = "ok" }
Answered(q) == \E c \in Responses : q \in call[c].answers

\* fk_survey_answer_question refuses to delete a question with answers.
Delete(c) ==
    /\ call[c].pc = "delete"
    /\ IF Answered(call[c].aim) THEN Ends(c, "failed") /\ UNCHANGED <<live, required>>
       ELSE /\ live' = live \ {call[c].aim} /\ required' = required \ {call[c].aim}
            /\ Ends(c, "ok")
    /\ UNCHANGED <<survey, owner, keyed>>

(***************************************************************************)
(* Students                                                                *)
(***************************************************************************)

\* FindActivePublished: the survey of the key, if it is live, or else a live one
\* of the type of exam that is for no key.
Served(k) ==
    LET own == { s \in Stored : k # NoOne /\ keyed[k] = s /\ Live(s) }
    IN  IF own # {} THEN own
        ELSE { s \in Stored : Live(s) /\ survey[s].trigger = "exam" /\ ~ HasKeys(s) }

GetActivePublished(c) ==
    /\ Idle(c)
    /\ \E k \in Keys \cup {NoOne} :
         \/ \E s \in Served(k) :
              Begins(c, "serve", s, [NoCall EXCEPT !.aim = k], "listed")
         \/ Served(k) = {} /\ Declines(c, "serve", NoOne, [NoCall EXCEPT !.aim = k])
    /\ UNCHANGED <<survey, owner, live, required, keyed>>

GetQuestions(c) ==
    /\ call[c].pc = "listed" /\ call[c].op = "serve"
    /\ Ends(c, "ok")
    /\ UNCHANGED <<survey, owner, live, required, keyed>>

\* The answers are to any questions the survey once had.
SubmitFind(c) ==
    /\ Idle(c)
    /\ \E s \in Stored, u \in Users \cup {NoOne}, a \in Attempts \cup {NoOne} :
       \E A \in SUBSET { q \in Questions : owner[q] = s } :
         LET with == [NoCall EXCEPT !.user = u, !.attempt = a, !.answers = A] IN
         IF Live(s) THEN Begins(c, "submit", s, with, "listed")
         ELSE Declines(c, "submit", s, with)
    /\ UNCHANGED <<survey, owner, live, required, keyed>>

\* Whether each answer is to a question of the survey, and each required one
\* has its answer. What an answer may say is left out.
SubmitList(c) ==
    /\ call[c].pc = "listed" /\ call[c].op = "submit"
    /\ LET asked == Of(call[c].survey) IN
       IF /\ call[c].answers \subseteq asked
          /\ asked \cap required \subseteq call[c].answers
       THEN Goes(c, IF call[c].trigger = "recurring" THEN "insert" ELSE "exists")
       ELSE Ends(c, "refused")
    /\ UNCHANGED <<survey, owner, live, required, keyed>>

\* d stands in the way of c: ExistsByUserAttempt, ExistsByUserSurvey and
\* ExistsBySurveyAttempt.
Blocks(d, c) ==
    /\ call[d].survey = call[c].survey
    /\ IF call[c].user # NoOne
       THEN /\ call[d].user = call[c].user
            /\ call[c].attempt \in {NoOne, call[d].attempt}
       ELSE call[c].attempt # NoOne /\ call[d].attempt = call[c].attempt

\* Variant: a response without a user is not looked for.
SubmitExistsNamed(c) ==
    /\ call[c].pc = "exists"
    /\ IF call[c].user # NoOne /\ \E d \in Responses : Blocks(d, c)
       THEN Ends(c, "refused") ELSE Goes(c, "insert")
    /\ UNCHANGED <<survey, owner, live, required, keyed>>

SubmitExists(c) ==
    /\ call[c].pc = "exists"
    /\ IF \E d \in Responses : Blocks(d, c) THEN Ends(c, "refused") ELSE Goes(c, "insert")
    /\ UNCHANGED <<survey, owner, live, required, keyed>>

\* One transaction; the foreign key refuses an answer to a question that is gone.
Submit(c) ==
    /\ call[c].pc = "insert" /\ call[c].op = "submit"
    /\ Ends(c, IF call[c].answers \subseteq live THEN "ok" ELSE "failed")
    /\ UNCHANGED <<survey, owner, live, required, keyed>>

(***************************************************************************)
(* Metrics: the responses are counted, then their answers read, and then    *)
(* the questions                                                           *)
(***************************************************************************)

MetricsTotal(c) ==
    /\ Idle(c)
    /\ \E s \in Stored :
         Begins(c, "metrics", s, [NoCall EXCEPT !.total =
                  { d \in Responses : call[d].survey = s }], "answers")
    /\ UNCHANGED <<survey, owner, live, required, keyed>>

MetricsAnswers(c) ==
    /\ call[c].pc = "answers"
    /\ call' = [call EXCEPT ![c].pc = "questions",
                  ![c].counted = { a \in Responses \X Questions :
                      call[a[1]].survey = call[c].survey /\ a[2] \in call[a[1]].answers }]
    /\ UNCHANGED <<survey, owner, live, required, keyed>>

\* Variant: the responses are counted last.
MetricsCountLast(c) ==
    /\ call[c].pc = "questions"
    /\ call' = [call EXCEPT ![c].pc = "done", ![c].result = "ok",
                  ![c].total = { d \in Responses : call[d].survey = call[c].survey },
                  ![c].counted = { a \in @ : a[2] \in Of(call[c].survey) }]
    /\ UNCHANGED <<survey, owner, live, required, keyed>>

\* computeMetrics looks at the answers of the questions it has.
MetricsQuestions(c) ==
    /\ call[c].pc = "questions"
    /\ call' = [call EXCEPT ![c].pc = "done", ![c].result = "ok",
                  ![c].counted = { a \in @ : a[2] \in Of(call[c].survey) }]
    /\ UNCHANGED <<survey, owner, live, required, keyed>>

\* A statement fails, or the pod dies.
Fails(c) ==
    /\ call[c].pc \notin {"idle", "done"}
    /\ Ends(c, "failed")
    /\ UNCHANGED <<survey, owner, live, required, keyed>>

-----------------------------------------------------------------------------
Next == \E c \in Calls :
    \/ Create(c) \/ UpdateFind(c) \/ UpdateWrite(c) \/ Assign(c)
    \/ PublishFind(c) \/ PublishList(c) \/ PublishTarget(c)
    \/ SetPublished(c) \/ SetActive(c) \/ Deactivate(c) \/ ReactivateFind(c)
    \/ CloneFind(c) \/ CloneSave(c) \/ CloneCopy(c)
    \/ AddFind(c) \/ AddInsert(c) \/ EditFind(c) \/ Change(c) \/ Delete(c)
    \/ GetActivePublished(c) \/ GetQuestions(c)
    \/ SubmitFind(c) \/ SubmitList(c) \/ SubmitExists(c) \/ Submit(c)
    \/ MetricsTotal(c) \/ MetricsAnswers(c) \/ MetricsQuestions(c)
    \/ Fails(c)

Spec == Init /\ [][Next]_vars
-----------------------------------------------------------------------------
TypeOK == /\ survey \in [Surveys -> Survey]
          /\ owner \in [Questions -> Surveys \cup {NoOne}]
          /\ live \subseteq Questions /\ required \subseteq live
          /\ keyed \in [Keys -> Surveys \cup {NoOne}]
          /\ call \in [Calls -> Call]

Overlap(c, d) == c \notin call[d].before /\ d \notin call[c].before

(* A student is never offered a survey without questions, however edits and  *)
(* publications follow each other: a published survey has one, unless the   *)
(* last was removed by a call that overlapped a Publish of the survey.      *)
PublishedAsks ==
    \A s \in Stored : survey[s].published /\ Of(s) = {} =>
        \E c, d \in Calls :
            /\ call[c].op = "remove" /\ call[d].op = "publish"
            /\ call[c].survey = s /\ call[d].survey = s /\ Overlap(c, d)

(* Sending a response again adds none to the figures: two responses that     *)
(* stand in each other's way are of calls that overlapped, or the survey    *)
(* was recurring when the later one read it.                               *)
ResubmissionsRefused ==
    \A c, d \in Responses : d \in call[c].before /\ Blocks(d, c) =>
                                call[c].trigger = "recurring"

(* Metrics are complete though their three reads are apart: every response   *)
(* they count has all its answers in the figures of their questions, though *)
(* others are stored meanwhile.                                            *)
MetricsComplete ==
    \A m \in Calls : call[m].op = "metrics" /\ call[m].result = "ok" =>
        \A d \in call[m].total : {d} \X call[d].answers \subseteq call[m].counted

(* What the comment of Submit says of a survey that is not recurring: one    *)
(* response of an attempt.  No run checks this, which TLC refutes: no index *)
(* stands behind the check.                                                *)
OneResponsePerAttempt ==
    \A c, d \in Responses : c # d /\ Blocks(d, c) =>
        "recurring" \in {call[c].trigger, call[d].trigger}

(* What the comment of Reactivate says: a paused survey comes back as a      *)
(* draft, and no student sees it before it is published again.  TLC refutes *)
(* this: `published` is left as it was.                                    *)
ReactivatedIsDraft ==
    [][\A s \in Stored : ~ Live(s) /\ Live(s)' =>
           \E c \in Calls : call[c].op = "publish" /\ call[c].survey = s]_vars
=============================================================================
