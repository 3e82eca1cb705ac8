------------------------ MODULE SurveyServiceProofs ------------------------
(***************************************************************************)
(* SurveyService: for any surveys, questions, keys, students and calls, a   *)
(* survey that is served asks something, but for the overlap PublishedAsks  *)
(* names; a response sent again is refused; metrics are complete.           *)
(***************************************************************************)
EXTENDS SurveyService, TLAPS

(***************************************************************************)
(* The invariant                                                           *)
(***************************************************************************)

(* What `pc` and `op` say of each other, and what a call holds: those that   *)
(* were over before it, and questions that are of its survey for good.      *)
OfCall(c) ==
    /\ call[c].before \subseteq Ended
    /\ call[c].pc = "idle" => call[c] = NoCall
    /\ call[c].result # "none" => call[c].pc = "done"
    /\ call[c].pc \in {"list", "target", "publish"} =>
         call[c].op = "publish" /\ call[c].survey \in Surveys
    /\ call[c].pc = "delete" =>
         /\ call[c].op = "remove" /\ call[c].survey \in Surveys
         /\ call[c].aim \in Questions /\ owner[call[c].aim] = call[c].survey
    /\ call[c].pc = "exists" => call[c].op = "submit"
    /\ call[c].pc \in {"answers", "questions"} => call[c].op = "metrics"
    /\ call[c].pc \in {"copies", "copy"} => call[c].op = "clone"
    /\ call[c].op \in {"submit", "metrics"} =>
         call[c].pc \in {"listed", "exists", "insert", "answers", "questions", "done"}
    /\ call[c].op \in {"clone", "add"} => call[c].survey \in Surveys
    /\ call[c].op = "submit" =>
         \A q \in call[c].answers : owner[q] = call[c].survey /\ owner[q] # NoOne

(* The foreign key keeps what was answered.                                 *)
AnswersLive(c) == c \in Responses => call[c].answers \subseteq live

(* A response that is past its check was in nobody's way who had ended.     *)
Checked(c) ==
    /\ call[c].op = "submit"
    /\ (call[c].pc = "insert" \/ call[c].result = "ok")
    => \A d \in Responses : d \in call[c].before /\ Blocks(d, c) =>
                                call[c].trigger = "recurring"

(* Metrics count responses of the survey, whose answers they then have.     *)
Counted(c) ==
    call[c].op = "metrics" =>
        \A d \in call[c].total :
            /\ d \in Responses /\ call[d].survey = call[c].survey
            /\ call[c].pc = "questions" \/ call[c].result = "ok" =>
                 {d} \X call[d].answers \subseteq call[c].counted

(* Two calls that explain why survey `s` asks nothing.                      *)
Explains(c, d, s) ==
    /\ call[c].op = "remove" /\ call[c].survey = s
    /\ call[d].op = "publish" /\ call[d].survey = s
    /\ Overlap(c, d)

(* What Publish listed is still there, or was removed beside it.            *)
Lists(d) ==
    call[d].pc \in {"target", "publish"} /\ Of(call[d].survey) = {} =>
        \E c \in Calls : Explains(c, d, call[d].survey)

(* The survey a Remove found a draft was published beside it, if it is.     *)
Removes(c) ==
    call[c].pc = "delete" /\ survey[call[c].survey].published =>
        \E d \in Calls : Explains(c, d, call[c].survey)

Asks ==
    \A s \in Surveys : survey[s].published /\ Of(s) = {} =>
        \E c, d \in Calls : Explains(c, d, s)

Local(c) == /\ OfCall(c) /\ AnswersLive(c) /\ Checked(c) /\ Counted(c)
            /\ Lists(c) /\ Removes(c)

SurveyInv == /\ TypeOK
             /\ \A q \in live : owner[q] # NoOne
             /\ Asks
             /\ \A c \in Calls : Local(c)

(***************************************************************************)
(* Records                                                                 *)
(***************************************************************************)

LEMMA NoCallType == NoCall \in Call
BY DEF NoCall, Call, Triggers

(* What is kept of a call that ended: all of a response and of metrics, and *)
(* which survey a publication or a removal was about.                       *)
LEMMA KeptIs ==
    ASSUME NEW r \in Call, NEW e \in {"ok", "refused", "failed"}
    PROVE  /\ Kept(r, e) \in Call /\ Kept(r, e).pc = "done"
           /\ Kept(r, e).before \subseteq r.before
           /\ r.op \in {"publish", "remove"} =>
                /\ Kept(r, e).op = r.op /\ Kept(r, e).survey = r.survey
                /\ Kept(r, e).before = r.before
           /\ ~ (e = "ok" /\ r.op \in {"submit", "metrics"}) =>
                Kept(r, e).op \notin {"submit", "metrics", "clone", "add"}
<1>1. CASE e = "ok" /\ r.op \in {"submit", "metrics"}
  <2>1. Kept(r, e) = [r EXCEPT !.pc = "done", !.result = "ok"]
      BY <1>1 DEF Kept
  <2> QED
      BY <1>1, <2>1 DEF Call
<1>2. CASE ~ (e = "ok" /\ r.op \in {"submit", "metrics"}) /\ r.op \in {"publish", "remove"}
  <2>1. Kept(r, e) = [NoCall EXCEPT !.pc = "done", !.op = r.op, !.result = e,
                                    !.survey = r.survey, !.before = r.before]
      BY <1>2 DEF Kept
  <2>2. r.op \in {"publish", "remove"} /\ r.survey \in Surveys \cup {NoOne}
        /\ r.before \in SUBSET Calls
      BY <1>2 DEF Call
  <2>3. Kept(r, e) \in Call
    <3> DEFINE a == [NoCall EXCEPT !.pc = "done"]
               b == [a EXCEPT !.op = r.op]
               m == [b EXCEPT !.result = e]
    <3>1. a \in Call
        BY NoCallType DEF Call
    <3>2. Kept(r, e) = [m EXCEPT !.survey = r.survey, !.before = r.before]
        BY <2>1
    <3> HIDE DEF a
    <3>3. b \in Call
        BY <2>2, <3>1 DEF Call
    <3> HIDE DEF b
    <3>4. m \in Call
        BY <3>3 DEF Call
    <3> HIDE DEF m
    <3> QED
        BY <2>2, <3>2, <3>4 DEF Call
  <2>4. /\ Kept(r, e).pc = "done" /\ Kept(r, e).op = r.op
        /\ Kept(r, e).survey = r.survey /\ Kept(r, e).before = r.before
      BY <2>1, NoCallType DEF Call
  <2> QED
      BY <2>2, <2>3, <2>4
<1>3. CASE ~ (e = "ok" /\ r.op \in {"submit", "metrics"}) /\ r.op \notin {"publish", "remove"}
  <2>1. Kept(r, e) = [NoCall EXCEPT !.pc = "done"]
      BY <1>3 DEF Kept
  <2>2. NoCall.op = "none" /\ NoCall.before = {}
      BY DEF NoCall
  <2> QED
      BY <1>3, <2>1, <2>2, NoCallType DEF Call
<1> QED
    BY <1>1, <1>2, <1>3

(***************************************************************************)
(* Steps that take nothing from the tables                                 *)
(***************************************************************************)

(* What a step leaves true of the tables: a question keeps its survey, no    *)
(* question goes, no survey is published.                                   *)
Tables ==
    /\ survey' \in [Surveys -> Survey]
    /\ owner' \in [Questions -> Surveys \cup {NoOne}]
    /\ live' \subseteq Questions /\ required' \subseteq live'
    /\ keyed' \in [Keys -> Surveys \cup {NoOne}]
    /\ \A q \in Questions : owner[q] # NoOne => owner'[q] = owner[q]
    /\ live \subseteq live' /\ \A q \in live' : owner'[q] # NoOne
    /\ \A s \in Surveys : survey'[s].published => survey[s].published

(* A call that goes on to `r` keeps what others know of it.                 *)
Keeps(c, r) ==
    call[c].op \in {"publish", "remove"} =>
        r.op = call[c].op /\ r.survey = call[c].survey /\ r.before = call[c].before

(* What one call does leaves the others as they are: those that ended do    *)
(* not change, and what is known of the one that moves is kept.              *)
LEMMA CallsStay ==
    ASSUME SurveyInv, NEW c \in Calls, NEW r \in Call, call[c].pc # "done",
           call' = [call EXCEPT ![c] = r], Keeps(c, r)
    PROVE  /\ call' \in [Calls -> Call] /\ call'[c] = r
           /\ \A d \in Calls \ {c} : call'[d] = call[d]
           /\ Ended \subseteq Ended' /\ c \notin Responses
           /\ \A d \in Responses : d \in Responses' /\ call'[d] = call[d]
           /\ \A d \in Responses' \ {c} : d \in Responses
           /\ \A d, b \in Calls, s \in Surveys :
                Explains(d, b, s) => Explains(d, b, s)'
<1>1. call \in [Calls -> Call] /\ OfCall(c)
    BY DEF SurveyInv, TypeOK, Local
<1>2. call' \in [Calls -> Call] /\ call'[c] = r
      /\ \A d \in Calls \ {c} : call'[d] = call[d]
    BY <1>1
<1>3. c \notin Responses /\ c \notin Ended
    BY DEF SurveyInv, Local, OfCall, Responses, Ended
<1>4. \A d \in Calls : call[d].op \in {"publish", "remove"} =>
        /\ call'[d].op = call[d].op /\ call'[d].survey = call[d].survey
        /\ call'[d].before = call[d].before
    BY <1>2 DEF Keeps
<1>5. Ended \subseteq Ended'
    BY <1>2, <1>3 DEF Ended
<1>6. /\ \A d \in Responses : d \in Responses' /\ call'[d] = call[d]
      /\ \A d \in Responses' \ {c} : d \in Responses
    BY <1>2, <1>3 DEF Responses
<1>7. \A d, b \in Calls, s \in Surveys : Explains(d, b, s) => Explains(d, b, s)'
    BY <1>4 DEF Explains, Overlap
<1> QED
    BY <1>2, <1>3, <1>5, <1>6, <1>7

(* What a call holds does not depend on where the others are.               *)
LEMMA OthersHold ==
    ASSUME SurveyInv, NEW c \in Calls, NEW r \in Call, call[c].pc # "done",
           call' = [call EXCEPT ![c] = r], Keeps(c, r),
           \A q \in Questions : owner[q] # NoOne => owner'[q] = owner[q],
           \A b \in Responses : call[b].answers \subseteq live',
           NEW d \in Calls \ {c}
    PROVE  OfCall(d)' /\ AnswersLive(d)' /\ Checked(d)' /\ Counted(d)'
<1>1. Local(d) /\ call \in [Calls -> Call]
    BY DEF SurveyInv, TypeOK
<1>2. call'[d] = call[d] /\ Ended \subseteq Ended'
    BY CallsStay
<1>3. c \notin Responses /\ \A b \in Responses : b \in Responses' /\ call'[b] = call[b]
    BY CallsStay
<1>4. \A b \in Responses' \ {c} : b \in Responses
    BY CallsStay
<1>5. c \notin Ended
    BY DEF Ended
<1>6. OfCall(d)'
  <2>1. call[d] \in Call
      BY <1>1
  <2>2. call[d].pc = "delete" => owner'[call[d].aim] = call[d].survey
      BY <1>1, NoOneAssumption DEF Local, OfCall
  <2>3. call[d].op = "submit" =>
          \A q \in call[d].answers : owner'[q] = call[d].survey /\ owner'[q] # NoOne
      BY <1>1, <2>1 DEF Local, OfCall, Call
  <2> QED
      BY <1>1, <1>2, <2>2, <2>3 DEF Local, OfCall
<1>7. AnswersLive(d)'
    BY <1>2, <1>4 DEF AnswersLive
<1>8. Checked(d)'
  <2>1. \A b \in Responses' : b \in call[d].before => b \in Responses /\ call'[b] = call[b]
      BY <1>1, <1>3, <1>4, <1>5 DEF Local, OfCall
  <2>2. \A b \in Responses : Blocks(b, d)' <=> Blocks(b, d)
      BY <1>2, <1>3 DEF Blocks
  <2> QED
      BY <1>1, <1>2, <2>1, <2>2 DEF Local, Checked
<1>9. Counted(d)'
    BY <1>1, <1>2, <1>3 DEF Local, Counted
<1> QED
    BY <1>6, <1>7, <1>8, <1>9

(* A step of one call that takes nothing from the tables keeps the invariant *)
(* where it keeps it for that call.                                         *)
LEMMA StepInv ==
    ASSUME SurveyInv, NEW c \in Calls, NEW r \in Call, call[c].pc # "done",
           call' = [call EXCEPT ![c] = r], Keeps(c, r), Tables, Local(c)'
    PROVE  SurveyInv'
<1>1. TypeOK'
    BY CallsStay DEF Tables, TypeOK
<1>2. \A s \in Surveys : Of(s) \subseteq Of(s)'
    BY DEF SurveyInv, TypeOK, Tables, Of
<1>3. Asks'
  <2>1. ASSUME NEW s \in Surveys, survey'[s].published, Of(s)' = {}
        PROVE  \E d, b \in Calls : Explains(d, b, s)'
    <3>1. survey[s].published /\ Of(s) = {}
        BY <1>2, <2>1 DEF Tables
    <3>2. \E d, b \in Calls : Explains(d, b, s)
        BY <3>1 DEF SurveyInv, Asks
    <3>3. \A d, b \in Calls : Explains(d, b, s) => Explains(d, b, s)'
        BY CallsStay
    <3> QED
        BY <3>2, <3>3
  <2> QED
      BY <2>1 DEF Asks
<1>4. ASSUME NEW d \in Calls \ {c} PROVE Local(d)'
  <2>1. OfCall(d)' /\ AnswersLive(d)' /\ Checked(d)' /\ Counted(d)'
      BY OthersHold DEF SurveyInv, TypeOK, Tables, Local, AnswersLive, Responses
  <2>2. Local(d) /\ call'[d] = call[d]
      BY CallsStay DEF SurveyInv
  <2>3. Lists(d)'
      BY <1>2, <2>2, CallsStay DEF Local, Lists, OfCall
  <2>4. Removes(d)'
      BY <2>2, CallsStay DEF Local, Removes, OfCall, Tables
  <2> QED
      BY <2>1, <2>3, <2>4 DEF Local
<1> QED
    BY <1>1, <1>3, <1>4 DEF SurveyInv, Tables

(***************************************************************************)
(* Single steps                                                            *)
(***************************************************************************)

(* A call that is no response and no metrics, and at no step of Publish or   *)
(* Remove that something is known of, is free to go on.                      *)
LEMMA Plain ==
    ASSUME SurveyInv, NEW c \in Calls, NEW r \in Call, call[c].pc # "done",
           call' = [call EXCEPT ![c] = r], Keeps(c, r), Tables,
           r.before \subseteq Ended, r.result # "none" => r.pc = "done",
           r.pc \in {"assign", "write", "activate", "copies", "copy", "insert",
                     "change", "listed", "done"},
           r.op \notin {"submit", "metrics"},
           r.pc \in {"copies", "copy"} => r.op = "clone",
           r.op \in {"clone", "add"} => r.survey \in Surveys
    PROVE  SurveyInv'
<1>1. call'[c] = r /\ Ended \subseteq Ended'
    BY CallsStay
<1>2. OfCall(c)'
    BY <1>1 DEF OfCall
<1>3. AnswersLive(c)' /\ Checked(c)' /\ Counted(c)'
    BY <1>1 DEF AnswersLive, Checked, Counted, Responses
<1>4. Lists(c)' /\ Removes(c)'
    BY <1>1 DEF Lists, Removes
<1> QED
    BY <1>2, <1>3, <1>4, StepInv DEF Local

(* A call ends, and is neither a response that is stored nor metrics.        *)
LEMMA Ending ==
    ASSUME SurveyInv, NEW c \in Calls, NEW r \in Call, call[c].pc # "done",
           NEW e \in {"ok", "refused", "failed"},
           ~ (e = "ok" /\ r.op \in {"submit", "metrics"}),
           call' = [call EXCEPT ![c] = Kept(r, e)], Keeps(c, r), Tables,
           r.before \subseteq Ended
    PROVE  SurveyInv'
<1>1. Keeps(c, Kept(r, e))
    BY KeptIs DEF Keeps
<1> QED
    BY <1>1, KeptIs, Plain

LEMMA EndsInv ==
    ASSUME SurveyInv, NEW c \in Calls, call[c].pc # "done",
           NEW e \in {"ok", "refused", "failed"}, Ends(c, e),
           ~ (e = "ok" /\ call[c].op \in {"submit", "metrics"}), Tables
    PROVE  SurveyInv'
<1>1. call[c] \in Call /\ call[c].before \subseteq Ended
    BY DEF SurveyInv, TypeOK, Local, OfCall
<1> QED
    BY <1>1, Ending DEF Ends, Keeps

(* What a call is when it has come in.                                      *)
Operations == {"update", "publish", "switch", "clone", "add", "change", "remove",
               "serve", "submit", "metrics"}
Steps == {"list", "activate", "copies", "insert", "change", "delete", "listed",
          "answers"}
Begun(with, op, s, p) ==
    [with EXCEPT !.op = op, !.survey = s, !.pc = p,
                 !.trigger = survey[s].trigger, !.before = Ended]

LEMMA BegunIs ==
    ASSUME SurveyInv, NEW with \in Call, NEW s \in Surveys,
           NEW op \in Operations, NEW p \in Steps
    PROVE  /\ Begun(with, op, s, p) \in Call
           /\ Begun(with, op, s, p).op = op /\ Begun(with, op, s, p).survey = s
           /\ Begun(with, op, s, p).pc = p /\ Begun(with, op, s, p).before = Ended
           /\ Begun(with, op, s, p).result = with.result
           /\ Begun(with, op, s, p).aim = with.aim
           /\ Begun(with, op, s, p).answers = with.answers
           /\ Begun(with, op, s, p).total = with.total
<1> DEFINE a == [with EXCEPT !.op = op]
           b == [a EXCEPT !.pc = p]
           d == [b EXCEPT !.survey = s]
           f == [d EXCEPT !.trigger = survey[s].trigger]
<1>1. survey[s].trigger \in Triggers /\ Ended \in SUBSET Calls
    BY DEF SurveyInv, TypeOK, Survey, Ended
<1>2. a \in Call /\ a.op = op /\ a.result = with.result /\ a.aim = with.aim
      /\ a.answers = with.answers /\ a.total = with.total
    BY DEF Call, Operations
<1>3. Begun(with, op, s, p) = [f EXCEPT !.before = Ended]
    BY DEF Begun
<1> HIDE DEF a
<1>4. b \in Call /\ b.op = op /\ b.pc = p /\ b.result = with.result /\ b.aim = with.aim
      /\ b.answers = with.answers /\ b.total = with.total
    BY <1>2 DEF Call, Steps
<1> HIDE DEF b
<1>5. d \in Call /\ d.op = op /\ d.pc = p /\ d.result = with.result /\ d.aim = with.aim
      /\ d.answers = with.answers /\ d.total = with.total /\ d.survey = s
    BY <1>4 DEF Call
<1> HIDE DEF d
<1>6. f \in Call /\ f.op = op /\ f.pc = p /\ f.result = with.result /\ f.aim = with.aim
      /\ f.answers = with.answers /\ f.total = with.total /\ f.survey = s
    BY <1>1, <1>5 DEF Call
<1> HIDE DEF f
<1>7. [f EXCEPT !.before = Ended] \in Call
    BY <1>1, <1>6 DEF Call
<1> QED
    BY <1>3, <1>6, <1>7 DEF Call

(* A call that comes in is NoCall before, of which nothing is known.         *)
LEMMA IdleIs ==
    ASSUME SurveyInv, NEW c \in Calls, Idle(c)
    PROVE  /\ call[c] = NoCall /\ call[c].pc # "done"
           /\ \A r : Keeps(c, r)
<1>1. call[c] = NoCall
    BY DEF SurveyInv, Local, OfCall, Idle
<1>2. NoCall.pc = "idle" /\ NoCall.op = "none"
    BY DEF NoCall
<1> QED
    BY <1>1, <1>2 DEF Keeps

LEMMA DeclinesInv ==
    ASSUME SurveyInv, NEW c \in Calls, Idle(c), NEW with \in Call,
           NEW s \in Surveys \cup {NoOne},
           NEW op \in {"update", "add", "change", "remove", "serve", "submit"},
           Declines(c, op, s, with), Tables
    PROVE  SurveyInv'
<1> DEFINE a == [with EXCEPT !.op = op]
           d == [a EXCEPT !.survey = s]
           b == [d EXCEPT !.before = Ended]
<1>1. Ended \in SUBSET Calls
    BY DEF Ended
<1>2. a \in Call
    BY DEF Call
<1>3. call' = [call EXCEPT ![c] = Kept(b, "refused")]
    BY DEF Declines
<1> HIDE DEF a
<1>4. d \in Call
    BY <1>2 DEF Call
<1> HIDE DEF d
<1>5. b \in Call /\ b.before = Ended
    BY <1>1, <1>4 DEF Call
<1> HIDE DEF b
<1> QED
    BY <1>3, <1>5, IdleIs, Ending

(* A call that comes in and is not a response, metrics, or an edit.          *)
LEMMA BeginsInv ==
    ASSUME SurveyInv, NEW c \in Calls, Idle(c), NEW with \in Call,
           NEW s \in Surveys, with.result = "none",
           NEW op \in {"switch", "clone", "add", "change", "serve"},
           NEW p \in {"activate", "copies", "insert", "change", "listed"},
           p = "copies" => op = "clone",
           Begins(c, op, s, with, p), Tables
    PROVE  SurveyInv'
<1>1. call' = [call EXCEPT ![c] = Begun(with, op, s, p)]
    BY DEF Begins, Begun
<1> DEFINE r == Begun(with, op, s, p)
<1>2. op \in Operations /\ p \in Steps
    BY DEF Operations, Steps
<1>3. /\ r \in Call /\ call' = [call EXCEPT ![c] = r] /\ r.op = op /\ r.survey = s
      /\ r.pc = p /\ r.before \subseteq Ended /\ r.result = "none"
  <2>1. /\ Begun(with, op, s, p) \in Call
        /\ Begun(with, op, s, p).op = op /\ Begun(with, op, s, p).survey = s
        /\ Begun(with, op, s, p).pc = p /\ Begun(with, op, s, p).before = Ended
        /\ Begun(with, op, s, p).result = with.result
      BY <1>2, BegunIs
  <2> QED
      BY <1>1, <2>1
<1> HIDE DEF r
<1>4. call[c].pc # "done" /\ Keeps(c, r)
    BY IdleIs
<1> QED
    BY <1>3, <1>4, Plain

(* The tables, where a call leaves them, stores a survey or a question.      *)
LEMMA SameTables ==
    ASSUME SurveyInv, UNCHANGED <<survey, owner, live, required, keyed>>
    PROVE  Tables
BY DEF SurveyInv, TypeOK, Tables

LEMMA NewSurveyTables ==
    ASSUME SurveyInv, NEW s \in Surveys \ Stored, NEW t \in Triggers,
           NEW o \in Surveys \cup {NoOne}, NewSurvey(s, t, o),
           UNCHANGED <<owner, live, required, keyed>>
    PROVE  Tables
<1>1. [NoSurvey EXCEPT !.stored = TRUE, !.of = o, !.trigger = t, !.active = TRUE]
        \in Survey
    BY DEF NoSurvey, Survey, Triggers
<1>2. [NoSurvey EXCEPT !.stored = TRUE, !.of = o, !.trigger = t, !.active = TRUE
      ].published = FALSE
    BY DEF NoSurvey
<1> QED
    BY <1>1, <1>2 DEF SurveyInv, TypeOK, Tables, NewSurvey

LEMMA NewQuestionTables ==
    ASSUME SurveyInv, NEW q \in Unused, NEW s \in Surveys, NEW must,
           NewQuestion(q, s, must), UNCHANGED <<survey, keyed>>
    PROVE  Tables
BY NoOneAssumption DEF SurveyInv, TypeOK, Tables, NewQuestion, Unused

(***************************************************************************)
(* Surveys and questions                                                   *)
(***************************************************************************)

LEMMA CreateInv ==
    ASSUME SurveyInv, NEW c \in Calls, Create(c)
    PROVE  SurveyInv'
<1>1. PICK s \in Surveys \ Stored, t \in Triggers, k \in Keys \cup {NoOne} :
        /\ NewSurvey(s, t, NoOne)
        /\ LET r == [NoCall EXCEPT !.op = "create", !.aim = k, !.survey = s,
                                    !.pc = "assign", !.before = Ended]
           IN  call' = [call EXCEPT ![c] = IF k = NoOne THEN Kept(r, "ok") ELSE r]
    BY DEF Create
<1> DEFINE a == [NoCall EXCEPT !.op = "create", !.aim = k]
           r == [a EXCEPT !.survey = s, !.pc = "assign", !.before = Ended]
<1>2. call' = [call EXCEPT ![c] = IF k = NoOne THEN Kept(r, "ok") ELSE r]
    BY <1>1
<1>3. a \in Call /\ a.op = "create" /\ a.result = "none"
    BY NoCallType DEF Call, NoCall
<1>4. Ended \in SUBSET Calls
    BY DEF Ended
<1> HIDE DEF a
<1>5. r \in Call /\ r.op = "create" /\ r.pc = "assign" /\ r.result = "none"
      /\ r.before = Ended
    BY <1>3, <1>4 DEF Call
<1> HIDE DEF r
<1>6. Tables
    BY <1>1, NewSurveyTables DEF Create
<1>7. call[c].pc # "done" /\ Keeps(c, r)
    BY IdleIs DEF Create
<1>8. CASE k = NoOne
    BY <1>2, <1>5, <1>6, <1>7, <1>8, Ending
<1>9. CASE k # NoOne
    BY <1>2, <1>5, <1>6, <1>7, <1>9, Plain
<1> QED
    BY <1>8, <1>9

LEMMA UpdateFindInv ==
    ASSUME SurveyInv, NEW c \in Calls, UpdateFind(c)
    PROVE  SurveyInv'
<1>1. PICK s \in Stored, k \in Keys \cup {NoOne, "-"}, t \in Triggers \cup {""} :
        LET with == [NoCall EXCEPT !.aim = k] IN
        IF survey[s].published /\ t # "" THEN Declines(c, "update", s, with)
        ELSE call' = [call EXCEPT ![c] =
               [with EXCEPT !.op = "update", !.survey = s, !.pc = "write",
                            !.trigger = IF t = "" THEN survey[s].trigger ELSE t,
                            !.before = Ended]]
    BY DEF UpdateFind
<1> DEFINE w == [NoCall EXCEPT !.aim = k]
           u == IF t = "" THEN survey[s].trigger ELSE t
           v == [w EXCEPT !.op = "update"]
           a == [v EXCEPT !.pc = "write"]
           r == [a EXCEPT !.survey = s, !.trigger = u, !.before = Ended]
<1>2. Idle(c) /\ Tables
    BY SameTables DEF UpdateFind
<1>3. w \in Call /\ w.result = "none"
    BY NoCallType DEF Call, NoCall
<1>4. CASE survey[s].published /\ t # ""
  <2>1. Declines(c, "update", s, w)
      BY <1>1, <1>4
  <2> QED
      BY <1>2, <1>3, <2>1, DeclinesInv DEF Stored
<1>5. CASE ~ (survey[s].published /\ t # "")
  <2>1. call' = [call EXCEPT ![c] = r]
      BY <1>1, <1>5
  <2>2. u \in Triggers /\ Ended \in SUBSET Calls /\ s \in Surveys
      BY DEF SurveyInv, TypeOK, Survey, Ended, Stored
  <2> HIDE DEF w, u
  <2>3. v \in Call /\ v.op = "update" /\ v.result = "none"
    <3>1. v \in Call
        BY <1>3 DEF Call
    <3>2. v.op = "update" /\ v.result = w.result
        BY <1>3 DEF Call
    <3> QED
        BY <1>3, <3>1, <3>2
  <2> HIDE DEF v
  <2>4. a \in Call /\ a.op = "update" /\ a.pc = "write" /\ a.result = "none"
      BY <2>3 DEF Call
  <2> HIDE DEF a
  <2>5. r \in Call /\ r.op = "update" /\ r.pc = "write" /\ r.result = "none"
        /\ r.before = Ended
      BY <2>2, <2>4 DEF Call
  <2> HIDE DEF r
  <2>6. call[c].pc # "done" /\ Keeps(c, r)
      BY <1>2, IdleIs
  <2> QED
      BY <1>2, <2>1, <2>5, <2>6, Plain
<1> QED
    BY <1>4, <1>5

(* A call goes on, and is neither a response nor metrics.                    *)
LEMMA GoesInv ==
    ASSUME SurveyInv, NEW c \in Calls, NEW p \in {"assign", "copy", "activate"},
           call[c].pc \notin {"idle", "done"}, call[c].op \notin {"submit", "metrics"},
           p = "copy" => call[c].op = "clone", Goes(c, p), Tables
    PROVE  SurveyInv'
<1> DEFINE r == [call[c] EXCEPT !.pc = p]
<1>1. call[c] \in Call /\ OfCall(c)
    BY DEF SurveyInv, TypeOK, Local
<1>2. r \in Call /\ r.op = call[c].op /\ r.pc = p /\ r.result = call[c].result
      /\ r.survey = call[c].survey /\ r.before = call[c].before
    BY <1>1 DEF Call
<1>3. call' = [call EXCEPT ![c] = r]
    BY DEF Goes
<1> HIDE DEF r
<1>4. Keeps(c, r)
    BY <1>2 DEF Keeps
<1> QED
    BY <1>1, <1>2, <1>3, <1>4, Plain DEF OfCall

LEMMA UpdateWriteInv ==
    ASSUME SurveyInv, NEW c \in Calls, UpdateWrite(c)
    PROVE  SurveyInv'
<1>1. call[c] \in Call /\ OfCall(c)
    BY DEF SurveyInv, TypeOK, Local
<1>2. Tables
  <2>1. survey' = [survey EXCEPT ![call[c].survey].trigger = call[c].trigger]
        /\ call[c].trigger \in Triggers
      BY <1>1 DEF UpdateWrite, Call
  <2>2. survey' \in [Surveys -> Survey]
        /\ \A s \in Surveys : survey'[s].published = survey[s].published
      BY <2>1 DEF SurveyInv, TypeOK, Survey
  <2> QED
      BY <2>2 DEF UpdateWrite, SurveyInv, TypeOK, Tables
<1> QED
    BY <1>1, <1>2, EndsInv, GoesInv DEF UpdateWrite, OfCall

LEMMA AssignInv ==
    ASSUME SurveyInv, NEW c \in Calls, Assign(c)
    PROVE  SurveyInv'
<1>1. call[c] \in Call /\ OfCall(c)
    BY DEF SurveyInv, TypeOK, Local
<1>2. keyed' \in [Keys -> Surveys \cup {NoOne}]
    BY <1>1 DEF SurveyInv, TypeOK, Assign, Call
<1>3. Tables
    BY <1>2 DEF Assign, SurveyInv, TypeOK, Tables
<1> QED
    BY <1>1, <1>3, EndsInv DEF Assign, OfCall

LEMMA SetActiveInv ==
    ASSUME SurveyInv, NEW c \in Calls, SetActive(c)
    PROVE  SurveyInv'
<1>1. OfCall(c)
    BY DEF SurveyInv, Local
<1>2. survey' \in [Surveys -> Survey]
      /\ \A s \in Surveys : survey'[s].published = survey[s].published
    BY DEF SetActive, SurveyInv, TypeOK, Survey
<1>3. Tables
    BY <1>2 DEF SetActive, SurveyInv, TypeOK, Tables
<1> QED
    BY <1>1, <1>3, EndsInv DEF SetActive, OfCall

LEMMA DeactivateInv ==
    ASSUME SurveyInv, NEW c \in Calls, Deactivate(c)
    PROVE  SurveyInv'
<1>1. PICK s \in Stored : survey' = [survey EXCEPT ![s].active = FALSE]
    BY DEF Deactivate
<1>2. survey' \in [Surveys -> Survey]
      /\ \A x \in Surveys : survey'[x].published = survey[x].published
    BY <1>1 DEF SurveyInv, TypeOK, Survey
<1>3. Tables
    BY <1>2 DEF Deactivate, SurveyInv, TypeOK, Tables
<1> DEFINE r == [NoCall EXCEPT !.op = "switch"]
<1>4. r \in Call /\ r.op = "switch" /\ r.before = {}
    BY NoCallType DEF Call, NoCall
<1>5. call' = [call EXCEPT ![c] = Kept(r, "ok")]
    BY DEF Deactivate
<1> HIDE DEF r
<1>6. call[c].pc # "done" /\ Keeps(c, r)
    BY IdleIs DEF Deactivate
<1> QED
    BY <1>3, <1>4, <1>5, <1>6, Ending

(* The calls that come in to switch a survey, clone or add.                  *)
LEMMA ComesInv ==
    ASSUME SurveyInv, NEW c \in Calls,
           ReactivateFind(c) \/ CloneFind(c) \/ AddFind(c)
    PROVE  SurveyInv'
<1>1. Idle(c) /\ Tables /\ NoCall \in Call /\ NoCall.result = "none"
    BY SameTables, NoCallType DEF ReactivateFind, CloneFind, AddFind, NoCall
<1>2. CASE ReactivateFind(c)
  <2>1. PICK s \in Surveys : Begins(c, "switch", s, NoCall, "activate")
      BY <1>2 DEF ReactivateFind, Stored
  <2> QED
      BY <1>1, <2>1, BeginsInv
<1>3. CASE CloneFind(c)
  <2>1. PICK s \in Surveys : Begins(c, "clone", s, NoCall, "copies")
      BY <1>3 DEF CloneFind, Stored
  <2> QED
      BY <1>1, <2>1, BeginsInv
<1>4. CASE AddFind(c)
  <2>1. PICK s \in Surveys : \/ Declines(c, "add", s, NoCall)
                             \/ Begins(c, "add", s, NoCall, "insert")
      BY <1>4 DEF AddFind, Stored
  <2> QED
      BY <1>1, <2>1, BeginsInv, DeclinesInv
<1> QED
    BY <1>2, <1>3, <1>4

LEMMA CloneSaveInv ==
    ASSUME SurveyInv, NEW c \in Calls, CloneSave(c)
    PROVE  SurveyInv'
<1>1. call[c] \in Call /\ OfCall(c) /\ call[c].pc = "copies"
    BY DEF SurveyInv, TypeOK, Local, CloneSave
<1>2. CASE \E d \in Stored : survey[d].of = call[c].survey
    BY <1>1, <1>2, SameTables, EndsInv DEF CloneSave
<1>3. CASE ~ \E d \in Stored : survey[d].of = call[c].survey
  <2>1. PICK s \in Surveys \ Stored :
          /\ NewSurvey(s, call[c].trigger, call[c].survey)
          /\ call' = [call EXCEPT ![c].survey = s, ![c].listed = Of(call[c].survey),
                                  ![c].pc = "copy"]
      BY <1>3 DEF CloneSave
  <2>2. Tables
      BY <1>1, <2>1, NewSurveyTables DEF CloneSave, Call
  <2>3. Of(call[c].survey) \in SUBSET Questions
      BY DEF Of, SurveyInv, TypeOK
  <2> DEFINE a == [call[c] EXCEPT !.survey = s, !.pc = "copy"]
             r == [a EXCEPT !.listed = Of(call[c].survey)]
  <2>4. call' = [call EXCEPT ![c] = r]
      BY <2>1 DEF SurveyInv, TypeOK
  <2>5. a \in Call /\ a.op = "clone" /\ a.pc = "copy" /\ a.result = "none" /\ a.survey = s
        /\ a.before = call[c].before
      BY <1>1 DEF Call, OfCall
  <2> HIDE DEF a
  <2>6. r \in Call /\ r.op = "clone" /\ r.pc = "copy" /\ r.result = "none" /\ r.survey = s
        /\ r.before \subseteq Ended
      BY <1>1, <2>3, <2>5 DEF Call, OfCall
  <2> HIDE DEF r
  <2>7. Keeps(c, r)
      BY <1>1 DEF OfCall, Keeps
  <2> QED
      BY <1>1, <2>2, <2>4, <2>6, <2>7, Plain
<1> QED
    BY <1>2, <1>3

LEMMA CloneCopyInv ==
    ASSUME SurveyInv, NEW c \in Calls, CloneCopy(c)
    PROVE  SurveyInv'
<1>1. call[c] \in Call /\ OfCall(c) /\ call[c].pc = "copy" /\ call[c].op = "clone"
      /\ call[c].survey \in Surveys
    BY DEF SurveyInv, TypeOK, Local, CloneCopy, OfCall
<1>2. CASE call[c].listed = {}
    BY <1>1, <1>2, SameTables, EndsInv DEF CloneCopy
<1>3. CASE call[c].listed # {}
  <2>1. PICK q \in call[c].listed, new \in Unused :
          /\ NewQuestion(new, call[c].survey, q \in required)
          /\ call' = [call EXCEPT ![c].listed = @ \ {q}]
      BY <1>3 DEF CloneCopy
  <2>2. Tables
      BY <1>1, <2>1, NewQuestionTables DEF CloneCopy
  <2> DEFINE n == call[c].listed \ {q}
             r == [call[c] EXCEPT !.listed = n]
  <2>3. n \in SUBSET Questions
      BY <1>1 DEF Call
  <2>4. call' = [call EXCEPT ![c] = r]
      BY <2>1 DEF SurveyInv, TypeOK
  <2> HIDE DEF n
  <2>5. r \in Call /\ r.op = "clone" /\ r.pc = "copy" /\ r.result = call[c].result
        /\ r.survey = call[c].survey /\ r.before = call[c].before
      BY <1>1, <2>3 DEF Call
  <2> HIDE DEF r
  <2>6. Keeps(c, r)
      BY <1>1 DEF Keeps
  <2> QED
      BY <1>1, <2>2, <2>4, <2>5, <2>6, Plain DEF OfCall
<1> QED
    BY <1>2, <1>3

LEMMA AddInsertInv ==
    ASSUME SurveyInv, NEW c \in Calls, AddInsert(c)
    PROVE  SurveyInv'
<1>1. call[c] \in Call /\ OfCall(c) /\ call[c].op = "add" /\ call[c].survey \in Surveys
      /\ call[c].pc = "insert"
    BY DEF SurveyInv, TypeOK, Local, AddInsert, OfCall
<1>2. PICK q \in Unused, must \in BOOLEAN : NewQuestion(q, call[c].survey, must)
    BY DEF AddInsert
<1> QED
    BY <1>1, <1>2, NewQuestionTables, EndsInv DEF AddInsert

LEMMA ChangeInv ==
    ASSUME SurveyInv, NEW c \in Calls, Change(c)
    PROVE  SurveyInv'
<1>1. call[c].pc = "change" /\ OfCall(c)
    BY DEF SurveyInv, Local, Change
<1>2. required' \subseteq live
    BY DEF SurveyInv, TypeOK, Change
<1>3. Tables
    BY <1>2 DEF SurveyInv, TypeOK, Change, Tables
<1> QED
    BY <1>1, <1>3, EndsInv DEF Change, OfCall

(* A call ends unless it goes on: the tables, a question that is served, a   *)
(* statement that fails.                                                    *)
LEMMA FailsInv ==
    ASSUME SurveyInv, NEW c \in Calls, Fails(c) \/ GetQuestions(c)
    PROVE  SurveyInv'
BY SameTables, EndsInv DEF Fails, GetQuestions

LEMMA GetActivePublishedInv ==
    ASSUME SurveyInv, NEW c \in Calls, GetActivePublished(c)
    PROVE  SurveyInv'
<1>1. PICK k \in Keys \cup {NoOne} :
        \/ \E s \in Served(k) :
             Begins(c, "serve", s, [NoCall EXCEPT !.aim = k], "listed")
        \/ Declines(c, "serve", NoOne, [NoCall EXCEPT !.aim = k])
    BY DEF GetActivePublished
<1> DEFINE w == [NoCall EXCEPT !.aim = k]
<1>2. w \in Call /\ w.result = "none"
    BY NoCallType DEF Call, NoCall
<1>3. Idle(c) /\ Tables /\ Served(k) \subseteq Surveys
    BY SameTables DEF GetActivePublished, Served, Stored
<1> HIDE DEF w
<1>4. CASE \E s \in Served(k) : Begins(c, "serve", s, w, "listed")
    BY <1>2, <1>3, <1>4, BeginsInv
<1>5. CASE Declines(c, "serve", NoOne, w)
    BY <1>2, <1>3, <1>5, DeclinesInv
<1> QED
    BY <1>1, <1>4, <1>5 DEF w

(***************************************************************************)
(* Publish and Remove                                                      *)
(***************************************************************************)

LEMMA PublishFindInv ==
    ASSUME SurveyInv, NEW c \in Calls, PublishFind(c)
    PROVE  SurveyInv'
<1>1. PICK s \in Surveys : Begins(c, "publish", s, NoCall, "list")
    BY DEF PublishFind, Stored
<1> DEFINE r == Begun(NoCall, "publish", s, "list")
<1>2. NoCall.result = "none" /\ "publish" \in Operations /\ "list" \in Steps
    BY DEF NoCall, Operations, Steps
<1>3. r \in Call /\ r.op = "publish" /\ r.survey = s /\ r.pc = "list"
      /\ r.before = Ended /\ r.result = "none"
    BY <1>2, NoCallType, BegunIs
<1>4. call' = [call EXCEPT ![c] = r]
    BY <1>1 DEF Begins, Begun
<1> HIDE DEF r
<1>5. call[c].pc # "done" /\ Keeps(c, r) /\ Tables
    BY IdleIs, SameTables DEF PublishFind
<1>6. call'[c] = r /\ Ended \subseteq Ended'
    BY <1>3, <1>4, <1>5, CallsStay
<1>7. OfCall(c)'
    BY <1>3, <1>6 DEF OfCall
<1>8. AnswersLive(c)' /\ Checked(c)' /\ Counted(c)' /\ Lists(c)' /\ Removes(c)'
    BY <1>3, <1>6 DEF AnswersLive, Checked, Counted, Responses, Lists, Removes
<1> QED
    BY <1>3, <1>4, <1>5, <1>7, <1>8, StepInv DEF Local

(* Publish goes on where the survey asks something, or is excused for it.    *)
LEMMA PublishGoesInv ==
    ASSUME SurveyInv, NEW c \in Calls, NEW p \in {"target", "publish"},
           call[c].pc \in {"list", "target"}, Goes(c, p),
           UNCHANGED <<survey, owner, live, required, keyed>>,
           call[c].pc = "list" => Of(call[c].survey) # {}
    PROVE  SurveyInv'
<1> DEFINE r == [call[c] EXCEPT !.pc = p]
<1>1. call[c] \in Call /\ OfCall(c) /\ Lists(c) /\ Tables
    BY SameTables DEF SurveyInv, TypeOK, Local
<1>2. r \in Call /\ r.op = "publish" /\ r.pc = p /\ r.result = "none"
      /\ r.survey = call[c].survey /\ r.before = call[c].before
    BY <1>1 DEF Call, OfCall
<1>3. call' = [call EXCEPT ![c] = r]
    BY DEF Goes
<1> HIDE DEF r
<1>4. Keeps(c, r)
    BY <1>1, <1>2 DEF Keeps, OfCall
<1>5. call'[c] = r /\ Ended \subseteq Ended'
      /\ \A d, b \in Calls, s \in Surveys : Explains(d, b, s) => Explains(d, b, s)'
    BY <1>2, <1>3, <1>4, CallsStay
<1>6. OfCall(c)'
    BY <1>1, <1>2, <1>5 DEF OfCall
<1>7. AnswersLive(c)' /\ Checked(c)' /\ Counted(c)' /\ Removes(c)'
    BY <1>2, <1>5 DEF AnswersLive, Checked, Counted, Responses, Removes
<1>8. Lists(c)'
  <2>1. PICK s \in Surveys : s = call[c].survey
      BY <1>1 DEF OfCall
  <2>2. SUFFICES ASSUME Of(s) = {}
                 PROVE  \E d \in Calls : Explains(d, c, s)'
      BY <1>2, <1>5, <2>1 DEF Lists, Of
  <2>3. \E d \in Calls : Explains(d, c, s)
      BY <1>1, <2>1, <2>2 DEF Lists
  <2> QED
      BY <1>5, <2>3
<1> QED
    BY <1>1, <1>2, <1>3, <1>4, <1>6, <1>7, <1>8, StepInv DEF Local

LEMMA PublishInv ==
    ASSUME SurveyInv, NEW c \in Calls, PublishList(c) \/ PublishTarget(c)
    PROVE  SurveyInv'
<1>1. call[c].pc \in {"list", "target"} /\ OfCall(c) /\ Tables
    BY SameTables DEF SurveyInv, Local, PublishList, PublishTarget
<1>2. CASE Ends(c, "refused")
    BY <1>1, <1>2, EndsInv
<1>3. CASE ~ Ends(c, "refused")
  <2>1. PICK p \in {"target", "publish"} : Goes(c, p)
      BY <1>3 DEF PublishList, PublishTarget
  <2>2. call[c].pc = "list" => Of(call[c].survey) # {}
      BY <1>3 DEF PublishList, PublishTarget
  <2> QED
      BY <1>1, <2>1, <2>2, PublishGoesInv DEF PublishList, PublishTarget
<1> QED
    BY <1>2, <1>3

(* From here the survey is published: what Publish listed excuses it, and it *)
(* excuses those that remove beside it.                                     *)
LEMMA SetPublishedInv ==
    ASSUME SurveyInv, NEW c \in Calls, SetPublished(c)
    PROVE  SurveyInv'
<1> DEFINE r == [call[c] EXCEPT !.pc = "activate"]
           s == call[c].survey
<1>1. call[c] \in Call /\ OfCall(c) /\ Lists(c) /\ call[c].pc = "publish"
      /\ call[c].op = "publish" /\ s \in Surveys
    BY DEF SurveyInv, TypeOK, Local, SetPublished, OfCall
<1>2. r \in Call /\ r.op = "publish" /\ r.pc = "activate" /\ r.result = "none"
      /\ r.survey = s /\ r.before = call[c].before
    BY <1>1 DEF Call, OfCall
<1>3. call' = [call EXCEPT ![c] = r]
    BY DEF Goes, SetPublished
<1> HIDE DEF r
<1>4. Keeps(c, r)
    BY <1>1, <1>2 DEF Keeps
<1>5. /\ call' \in [Calls -> Call] /\ call'[c] = r
      /\ \A d \in Calls \ {c} : call'[d] = call[d]
      /\ Ended \subseteq Ended'
      /\ \A d, b \in Calls, t \in Surveys : Explains(d, b, t) => Explains(d, b, t)'
    BY <1>1, <1>2, <1>3, <1>4, CallsStay
<1>6. survey' \in [Surveys -> Survey]
      /\ \A t \in Surveys : survey'[t].published => survey[t].published \/ t = s
    BY DEF SetPublished, SurveyInv, TypeOK, Survey
<1>7. UNCHANGED <<owner, live, required, keyed>> /\ \A t \in Surveys : Of(t)' = Of(t)
    BY DEF SetPublished, Of
<1>8. TypeOK' /\ \A q \in live' : owner'[q] # NoOne
    BY <1>5, <1>6, <1>7 DEF SurveyInv, TypeOK
<1>9. Asks'
  <2>1. ASSUME NEW t \in Surveys, survey'[t].published, Of(t)' = {}
        PROVE  \E d, b \in Calls : Explains(d, b, t)'
    <3>1. CASE survey[t].published
        BY <1>5, <1>7, <2>1, <3>1 DEF SurveyInv, Asks
    <3>2. CASE t = s
      <4>1. \E d \in Calls : Explains(d, c, s)
          BY <1>1, <1>7, <2>1, <3>2 DEF Lists
      <4> QED
          BY <1>1, <1>5, <3>2, <4>1
    <3> QED
        BY <1>6, <2>1, <3>1, <3>2
  <2> QED
      BY <2>1 DEF Asks
<1>10. ASSUME NEW d \in Calls PROVE Local(d)'
  <2>1. CASE d = c
    <3>1. OfCall(c)'
        BY <1>1, <1>2, <1>5 DEF OfCall
    <3>2. AnswersLive(c)' /\ Checked(c)' /\ Counted(c)' /\ Lists(c)' /\ Removes(c)'
        BY <1>2, <1>5 DEF AnswersLive, Checked, Counted, Responses, Lists, Removes
    <3> QED
        BY <2>1, <3>1, <3>2 DEF Local
  <2>2. CASE d # c
    <3>1. OfCall(d)' /\ AnswersLive(d)' /\ Checked(d)' /\ Counted(d)'
        BY <1>1, <1>2, <1>3, <1>4, <1>7, <2>2, OthersHold
           DEF SurveyInv, Local, AnswersLive, Responses
    <3>2. Local(d) /\ call'[d] = call[d] /\ OfCall(d)
        BY <1>5, <2>2 DEF SurveyInv, Local
    <3>3. Lists(d)'
        BY <1>5, <1>7, <3>2 DEF Local, Lists, OfCall
    <3>4. Removes(d)'
      <4>1. SUFFICES ASSUME call[d].pc = "delete", survey'[call[d].survey].published
                     PROVE  \E b \in Calls : Explains(d, b, call[d].survey)'
          BY <3>2 DEF Removes
      <4>2. call[d].survey \in Surveys /\ call[d].op = "remove"
          BY <3>2, <4>1 DEF OfCall
      <4>3. CASE survey[call[d].survey].published
          BY <1>5, <3>2, <4>1, <4>2, <4>3 DEF Local, Removes
      <4>4. CASE call[d].survey = s
        <5>1. c \notin call[d].before /\ d \notin call[c].before
            BY <1>1, <3>2, <4>1 DEF OfCall, Ended
        <5>2. Explains(d, c, s)
            BY <1>1, <4>2, <4>4, <5>1 DEF Explains, Overlap
        <5>3. PICK t \in Surveys : t = s /\ t = call'[d].survey
            BY <1>1, <3>2, <4>4
        <5>4. Explains(d, c, t)'
            BY <1>5, <5>2, <5>3
        <5> QED
            BY <5>3, <5>4
      <4> QED
          BY <1>6, <4>1, <4>2, <4>3, <4>4
    <3> QED
        BY <3>1, <3>3, <3>4 DEF Local
  <2> QED
      BY <2>1, <2>2
<1> QED
    BY <1>8, <1>9, <1>10 DEF SurveyInv

(* Remove comes in while its survey is a draft.                              *)
LEMMA EditFindInv ==
    ASSUME SurveyInv, NEW c \in Calls, EditFind(c)
    PROVE  SurveyInv'
<1>1. PICK q \in live, p \in {"change", "delete"} :
        LET op == IF p = "change" THEN "change" ELSE "remove"
            with == [NoCall EXCEPT !.aim = q] IN
        IF survey[owner[q]].published THEN Declines(c, op, owner[q], with)
        ELSE Begins(c, op, owner[q], with, p)
    BY DEF EditFind
<1> DEFINE w == [NoCall EXCEPT !.aim = q]
           op == IF p = "change" THEN "change" ELSE "remove"
<1>2. q \in Questions /\ owner[q] \in Surveys /\ Idle(c) /\ Tables
    BY SameTables DEF SurveyInv, TypeOK, EditFind
<1>3. w \in Call /\ w.result = "none" /\ w.aim = q
    BY <1>2, NoCallType DEF Call, NoCall
<1> HIDE DEF w
<1>4. CASE survey[owner[q]].published
  <2>1. Declines(c, op, owner[q], w)
      BY <1>1, <1>4 DEF w
  <2> QED
      BY <1>2, <1>3, <2>1, DeclinesInv
<1>5. CASE ~ survey[owner[q]].published /\ p = "change"
  <2>1. Begins(c, "change", owner[q], w, "change")
      BY <1>1, <1>5 DEF w
  <2> QED
      BY <1>2, <1>3, <2>1, BeginsInv
<1>6. CASE ~ survey[owner[q]].published /\ p = "delete"
  <2> DEFINE r == Begun(w, "remove", owner[q], "delete")
  <2>1. "remove" \in Operations /\ "delete" \in Steps
      BY DEF Operations, Steps
  <2>2. r \in Call /\ r.op = "remove" /\ r.survey = owner[q] /\ r.pc = "delete"
        /\ r.before = Ended /\ r.result = "none" /\ r.aim = q
      BY <1>2, <1>3, <2>1, BegunIs
  <2>3. call' = [call EXCEPT ![c] = r]
      BY <1>1, <1>6 DEF Begins, Begun, w
  <2> HIDE DEF r
  <2>4. call[c].pc # "done" /\ Keeps(c, r)
      BY <1>2, IdleIs
  <2>5. call'[c] = r /\ Ended \subseteq Ended'
      BY <1>2, <2>2, <2>3, <2>4, CallsStay
  <2>6. OfCall(c)'
      BY <1>2, <2>2, <2>5 DEF OfCall, EditFind
  <2>7. AnswersLive(c)' /\ Checked(c)' /\ Counted(c)' /\ Lists(c)'
      BY <2>2, <2>5 DEF AnswersLive, Checked, Counted, Responses, Lists
  <2>8. Removes(c)'
      BY <1>6, <2>2, <2>5 DEF Removes, EditFind
  <2> QED
      BY <1>2, <2>2, <2>3, <2>4, <2>6, <2>7, <2>8, StepInv DEF Local
<1> QED
    BY <1>4, <1>5, <1>6

(* What asked is gone: if it was the last, a Publish that listed it runs      *)
(* beside this call, or the survey was published beside it.                 *)
LEMMA DeleteInv ==
    ASSUME SurveyInv, NEW c \in Calls, Delete(c)
    PROVE  SurveyInv'
<1> DEFINE r == Kept(call[c], "ok")
           s == call[c].survey
<1>1. call[c] \in Call /\ OfCall(c) /\ Removes(c) /\ call[c].pc = "delete"
      /\ call[c].op = "remove" /\ s \in Surveys /\ call[c].aim \in Questions
      /\ owner[call[c].aim] = s
    BY DEF SurveyInv, TypeOK, Local, Delete, OfCall
<1>2. CASE Answered(call[c].aim)
    BY <1>1, <1>2, SameTables, EndsInv DEF Delete
<1>3. CASE ~ Answered(call[c].aim)
  <2>1. live' = live \ {call[c].aim} /\ required' = required \ {call[c].aim}
        /\ call' = [call EXCEPT ![c] = r] /\ UNCHANGED <<survey, owner, keyed>>
      BY <1>3 DEF Delete, Ends
  <2>2. r \in Call /\ r.op = "remove" /\ r.pc = "done" /\ r.survey = s
        /\ r.before = call[c].before
      BY <1>1, KeptIs
  <2> HIDE DEF r
  <2>3. Keeps(c, r)
      BY <1>1, <2>2 DEF Keeps
  <2>4. /\ call' \in [Calls -> Call] /\ call'[c] = r
        /\ \A d \in Calls \ {c} : call'[d] = call[d]
        /\ Ended \subseteq Ended'
        /\ \A d, b \in Calls, t \in Surveys : Explains(d, b, t) => Explains(d, b, t)'
      BY <1>1, <2>1, <2>2, <2>3, CallsStay
  <2>5. TypeOK' /\ \A q \in live' : owner'[q] # NoOne
      BY <2>1, <2>4 DEF SurveyInv, TypeOK
  <2>6. \A t \in Surveys : Of(t)' = {} => Of(t) = {} \/ t = s
      BY <1>1, <2>1 DEF Of
  <2>7. \A b \in Responses : call[b].answers \subseteq live'
      BY <1>3, <2>1 DEF SurveyInv, Local, AnswersLive, Answered, Responses
  <2>8. Asks'
    <3>1. ASSUME NEW t \in Surveys, survey'[t].published, Of(t)' = {}
          PROVE  \E d, b \in Calls : Explains(d, b, t)'
      <4>1. CASE Of(t) = {}
          BY <2>1, <2>4, <3>1, <4>1 DEF SurveyInv, Asks
      <4>2. CASE t = s
        <5>1. \E b \in Calls : Explains(c, b, s)
            BY <1>1, <2>1, <3>1, <4>2 DEF Removes
        <5> QED
            BY <1>1, <2>4, <4>2, <5>1
      <4> QED
          BY <2>6, <3>1, <4>1, <4>2
    <3> QED
        BY <3>1 DEF Asks
  <2>9. ASSUME NEW d \in Calls PROVE Local(d)'
    <3>1. CASE d = c
      <4>1. OfCall(c)'
          BY <1>1, <2>2, <2>4 DEF OfCall
      <4>2. AnswersLive(c)' /\ Checked(c)' /\ Counted(c)' /\ Lists(c)' /\ Removes(c)'
          BY <2>2, <2>4 DEF AnswersLive, Checked, Counted, Responses, Lists, Removes
      <4> QED
          BY <3>1, <4>1, <4>2 DEF Local
    <3>2. CASE d # c
      <4>1. OfCall(d)' /\ AnswersLive(d)' /\ Checked(d)' /\ Counted(d)'
          BY <1>1, <2>1, <2>2, <2>3, <2>7, <3>2, OthersHold
      <4>2. Local(d) /\ call'[d] = call[d] /\ OfCall(d)
          BY <2>4, <3>2 DEF SurveyInv, Local
      <4>3. Lists(d)'
        <5>1. SUFFICES ASSUME call[d].pc \in {"target", "publish"},
                              Of(call[d].survey)' = {}
                       PROVE  \E b \in Calls : Explains(b, d, call[d].survey)'
            BY <4>2 DEF Lists
        <5>2. PICK t \in Surveys : t = call[d].survey /\ t = call'[d].survey
            BY <4>2, <5>1 DEF OfCall
        <5>3. call[d].op = "publish" /\ Of(t)' = {}
            BY <4>2, <5>1, <5>2 DEF OfCall, Of
        <5>4. CASE Of(t) = {}
          <6>1. \E b \in Calls : Explains(b, d, t)
              BY <4>2, <5>1, <5>2, <5>4 DEF Local, Lists
          <6> QED
              BY <2>4, <5>2, <6>1
        <5>5. CASE t = s
          <6>1. c \notin call[d].before /\ d \notin call[c].before
              BY <1>1, <4>2, <5>1 DEF OfCall, Ended
          <6>2. Explains(c, d, t)
              BY <1>1, <5>2, <5>3, <5>5, <6>1 DEF Explains, Overlap
          <6> QED
              BY <2>4, <5>2, <6>2
        <5> QED
            BY <2>6, <5>3, <5>4, <5>5
      <4>4. Removes(d)'
        <5>1. SUFFICES ASSUME call[d].pc = "delete", survey[call[d].survey].published
                       PROVE  \E b \in Calls : Explains(d, b, call[d].survey)'
            BY <2>1, <4>2 DEF Removes
        <5>2. PICK t \in Surveys : t = call[d].survey /\ t = call'[d].survey
            BY <4>2, <5>1 DEF OfCall
        <5>3. \E b \in Calls : Explains(d, b, t)
            BY <4>2, <5>1, <5>2 DEF Local, Removes
        <5> QED
            BY <2>4, <5>2, <5>3
      <4> QED
          BY <4>1, <4>3, <4>4 DEF Local
    <3> QED
        BY <3>1, <3>2
  <2> QED
      BY <2>5, <2>8, <2>9 DEF SurveyInv
<1> QED
    BY <1>2, <1>3

(***************************************************************************)
(* Students and metrics                                                    *)
(***************************************************************************)

LEMMA SubmitFindInv ==
    ASSUME SurveyInv, NEW c \in Calls, SubmitFind(c)
    PROVE  SurveyInv'
<1>0. PICK s \in Stored, u \in Users \cup {NoOne}, a \in Attempts \cup {NoOne} :
      \E A \in SUBSET { q \in Questions : owner[q] = s } :
        LET with == [NoCall EXCEPT !.user = u, !.attempt = a, !.answers = A] IN
        IF Live(s) THEN Begins(c, "submit", s, with, "listed")
        ELSE Declines(c, "submit", s, with)
    BY DEF SubmitFind
<1>1. PICK A \in SUBSET { q \in Questions : owner[q] = s } :
        LET with == [NoCall EXCEPT !.user = u, !.attempt = a, !.answers = A] IN
        IF Live(s) THEN Begins(c, "submit", s, with, "listed")
        ELSE Declines(c, "submit", s, with)
    BY <1>0
<1> DEFINE v == [NoCall EXCEPT !.user = u, !.attempt = a]
           w == [v EXCEPT !.answers = A]
<1>2. v \in Call /\ v.result = "none"
    BY NoCallType DEF Call, NoCall
<1>3. A \in SUBSET Questions
    OBVIOUS
<1>4. w = [NoCall EXCEPT !.user = u, !.attempt = a, !.answers = A]
    OBVIOUS
<1> HIDE DEF v
<1>5. w \in Call /\ w.result = "none" /\ w.answers = A
    BY <1>2, <1>3 DEF Call
<1> HIDE DEF w
<1>6. s \in Surveys /\ Idle(c) /\ Tables
    BY SameTables DEF Stored, SubmitFind
<1>7. CASE ~ Live(s)
    BY <1>1, <1>4, <1>5, <1>6, <1>7, DeclinesInv
<1>8. CASE Live(s)
  <2> DEFINE r == Begun(w, "submit", s, "listed")
  <2>1. "submit" \in Operations /\ "listed" \in Steps
      BY DEF Operations, Steps
  <2>2. r \in Call /\ r.op = "submit" /\ r.survey = s /\ r.pc = "listed"
        /\ r.before = Ended /\ r.result = "none" /\ r.answers = A
      BY <1>5, <1>6, <2>1, BegunIs
  <2>3. call' = [call EXCEPT ![c] = r]
      BY <1>1, <1>4, <1>8 DEF Begins, Begun
  <2> HIDE DEF r
  <2>4. call[c].pc # "done" /\ Keeps(c, r)
      BY <1>6, IdleIs
  <2>5. call'[c] = r /\ Ended \subseteq Ended'
      BY <1>6, <2>2, <2>3, <2>4, CallsStay
  <2>6. \A q \in A : owner'[q] = s /\ owner'[q] # NoOne
      BY <1>6, NoOneAssumption DEF SubmitFind
  <2>7. OfCall(c)'
      BY <2>2, <2>5, <2>6 DEF OfCall
  <2>8. AnswersLive(c)' /\ Checked(c)' /\ Counted(c)' /\ Lists(c)' /\ Removes(c)'
      BY <2>2, <2>5 DEF AnswersLive, Checked, Counted, Responses, Lists, Removes
  <2> QED
      BY <1>6, <2>2, <2>3, <2>4, <2>7, <2>8, StepInv DEF Local
<1> QED
    BY <1>7, <1>8

(* A response goes on to its transaction past the check, or where there is   *)
(* none.                                                                    *)
LEMMA SubmitGoesInv ==
    ASSUME SurveyInv, NEW c \in Calls, NEW p \in {"exists", "insert"},
           call[c].pc \in {"listed", "exists"}, call[c].op = "submit", Goes(c, p),
           UNCHANGED <<survey, owner, live, required, keyed>>,
           p = "insert" => \/ call[c].trigger = "recurring"
                           \/ ~ \E d \in Responses : Blocks(d, c)
    PROVE  SurveyInv'
<1> DEFINE r == [call[c] EXCEPT !.pc = p]
<1>1. call[c] \in Call /\ OfCall(c) /\ Tables
    BY SameTables DEF SurveyInv, TypeOK, Local
<1>2. r \in Call /\ r.op = "submit" /\ r.pc = p /\ r.result = "none"
      /\ r.survey = call[c].survey /\ r.before = call[c].before
      /\ r.user = call[c].user /\ r.attempt = call[c].attempt
      /\ r.trigger = call[c].trigger /\ r.answers = call[c].answers
    BY <1>1 DEF Call, OfCall
<1>3. call' = [call EXCEPT ![c] = r]
    BY DEF Goes
<1> HIDE DEF r
<1>4. Keeps(c, r)
    BY <1>1, <1>2 DEF Keeps
<1>5. /\ call'[c] = r /\ Ended \subseteq Ended'
      /\ c \notin Responses
      /\ \A d \in Responses : call'[d] = call[d]
      /\ \A d \in Responses' \ {c} : d \in Responses
    BY <1>2, <1>3, <1>4, CallsStay
<1>6. OfCall(c)'
    BY <1>1, <1>2, <1>5 DEF OfCall
<1>7. Checked(c)'
  <2>1. \A d \in Responses' : d \in Responses
      BY <1>2, <1>5 DEF Responses
  <2>2. \A d \in Responses : Blocks(d, c)' <=> Blocks(d, c)
      BY <1>2, <1>5 DEF Blocks
  <2> QED
      BY <1>2, <1>5, <2>1, <2>2 DEF Checked
<1>8. AnswersLive(c)' /\ Counted(c)' /\ Lists(c)' /\ Removes(c)'
    BY <1>2, <1>5 DEF AnswersLive, Counted, Responses, Lists, Removes
<1> QED
    BY <1>1, <1>2, <1>3, <1>4, <1>6, <1>7, <1>8, StepInv DEF Local

LEMMA SubmitCheckInv ==
    ASSUME SurveyInv, NEW c \in Calls, SubmitList(c) \/ SubmitExists(c)
    PROVE  SurveyInv'
<1>1. call[c].pc \in {"listed", "exists"} /\ call[c].op = "submit" /\ Tables
      /\ UNCHANGED <<survey, owner, live, required, keyed>>
    BY SameTables DEF SurveyInv, Local, OfCall, SubmitList, SubmitExists
<1>2. CASE Ends(c, "refused")
    BY <1>1, <1>2, EndsInv
<1>3. CASE ~ Ends(c, "refused")
  <2>1. PICK p \in {"exists", "insert"} :
          /\ Goes(c, p)
          /\ p = "insert" => \/ call[c].trigger = "recurring"
                              \/ ~ \E d \in Responses : Blocks(d, c)
      BY <1>3 DEF SubmitList, SubmitExists
  <2> QED
      BY <1>1, <2>1, SubmitGoesInv
<1> QED
    BY <1>2, <1>3

(* The response is stored with answers to questions that are there.          *)
LEMMA SubmitInv ==
    ASSUME SurveyInv, NEW c \in Calls, Submit(c)
    PROVE  SurveyInv'
<1> DEFINE r == Kept(call[c], "ok")
<1>1. call[c] \in Call /\ OfCall(c) /\ Checked(c) /\ Tables
      /\ call[c].pc = "insert" /\ call[c].op = "submit"
    BY SameTables DEF SurveyInv, TypeOK, Local, Submit
<1>2. CASE ~ call[c].answers \subseteq live
  <2>1. Ends(c, "failed")
      BY <1>2 DEF Submit
  <2> QED
      BY <1>1, <2>1, EndsInv
<1>3. CASE call[c].answers \subseteq live
  <2>1. r = [call[c] EXCEPT !.pc = "done", !.result = "ok"]
        /\ call' = [call EXCEPT ![c] = r]
      BY <1>1, <1>3 DEF Submit, Ends, Kept
  <2>2. r \in Call
      BY <1>1, KeptIs
  <2>3. r.op = "submit" /\ r.pc = "done" /\ r.result = "ok"
        /\ r.survey = call[c].survey /\ r.before = call[c].before
        /\ r.user = call[c].user /\ r.attempt = call[c].attempt
        /\ r.trigger = call[c].trigger /\ r.answers = call[c].answers
      BY <1>1, <2>1 DEF Call
  <2> HIDE DEF r
  <2>4. Keeps(c, r)
      BY <1>1, <2>3 DEF Keeps
  <2>5. /\ call'[c] = r /\ Ended \subseteq Ended'
        /\ c \notin Responses
        /\ \A d \in Responses : call'[d] = call[d]
        /\ \A d \in Responses' \ {c} : d \in Responses
      BY <1>1, <2>1, <2>2, <2>4, CallsStay
  <2>6. OfCall(c)'
      BY <1>1, <2>3, <2>5 DEF OfCall, Submit
  <2>7. Checked(c)'
    <3>1. c \notin call[c].before
        BY <1>1 DEF OfCall, Ended
    <3>2. \A d \in Responses : Blocks(d, c)' <=> Blocks(d, c)
        BY <2>3, <2>5 DEF Blocks
    <3>3. \A d \in Responses : d \in call[c].before /\ Blocks(d, c) =>
                                  call[c].trigger = "recurring"
        BY <1>1 DEF Checked
    <3> QED
        BY <2>3, <2>5, <3>1, <3>2, <3>3 DEF Checked
  <2>8. AnswersLive(c)'
      BY <1>3, <2>3, <2>5 DEF AnswersLive, Submit
  <2>9. Counted(c)' /\ Lists(c)' /\ Removes(c)'
      BY <2>3, <2>5 DEF Counted, Lists, Removes
  <2> QED
      BY <1>1, <2>1, <2>2, <2>4, <2>6, <2>7, <2>8, <2>9, StepInv DEF Local
<1> QED
    BY <1>2, <1>3

LEMMA MetricsTotalInv ==
    ASSUME SurveyInv, NEW c \in Calls, MetricsTotal(c)
    PROVE  SurveyInv'
<1>1. PICK s \in Surveys :
        Begins(c, "metrics", s, [NoCall EXCEPT !.total =
                 { d \in Responses : call[d].survey = s }], "answers")
    BY DEF MetricsTotal, Stored
<1> DEFINE T == { d \in Responses : call[d].survey = s }
           w == [NoCall EXCEPT !.total = T]
           r == Begun(w, "metrics", s, "answers")
<1>2. T \in SUBSET Calls /\ \A d \in T : d \in Responses /\ call[d].survey = s
    BY DEF Responses
<1>3. call' = [call EXCEPT ![c] = r]
    BY <1>1 DEF Begins, Begun
<1> HIDE DEF T
<1>4. w \in Call /\ w.result = "none" /\ w.total = T
    BY <1>2, NoCallType DEF Call, NoCall
<1> HIDE DEF w
<1>5. "metrics" \in Operations /\ "answers" \in Steps
    BY DEF Operations, Steps
<1>6. r \in Call /\ r.op = "metrics" /\ r.survey = s /\ r.pc = "answers"
      /\ r.before = Ended /\ r.result = "none" /\ r.total = T
    BY <1>4, <1>5, BegunIs
<1> HIDE DEF r
<1>7. call[c].pc # "done" /\ Keeps(c, r) /\ Tables
    BY IdleIs, SameTables DEF MetricsTotal
<1>8. /\ call'[c] = r /\ Ended \subseteq Ended'
      /\ \A d \in Responses : d \in Responses' /\ call'[d] = call[d]
    BY <1>3, <1>6, <1>7, CallsStay
<1>9. OfCall(c)'
    BY <1>6, <1>8 DEF OfCall
<1>10. Counted(c)'
    BY <1>2, <1>6, <1>8 DEF Counted
<1>11. AnswersLive(c)' /\ Checked(c)' /\ Lists(c)' /\ Removes(c)'
    BY <1>6, <1>8 DEF AnswersLive, Checked, Responses, Lists, Removes
<1> QED
    BY <1>3, <1>6, <1>7, <1>9, <1>10, <1>11, StepInv DEF Local

(* The two reads that follow keep, of each response that was counted, all     *)
(* its answers: they are stored with it, and the foreign key keeps what they *)
(* are answers to.                                                          *)
LEMMA MetricsGoesInv ==
    ASSUME SurveyInv, NEW c \in Calls, NEW N \in SUBSET (Calls \X Questions),
           NEW r \in Call, call' = [call EXCEPT ![c] = r],
           UNCHANGED <<survey, owner, live, required, keyed>>,
           call[c].pc \in {"answers", "questions"},
           \/ r.pc = "questions" /\ r.result = "none"
           \/ r.pc = "done" /\ r.result = "ok",
           r.op = call[c].op, r.survey = call[c].survey, r.before = call[c].before,
           r.total = call[c].total, r.counted = N,
           \A d \in call[c].total : {d} \X call[d].answers \subseteq N
    PROVE  SurveyInv'
<1>1. OfCall(c) /\ Counted(c) /\ Tables /\ call[c].op = "metrics" /\ call[c].pc # "done"
    BY SameTables DEF SurveyInv, Local, OfCall
<1>2. Keeps(c, r)
    BY DEF Keeps
<1>3. /\ call'[c] = r /\ Ended \subseteq Ended'
      /\ \A d \in Responses : d \in Responses' /\ call'[d] = call[d]
    BY <1>1, <1>2, CallsStay
<1>4. OfCall(c)'
    BY <1>1, <1>3 DEF OfCall
<1>5. Counted(c)'
    BY <1>1, <1>3 DEF Counted
<1>6. AnswersLive(c)' /\ Checked(c)' /\ Lists(c)' /\ Removes(c)'
    BY <1>1, <1>3 DEF AnswersLive, Checked, Responses, Lists, Removes
<1> QED
    BY <1>1, <1>2, <1>4, <1>5, <1>6, StepInv DEF Local

LEMMA MetricsAnswersInv ==
    ASSUME SurveyInv, NEW c \in Calls, MetricsAnswers(c)
    PROVE  SurveyInv'
<1> DEFINE N == { a \in Responses \X Questions :
                    call[a[1]].survey = call[c].survey /\ a[2] \in call[a[1]].answers }
           e == [call[c] EXCEPT !.pc = "questions"]
           r == [e EXCEPT !.counted = N]
<1>1. call[c] \in Call /\ OfCall(c) /\ Counted(c) /\ call[c].pc = "answers"
      /\ call[c].op = "metrics" /\ call \in [Calls -> Call]
    BY DEF SurveyInv, TypeOK, Local, OfCall, MetricsAnswers
<1>2. N \in SUBSET (Calls \X Questions)
    BY DEF Responses
<1>3. \A d \in call[c].total : {d} \X call[d].answers \subseteq N
  <2>1. SUFFICES ASSUME NEW d \in call[c].total, NEW q \in call[d].answers
                 PROVE  <<d, q>> \in N
      OBVIOUS
  <2>2. d \in Responses /\ call[d].survey = call[c].survey /\ d \in Calls
      BY <1>1 DEF Counted, Call
  <2>3. q \in Questions
      BY <1>1, <2>2 DEF Call
  <2> QED
      BY <2>2, <2>3
<1>4. call' = [call EXCEPT ![c] = r]
    BY DEF MetricsAnswers
<1> HIDE DEF N
<1>5. e \in Call /\ e.pc = "questions" /\ e.result = "none" /\ e.op = call[c].op
      /\ e.survey = call[c].survey /\ e.before = call[c].before
      /\ e.total = call[c].total
  <2>1. call[c].result = "none"
      BY <1>1 DEF OfCall, Call
  <2> QED
      BY <1>1, <2>1 DEF Call
<1> HIDE DEF e
<1>6. r \in Call /\ r.pc = "questions" /\ r.result = "none" /\ r.op = call[c].op
      /\ r.survey = call[c].survey /\ r.before = call[c].before
      /\ r.total = call[c].total /\ r.counted = N
    BY <1>2, <1>5 DEF Call
<1> HIDE DEF r
<1>7. UNCHANGED <<survey, owner, live, required, keyed>>
    BY DEF MetricsAnswers
<1> QED
    BY <1>1, <1>2, <1>3, <1>4, <1>6, <1>7, MetricsGoesInv

LEMMA MetricsQuestionsInv ==
    ASSUME SurveyInv, NEW c \in Calls, MetricsQuestions(c)
    PROVE  SurveyInv'
<1> DEFINE N == { a \in call[c].counted : a[2] \in Of(call[c].survey) }
           e == [call[c] EXCEPT !.pc = "done", !.result = "ok"]
           r == [e EXCEPT !.counted = N]
<1>1. call[c] \in Call /\ OfCall(c) /\ Counted(c) /\ call[c].pc = "questions"
      /\ call[c].op = "metrics" /\ call \in [Calls -> Call]
    BY DEF SurveyInv, TypeOK, Local, OfCall, MetricsQuestions
<1>2. N \in SUBSET (Calls \X Questions)
    BY <1>1 DEF Call
<1>3. \A d \in call[c].total : {d} \X call[d].answers \subseteq N
  <2>1. SUFFICES ASSUME NEW d \in call[c].total, NEW q \in call[d].answers
                 PROVE  <<d, q>> \in N
      OBVIOUS
  <2>2. d \in Responses /\ call[d].survey = call[c].survey /\ d \in Calls
        /\ <<d, q>> \in call[c].counted
      BY <1>1 DEF Counted, Call
  <2>3. q \in live /\ owner[q] = call[c].survey
      BY <2>2 DEF SurveyInv, Local, AnswersLive, OfCall, Responses
  <2> QED
      BY <2>2, <2>3 DEF Of
<1>4. call' = [call EXCEPT ![c] = r]
    BY DEF MetricsQuestions
<1> HIDE DEF N
<1>5. e \in Call /\ e.pc = "done" /\ e.result = "ok" /\ e.op = call[c].op
      /\ e.survey = call[c].survey /\ e.before = call[c].before
      /\ e.total = call[c].total
    BY <1>1 DEF Call
<1> HIDE DEF e
<1>6. r \in Call /\ r.pc = "done" /\ r.result = "ok" /\ r.op = call[c].op
      /\ r.survey = call[c].survey /\ r.before = call[c].before
      /\ r.total = call[c].total /\ r.counted = N
    BY <1>2, <1>5 DEF Call
<1> HIDE DEF r
<1>7. UNCHANGED <<survey, owner, live, required, keyed>>
    BY DEF MetricsQuestions
<1> QED
    BY <1>1, <1>2, <1>3, <1>4, <1>6, <1>7, MetricsGoesInv

(***************************************************************************)
(* The theorems                                                            *)
(***************************************************************************)

LEMMA SurveyInit == Init => SurveyInv
<1> SUFFICES ASSUME Init PROVE SurveyInv
    OBVIOUS
<1>1. TypeOK
  <2>1. call \in [Calls -> Call]
      BY NoCallType DEF Init
  <2> QED
      BY <2>1, FirstsAssumption DEF Init, TypeOK
<1>2. \A c \in Calls : call[c] = NoCall /\ call[c].pc = "idle" /\ call[c].op = "none"
                       /\ call[c].result = "none" /\ call[c].before = {}
    BY DEF Init, NoCall
<1>3. ASSUME NEW c \in Calls PROVE Local(c)
  <2>1. OfCall(c)
      BY <1>2 DEF OfCall
  <2>2. AnswersLive(c) /\ Checked(c) /\ Counted(c) /\ Lists(c) /\ Removes(c)
      BY <1>2 DEF AnswersLive, Checked, Counted, Responses, Lists, Removes
  <2> QED
      BY <2>1, <2>2 DEF Local
<1>4. Asks
  <2>1. ASSUME NEW s \in Surveys, survey[s].published PROVE Of(s) # {}
    <3>1. s \in Firsts
      <4>1. /\ survey[s].stored <=> s \in Firsts
            /\ ~ survey[s].stored => survey[s] = NoSurvey
          BY DEF Init
      <4> QED
          BY <2>1, <4>1 DEF NoSurvey
    <3>2. PICK q \in Questions : owner[q] = s
        BY <3>1 DEF Init
    <3>3. q \in Of(s)
        BY <3>2, NoOneAssumption DEF Init, Of
    <3> QED
        BY <3>3
  <2> QED
      BY <2>1 DEF Asks
<1> QED
    BY <1>1, <1>3, <1>4 DEF SurveyInv, Init

(* Whatever surveys, questions, keys, students and calls there are: what     *)
(* listings, removals, responses and metrics hold stays true in every step   *)
(* of every handler, and when any of them fails.                            *)
THEOREM SurveyInvariant == Spec => []SurveyInv
<1>1. Init => SurveyInv
    BY SurveyInit
<1>2. SurveyInv /\ [Next]_vars => SurveyInv'
  <2> SUFFICES ASSUME SurveyInv, [Next]_vars PROVE SurveyInv'
      OBVIOUS
  <2>1. CASE UNCHANGED vars
      BY <2>1 DEF vars, SurveyInv, TypeOK, Asks, Local, OfCall, AnswersLive, Checked,
                  Counted, Lists, Removes, Explains, Overlap, Of, Ended, Responses, Blocks
  <2>2. ASSUME NEW c \in Calls, Create(c) \/ UpdateFind(c) \/ UpdateWrite(c) \/ Assign(c)
        PROVE  SurveyInv'
      BY <2>2, CreateInv, UpdateFindInv, UpdateWriteInv, AssignInv
  <2>3. ASSUME NEW c \in Calls,
               \/ PublishFind(c) \/ PublishList(c) \/ PublishTarget(c)
               \/ SetPublished(c) \/ SetActive(c) \/ Deactivate(c)
        PROVE  SurveyInv'
      BY <2>3, PublishFindInv, PublishInv, SetPublishedInv, SetActiveInv, DeactivateInv
  <2>4. ASSUME NEW c \in Calls,
               \/ ReactivateFind(c) \/ CloneFind(c) \/ CloneSave(c) \/ CloneCopy(c)
               \/ AddFind(c) \/ AddInsert(c)
        PROVE  SurveyInv'
      BY <2>4, ComesInv, CloneSaveInv, CloneCopyInv, AddInsertInv
  <2>5. ASSUME NEW c \in Calls, EditFind(c) \/ Change(c) \/ Delete(c)
        PROVE  SurveyInv'
      BY <2>5, EditFindInv, ChangeInv, DeleteInv
  <2>6. ASSUME NEW c \in Calls,
               \/ GetActivePublished(c) \/ GetQuestions(c) \/ SubmitFind(c)
               \/ SubmitList(c) \/ SubmitExists(c) \/ Submit(c)
        PROVE  SurveyInv'
      BY <2>6, GetActivePublishedInv, FailsInv, SubmitFindInv, SubmitCheckInv, SubmitInv
  <2>7. ASSUME NEW c \in Calls,
               MetricsTotal(c) \/ MetricsAnswers(c) \/ MetricsQuestions(c) \/ Fails(c)
        PROVE  SurveyInv'
      BY <2>7, MetricsTotalInv, MetricsAnswersInv, MetricsQuestionsInv, FailsInv
  <2> QED
      BY <2>1, <2>2, <2>3, <2>4, <2>5, <2>6, <2>7 DEF Next
<1> QED
    BY <1>1, <1>2, PTL DEF Spec

(* A survey that is published asks something, unless its last question was   *)
(* removed by a call that overlapped a Publish: Delete and SetPublished keep *)
(* that as long as every handler reads before it writes.                    *)
THEOREM PublishedAsksTheorem == Spec => []PublishedAsks
<1>1. SurveyInv => PublishedAsks
    BY DEF SurveyInv, Asks, PublishedAsks, Explains, Stored
<1> QED
    BY <1>1, SurveyInvariant, PTL

(* No response is stored that another, whose call had ended before, stands   *)
(* in the way of: what SubmitExists found is still so at the transaction.    *)
THEOREM ResubmissionsTheorem == Spec => []ResubmissionsRefused
<1>1. SurveyInv => ResubmissionsRefused
    BY DEF SurveyInv, Local, Checked, ResubmissionsRefused, Responses
<1> QED
    BY <1>1, SurveyInvariant, PTL

(* A response that metrics count is in them with all its answers, whatever    *)
(* is submitted and removed between their three reads.                      *)
THEOREM MetricsCompleteTheorem == Spec => []MetricsComplete
<1>1. SurveyInv => MetricsComplete
    BY DEF SurveyInv, Local, Counted, MetricsComplete
<1> QED
    BY <1>1, SurveyInvariant, PTL
=============================================================================
