----------------------------- MODULE MCSyncJobs -----------------------------
(* A small instance of SyncJobs: one student, two schools with one e-mail.   *)
EXTENDS SyncJobs, TLC

CONSTANTS e1, code, o1, t1, l1, u1, s1, y1, y2, r1, r2, k1, k2, p1, p2, p3, p4, p5

\* One request of every kind, and two about one key.
SyncKinds == o1 :> "signup" @@ t1 :> "otp" @@ s1 :> "student" @@ l1 :> "lead"
             @@ u1 :> "user" @@ y1 :> "key" @@ y2 :> "key"
SyncEmails == [r \in {o1, t1, s1, l1, u1, y1, y2} |->
                 IF r \in {y1, y2} THEN code ELSE e1]

\* Two attempts of the student, and the two schools.
Objects == r1 :> e1 @@ r2 :> e1 @@ k1 :> "school" @@ k2 :> "school"
\* A result of each attempt, data of one school twice and of the other once.
PostTasks == p1 :> r1 @@ p2 :> r2 @@ p3 :> k1 @@ p4 :> k1 @@ p5 :> k2
=============================================================================
