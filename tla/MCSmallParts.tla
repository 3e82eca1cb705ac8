---------------------------- MODULE MCSmallParts ----------------------------
(* Requests, questions and new exams are interchangeable.                    *)
EXTENDS SmallParts, TLC

Symmetry == Permutations(Reqs) \cup Permutations(Questions)
            \cup Permutations(Exams \ Drafts)
=============================================================================
