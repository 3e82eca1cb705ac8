-------------------------- MODULE MCSurveyService --------------------------
(* A small instance of SurveyService: calls and questions are                *)
(* interchangeable.                                                          *)
EXTENDS SurveyService, TLC

CallSymmetry == Permutations(Calls) \cup Permutations(Questions)
=============================================================================
