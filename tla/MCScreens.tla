------------------------------ MODULE MCScreens ------------------------------
(* Constants for model checking Screens: two courses, of which each may be *)
(* deployed without questions, and mock exams of one question.             *)
EXTENDS Screens, TLC

CONSTANTS q1, q2, d

CourseOfEach == (q1 :> 1) @@ (q2 :> 2)
OneDomain == [q \in Questions |-> d]
OneQuestion == [c \in Courses |-> [x \in {d} |-> 1]]

=============================================================================
