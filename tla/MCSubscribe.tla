---------------------------- MODULE MCSubscribe ----------------------------
(***************************************************************************)
(* One student with a profile and one administrator.                       *)
(***************************************************************************)
EXTENDS Subscribe

MCRole(a) == IF a = "student" THEN "STUDENT" ELSE "ADMIN"
MCStudentOf(a) == IF a = "student" THEN "profile" ELSE Undefined
=============================================================================
