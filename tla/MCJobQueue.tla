----------------------------- MODULE MCJobQueue -----------------------------
(* A job that writes a row, a job that sends a mail, and two slots.        *)
EXTENDS JobQueue

CONSTANTS row, mail, s1, s2, nojob, noslot
=============================================================================
