--------------------------- MODULE ApplicationStatus ---------------------------
(***************************************************************************)
(* The status of a loan application, the vocabulary the API, the worker    *)
(* and the browser share, and the order in which one request moves it.     *)
(* "ABSENT" stands for an application that has not been created.           *)
(***************************************************************************)
Live == {"QUEUED", "PROCESSING"}
Final == {"DECIDED", "FAILED"}
Statuses == {"ABSENT", "QUEUED", "PROCESSING", "DECIDED", "FAILED"}

\* A job whose every attempt fails on its first read goes from QUEUED to
\* FAILED; nothing leaves a final status.
Successors == [ABSENT     |-> {"QUEUED"},
               QUEUED     |-> {"PROCESSING", "FAILED"},
               PROCESSING |-> Final,
               DECIDED    |-> {},
               FAILED     |-> {}]
===============================================================================
