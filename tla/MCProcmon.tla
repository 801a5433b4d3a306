----------------------------- MODULE MCProcmon -----------------------------
(* A small instance of Procmon for TLC. *)
EXTENDS Procmon

\* Plain names, and names that contain what stat uses as delimiters.
Names == << <<"p">>, <<"a", ")", " ", "Z", " ", "(">>, <<"b">>, <<")", ")">> >>

\* The third task is a kernel thread, unless it is a thread of another process.
Mems == <<1, 2, 0, 1>>

\* The second process is another user's, the third one is hidden.
Permissions == <<Files, Files \ {"maps"}, {}, Files>>
=============================================================================
