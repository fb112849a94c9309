----------------------------- MODULE MCProcess ------------------------------
(* Small instances of Process: kmain creates kernel_info and the shell. *)
EXTENDS Process

MCBootEntries == <<"info", "shell">>
=============================================================================
