------------------------------- MODULE MCIngest -------------------------------
(* Small instance of Ingest: more syslog lines than channel and batch hold. *)
EXTENDS Ingest

MCMaxLines == [s \in Sources |-> IF s = "udp" THEN 4 ELSE 1]
=============================================================================
