------------------------------- MODULE MCQueries -------------------------------
(* Text looked for where an address or a port is expected.                 *)
EXTENDS Queries, MCRows

MCMisplaced ==
  MCAsked \cup {Searching({Tok("dst", "word", "printer", FALSE)}), Searching({Tok("port", "word", "https", FALSE)})}
=============================================================================
