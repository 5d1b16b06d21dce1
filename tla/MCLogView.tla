------------------------------- MODULE MCLogView -------------------------------
(* Small instance of LogView: rows of three kinds and filters that ask for *)
(* a column of the line, for a fact, and for a word.                       *)
EXTENDS LogView, MCRows, TLC

MCContent == [blocked |-> MCBlocked, query |-> MCQuery, allowed |-> MCAllowed]
MCLog == [i \in 1..2 |-> [kind |-> "allowed", ts |-> 2, facts |-> FALSE]]
MCRemote  == [blocked |-> "remote", query |-> None, allowed |-> "remote"]

MCSetting ==
  [all |-> Unfiltered,
   facts |-> [Unfiltered EXCEPT !.country = {"DE"}, !.threat_min = 50],
   search |-> [Unfiltered EXCEPT !.q = {Tok("dst", "address", "remote", TRUE)}]]

\* A lookup of the Pi-hole arrives late, a packet at once.
MCArrivals == \A id \in Ids : table[id].ts = IF table[id].kind = "query" THEN 1 ELSE 2
=============================================================================
