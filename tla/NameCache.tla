------------------------------- MODULE NameCache -------------------------------
(***************************************************************************)
(* Reverse DNS (rdns.rs): the enrichment worker asks for one address after *)
(* the other; names and failures are remembered for a day, in memory.      *)
(***************************************************************************)
EXTENDS Null, Integers, FiniteSets

CONSTANTS
  Hosts,     \* addresses
  Ttl,       \* how long an answer is remembered
  Timeout,   \* of one question to the resolver
  Plenty,    \* entries from which on expired ones are swept
  MaxHours   \* bound of the clock

ASSUME NamesAssumption ==
  /\ Ttl \in Nat /\ Timeout \in Nat /\ MaxHours \in Nat
  /\ None \notin [ip : Hosts, since : Nat]

VARIABLES
  hour,      \* the clock
  remembered,\* [address -> [at, value]]
  looking,   \* the lookup under way: None or [ip, since]
  told,      \* history: the last answer: None or [ip, value, known]
  questions  \* history: [address -> when the resolver was asked, in this process]

names_vars == <<hour, remembered, looking, told, questions>>

Alive(ip) == ip \in DOMAIN remembered /\ hour - remembered[ip].at < Ttl

\* Mutant of put_name: failures are asked again.
PutNamesOnly(ip, value) ==
  remembered' = [a \in DOMAIN remembered \cup (IF value = None THEN {} ELSE {ip}) |->
                   IF a = ip THEN [at |-> hour, value |-> value] ELSE remembered[a]]

\* put_name(): above a size, what has expired is swept first.
put_name(ip, value) ==
  LET kept == IF Cardinality(DOMAIN remembered) > Plenty
              THEN {a \in DOMAIN remembered : Alive(a)} ELSE DOMAIN remembered
  IN remembered' = [a \in kept \cup {ip} |->
                      IF a = ip THEN [at |-> hour, value |-> value] ELSE remembered[a]]

\* lookup(): the memory first; an entry that has expired is removed.
Lookup(ip) ==
  /\ looking = None
  /\ IF Alive(ip)
     THEN /\ told' = [ip |-> ip, value |-> remembered[ip].value, known |-> remembered[ip].at]
          /\ UNCHANGED <<remembered, looking, questions>>
     ELSE /\ remembered' = [a \in DOMAIN remembered \ {ip} |-> remembered[a]]
          /\ looking' = [ip |-> ip, since |-> hour]
          /\ questions' = [questions EXCEPT ![ip] = @ \cup {hour}]
          /\ UNCHANGED told
  /\ UNCHANGED hour

\* A name, or none: a timeout, NXDOMAIN and a network error are the same.
Resolved(value) ==
  /\ looking # None
  /\ put_name(looking.ip, value)
  /\ told' = [ip |-> looking.ip, value |-> value, known |-> hour]
  /\ looking' = None
  /\ UNCHANGED <<hour, questions>>

\* The resolver is given no more time than this.
TickHour ==
  /\ hour < MaxHours /\ hour' = hour + 1
  /\ looking # None => hour - looking.since < Timeout
  /\ UNCHANGED <<remembered, looking, told, questions>>

ForgetAll ==
  /\ remembered' = [a \in {} |-> None] /\ looking' = None
  /\ questions' = [a \in Hosts |-> {}] /\ told' = None
  /\ UNCHANGED hour

NamesInit ==
  /\ hour = 0 /\ remembered = [a \in {} |-> None] /\ looking = None
  /\ told = None /\ questions = [a \in Hosts |-> {}]

NamesNext ==
  \/ TickHour \/ ForgetAll
  \/ \E ip \in Hosts : Lookup(ip)
  \/ \E value \in {"name", None} : Resolved(value)

NamesSpec == NamesInit /\ [][NamesNext]_names_vars

-----------------------------------------------------------------------------
NamesTypes ==
  /\ DOMAIN remembered \subseteq Hosts
  /\ \A a \in DOMAIN remembered : remembered[a].at <= hour

(* "PTR lookups are slow and often without success: both is remembered"    *)
(* (rdns.rs:8): in one process the resolver is asked again for an address  *)
(* only when its last answer, a failure included, is a day old, whatever   *)
(* was swept meanwhile.                                                    *)
AskedOnceADay ==
  \A a \in Hosts : \A s, t \in questions[a] : s < t => t - s >= Ttl
=============================================================================
