------------------------------- MODULE LookupIds -------------------------------
(***************************************************************************)
(* The ids of interfaces, protocols, programs, device names and rules      *)
(* (db.rs): a row of logs holds a SMALLINT for each, the writer looks it   *)
(* up while it stores a line, and remembers it.  The id column is an       *)
(* identity: every INSERT takes a number from its sequence, also one that  *)
(* then meets a conflict.                                                  *)
(***************************************************************************)
EXTENDS Null, Integers, FiniteSets

CONSTANTS
  Spellings,   \* names as they occur in lines
  Folded,      \* [Spellings -> the name in lower case]
  MaxId,       \* of the SMALLINT
  MaxTroubles  \* bound: restarts and failing statements

ASSUME IdsAssumption ==
  /\ IsFiniteSet(Spellings)
  /\ MaxId \in Nat /\ MaxTroubles \in Nat
  /\ None \notin [name : {Folded[s] : s \in Spellings}, step : {"insert", "select"}]

VARIABLES
  ids,         \* the lookup table: [name -> id]
  sequence,    \* the last number taken
  cached,      \* LookupCache: [name -> id]
  writing,     \* the lookup under way: None or [name, step]
  used,        \* history: <<name, id>> in stored rows
  burnt,       \* history: numbers taken in this process, by name
  troubles

ids_vars == <<ids, sequence, cached, writing, used, burnt, troubles>>

Names == {Folded[s] : s \in Spellings}
NoIds == [n \in {} |-> 0]
Plus(f, n, id) == [x \in DOMAIN f \cup {n} |-> IF x = n THEN id ELSE f[x]]

Trouble == troubles < MaxTroubles /\ troubles' = troubles + 1

\* simple_id(), rule_id(): the cache first, by the folded name.
LookUp(s) ==
  /\ writing = None
  /\ IF Folded[s] \in DOMAIN cached
     THEN used' = used \cup {<<Folded[s], cached[Folded[s]]>>} /\ UNCHANGED writing
     ELSE writing' = [name |-> Folded[s], step |-> "insert"] /\ UNCHANGED used
  /\ UNCHANGED <<ids, sequence, cached, burnt, troubles>>

\* Mutant of Conflict: every spelling is a name of its own.
NeverConflicts(name) == FALSE

Conflict(name) == name \in DOMAIN ids

\* INSERT ... ON CONFLICT DO NOTHING; the sequence does not start again.
InsertName ==
  /\ writing # None /\ writing.step = "insert" /\ sequence < MaxId
  /\ sequence' = sequence + 1
  /\ burnt' = [burnt EXCEPT ![writing.name] = @ + 1]
  /\ ids' = IF Conflict(writing.name) THEN ids ELSE Plus(ids, writing.name, sequence + 1)
  /\ writing' = [writing EXCEPT !.step = "select"]
  /\ UNCHANGED <<cached, used, troubles>>

SelectId ==
  /\ writing # None /\ writing.step = "select"
  /\ cached' = Plus(cached, writing.name, ids[writing.name])
  /\ used' = used \cup {<<writing.name, ids[writing.name]>>}
  /\ writing' = None
  /\ UNCHANGED <<ids, sequence, burnt, troubles>>

\* The sequence is at its end: even a name that has an id is not found.
InsertFails ==
  /\ writing # None /\ writing.step = "insert" /\ sequence = MaxId
  /\ writing' = None
  /\ UNCHANGED <<ids, sequence, cached, used, burnt, troubles>>

\* The database does not answer: the line is dropped (writer.rs:329).
StatementFails ==
  /\ writing # None /\ Trouble
  /\ writing' = None
  /\ UNCHANGED <<ids, sequence, cached, used, burnt>>

RestartWriter ==
  /\ Trouble
  /\ cached' = NoIds /\ writing' = None /\ burnt' = [n \in Names |-> 0]
  /\ UNCHANGED <<ids, sequence, used>>

IdsInit ==
  /\ ids = NoIds /\ sequence = 0 /\ cached = NoIds /\ writing = None
  /\ used = {} /\ burnt = [n \in Names |-> 0] /\ troubles = 0

IdsNext ==
  \/ \E s \in Spellings : LookUp(s)
  \/ InsertName \/ SelectId \/ InsertFails \/ StatementFails \/ RestartWriter

IdsSpec == IdsInit /\ [][IdsNext]_ids_vars

-----------------------------------------------------------------------------
IdsTypes ==
  /\ sequence \in 0..MaxId
  /\ DOMAIN cached \subseteq DOMAIN ids /\ DOMAIN ids \subseteq Names

(* An id means the same in every row: a name, however it is spelt and in   *)
(* whichever process, has one id, no two names share one, and the cache    *)
(* says what the table says; and a name takes at most one number from the  *)
(* sequence per process and failure, known or new: what a sequence of      *)
(* 32767 lasts for (db.rs:31-49).                                          *)
IdsAreStable ==
  /\ \A a, b \in used : (a[1] = b[1]) <=> (a[2] = b[2])
  /\ \A n \in DOMAIN cached : cached[n] = ids[n]
  /\ \A n \in Names : burnt[n] <= troubles + 1
  /\ sequence <= (troubles + 1) * Cardinality(Names)
=============================================================================
