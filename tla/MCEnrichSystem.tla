---------------------------- MODULE MCEnrichSystem ----------------------------
(* Small instances of EnrichSystem: blocked rows, each of another address.  *)
(* For MCSpec one half of the behaviours runs through two quota windows     *)
(* undisturbed, the other through a failure, a crash and a fault within one *)
(* window; MCKeySpec looks at one day on which the operator enters a key.   *)
EXTENDS EnrichSystem

VARIABLE mode

MCRemote == CHOOSE f \in [Rows -> Addrs] : \A r, q \in Rows : r # q => f[r] # f[q]
MCStamp  == [r \in Rows |-> 1]

MCInit == Init /\ mode = "start"

\* The second half starts in the later window.
MCLate ==
  /\ now' = Day + 1 /\ windows' = 2
  /\ UNCHANGED <<status, written, rowCats, cache, pc, batch, todo, facts, quotaOut, catsTodo,
                 announced, answered, failures, crashes, client, flight, left, promised, guessed,
                 restarts, configured, reopenedFor, asking, history, counters>>

MCNext ==
  \/ mode = "start" /\ mode' = "windows" /\ UNCHANGED vars
  \/ mode = "start" /\ mode' = "faults" /\ MCLate
  \/ /\ mode # "start" /\ Next /\ UNCHANGED mode
     /\ mode = "windows" => failures' + crashes' + faults' = 0

MCSpec == MCInit /\ [][MCNext]_<<vars, mode>>

\* The key instance: blocked traffic of one day, a row at a time.
MCOrder == CHOOSE f \in [Rows -> 1..Cardinality(Rows)] : \A r, q \in Rows : r # q => f[r] # f[q]

MCArrives(r) ==
  /\ pc = "idle"
  /\ Q!Insert(r)
  /\ \A q \in Rows : status[q] = "absent" <=> Stamp[q] >= Stamp[r]

MCKeyNext ==
  /\ Next /\ UNCHANGED mode
  /\ (\E r \in Rows : Q!Insert(r)) => \E r \in Rows : MCArrives(r)

MCKeySpec == Init /\ mode = "key" /\ [][MCKeyNext]_<<vars, mode>>
=============================================================================
