--------------------------------- MODULE Parts ---------------------------------
(***************************************************************************)
(* The parts of the system that share no state: the AbuseIPDB client on    *)
(* its own, the caches of answers, names, ids and scores, the database     *)
(* files and the sync with the UniFi controller.  A behaviour of the       *)
(* process is one of every part, whatever the order of their steps.        *)
(***************************************************************************)
EXTENDS AbuseIpDb, ResponseCache, NameCache, LookupIds, ScoreRefresh, GeoFiles, UnifiSync

client_vars == <<now, client, flight, left, promised, guessed, restarts>>

PartsSpec ==
  /\ Spec /\ CacheSpec /\ NamesSpec /\ IdsSpec /\ ScoresSpec
  /\ GeoSpec /\ UnifiSpec

(* Types, and the bounds of the caches (cache.rs:29, db.rs:12).            *)
PartsTypeOK ==
  /\ TypeOK /\ CacheTypes /\ NamesTypes /\ IdsTypes /\ ScoresTypes
  /\ GeoTypes /\ UnifiTypes
=============================================================================
