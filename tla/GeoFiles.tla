-------------------------------- MODULE GeoFiles --------------------------------
(***************************************************************************)
(* The GeoLite2 files: the updater fetches them from MaxMind (maxmind.rs), *)
(* the lookups read them from memory, and a watcher loads them again when  *)
(* their modification times change (geoip.rs).  The three run              *)
(* concurrently, the user replaces files and settings, and the process     *)
(* restarts.                                                               *)
(*                                                                         *)
(* Times are counted in events: every build and every write of a file has  *)
(* a time of its own.                                                      *)
(***************************************************************************)
EXTENDS Null, Integers, Sequences, SequencesExt

CONSTANTS
  Dirs,       \* directories geoip_dir may name
  MaxEvents,    \* bound: builds and writes
  MaxGeoFaults  \* bound: failing requests and writes, restarts

ASSUME GeoAssumption ==
  /\ None \notin Dirs
  /\ None \notin [build : Nat, mtime : Nat]
  /\ None \notin [{"City", "ASN"} -> Nat \cup {None}]
  /\ MaxEvents \in Nat /\ MaxGeoFaults \in Nat

Editions == {"City", "ASN"}
EDITIONS == <<"City", "ASN">>

VARIABLES
  time,
  published,  \* edition -> time of the newest build at MaxMind
  files,      \* directory, edition -> [build, mtime] or None
  geoip_dir, credentials,  \* settings
  path,       \* edition -> the directory the reader looks in, or None
  reader,     \* edition -> the build in memory, or None
  seen,       \* edition -> modification time the watcher has seen
  opened,     \* what each task has opened and not yet put in place
  watching,   \* the watcher: "asleep" or about to "open"
  at,         \* the updater's next step
  due,        \* editions still to be looked at
  run,        \* this run: [dir, remote, body, failed, updated, uptodate]
  geo_status, \* maxmind_status: None, or how long until the next check
  slipped,    \* history: files older than a build from before they were written
  overlapped, \* history: the last two reloads overlapped
  geo_faults

settings == <<geoip_dir, credentials>>
disk     == <<time, published, files>>
memory   == <<path, reader, seen, opened, watching>>
updater  == <<at, due, run, geo_status>>
geo_vars == <<disk, settings, memory, updater, slipped, overlapped, geo_faults>>

Idle == [dir |-> None, remote |-> None, body |-> None, failed |-> FALSE,
         updated |-> [e \in {} |-> 0], uptodate |-> [e \in {} |-> 0]]

File(d, e)    == IF d = None THEN None ELSE files[d][e]
MtimeOf(f)    == IF f = None THEN None ELSE f.mtime
BuildOf(f)    == IF f = None THEN None ELSE f.build
Mtimes        == [e \in Editions |-> MtimeOf(File(path[e], e))]

Fault == geo_faults < MaxGeoFaults /\ geo_faults' = geo_faults + 1

-----------------------------------------------------------------------------
(* geoip.rs                                                                *)

\* from_dir(): a file that is not there now is not looked for later.
Boot ==
  /\ path' = [e \in Editions |-> IF files[geoip_dir][e] = None THEN None ELSE geoip_dir]
  /\ reader' = [e \in Editions |-> BuildOf(files[geoip_dir][e])]
  /\ seen' = [e \in Editions |-> MtimeOf(files[geoip_dir][e])]
  /\ opened' = [t \in {"watch", "update"} |-> None]
  /\ watching' = "asleep"
  /\ at' = "idle" /\ due' = <<>> /\ run' = Idle

RestartLookups == Fault /\ Boot /\ UNCHANGED <<disk, settings, geo_status, slipped, overlapped>>

\* Mutant of Open: the files are opened when the change has been seen.
OpenNothing(task) ==
  /\ opened' = [opened EXCEPT ![task] = reader]
  /\ overlapped' = (\E t \in DOMAIN opened : opened[t] # None)

\* reload(): both files are opened; one that is missing is no database.
Open(task) ==
  /\ opened' = [opened EXCEPT ![task] = [e \in Editions |-> BuildOf(File(path[e], e))]]
  /\ overlapped' = (\E t \in DOMAIN opened : opened[t] # None)

\* ... and put in place together.
Put(task) ==
  /\ opened[task] # None
  /\ reader' = opened[task]
  /\ opened' = [opened EXCEPT ![task] = None]

\* watch_for_updates(), every RELOAD_CHECK.
Watch ==
  /\ watching = "asleep" /\ opened["watch"] = None /\ Mtimes # seen
  /\ seen' = Mtimes /\ watching' = "open"
  /\ UNCHANGED <<disk, settings, path, reader, opened, updater, slipped, overlapped, geo_faults>>

WatchOpens ==
  /\ watching = "open" /\ watching' = "asleep"
  /\ Open("watch")
  /\ UNCHANGED <<disk, settings, path, reader, seen, updater, slipped, geo_faults>>

WatchPuts ==
  /\ Put("watch")
  /\ UNCHANGED <<disk, settings, path, seen, watching, updater, slipped, overlapped, geo_faults>>

-----------------------------------------------------------------------------
(* maxmind.rs                                                              *)

\* run_updater(): with credentials, one edition after the other.
BeginRun ==
  /\ at = "idle" /\ credentials
  /\ at' = "head" /\ due' = EDITIONS /\ run' = [Idle EXCEPT !.dir = geoip_dir]
  /\ UNCHANGED <<disk, settings, memory, geo_status, slipped, overlapped, geo_faults>>

NextEdition(result) ==
  /\ run' = result /\ due' = Tail(due)
  /\ at' = IF Len(due) > 1 THEN "head"
           ELSE IF result.updated = Idle.updated THEN "record" ELSE "reload"

\* Any error ends this edition; the run goes on.
EditionFails ==
  /\ at \in {"head", "get", "write"} /\ Fault
  /\ NextEdition([run EXCEPT !.failed = TRUE])
  /\ UNCHANGED <<disk, settings, memory, geo_status, slipped, overlapped>>

\* Mutant of NotNewer: any file will do.
AnyFileWillDo(remote, local) == remote # None /\ local # None

NotNewer(remote, local) == remote # None /\ local # None /\ remote <= local

\* build_date(): the HEAD request; its date may be missing.
Look ==
  /\ at = "head"
  /\ \E remote \in {published[Head(due)], None} :
       IF NotNewer(remote, MtimeOf(File(run.dir, Head(due))))
       THEN NextEdition([run EXCEPT !.uptodate =
              [e \in DOMAIN run.uptodate \cup {Head(due)} |->
                 IF e = Head(due) THEN remote ELSE run.uptodate[e]]])
       ELSE run' = [run EXCEPT !.remote = remote] /\ at' = "get" /\ UNCHANGED due
  /\ UNCHANGED <<disk, settings, memory, geo_status, slipped, overlapped, geo_faults>>

Download ==
  /\ at = "get" /\ at' = "write"
  /\ run' = [run EXCEPT !.body = published[Head(due)]]
  /\ UNCHANGED <<disk, settings, memory, due, geo_status, slipped, overlapped, geo_faults>>

PutFile(d, e, build) ==
  /\ time < MaxEvents /\ time' = time + 1
  /\ files' = [files EXCEPT ![d][e] = [build |-> build, mtime |-> time + 1]]
  /\ slipped' = IF build < published[e] THEN slipped \cup {<<d, e>>} ELSE slipped \ {<<d, e>>}

\* extract_mmdb(): written beside the file and renamed over it.
Extract ==
  /\ at = "write"
  /\ PutFile(run.dir, Head(due), run.body)
  /\ NextEdition([run EXCEPT !.updated =
       [e \in DOMAIN run.updated \cup {Head(due)} |->
          IF e = Head(due) THEN run.body ELSE run.updated[e]]])
  /\ UNCHANGED <<published, settings, memory, geo_status, overlapped, geo_faults>>

Reload ==
  /\ at = "reload" /\ opened["update"] = None
  /\ Open("update")
  /\ UNCHANGED <<disk, settings, path, reader, seen, watching, updater, slipped, geo_faults>>

ReloadPuts ==
  /\ Put("update") /\ at' = "record"
  /\ UNCHANGED <<disk, settings, path, seen, watching, due, run, geo_status, slipped, overlapped,
                 geo_faults>>

\* record(), and the time until the next check.
Record ==
  /\ at = "record" /\ at' = "idle"
  /\ geo_status' = IF run.failed THEN "RETRY_AFTER" ELSE "CHECK_EVERY"
  /\ UNCHANGED <<disk, settings, memory, due, run, slipped, overlapped, geo_faults>>

-----------------------------------------------------------------------------
(* MaxMind and the user.                                                   *)

Publish(e) ==
  /\ time < MaxEvents /\ time' = time + 1
  /\ published' = [published EXCEPT ![e] = time + 1]
  /\ UNCHANGED <<files, settings, memory, updater, slipped, overlapped, geo_faults>>

\* "This also works when somebody swaps the files by hand" (geoip.rs:101).
\* Nobody takes one away: a file that was gone and came back unseen between
\* two looks of the watcher is not modelled.
SwapByHand(d, e) ==
  /\ PutFile(d, e, published[e])
  /\ UNCHANGED <<published, settings, memory, updater, overlapped, geo_faults>>

Configure(d, c) ==
  /\ <<d, c>> # settings
  /\ geoip_dir' = d /\ credentials' = c
  /\ UNCHANGED <<disk, memory, updater, slipped, overlapped, geo_faults>>

\* A fresh installation has no files; an older one has both.
GeoInit ==
  /\ time = 1 /\ published = [e \in Editions |-> 1]
  /\ geoip_dir \in Dirs /\ credentials = FALSE
  /\ \E installed \in BOOLEAN :
       files = [d \in Dirs |-> [e \in Editions |->
                  IF installed /\ d = geoip_dir THEN [build |-> 0, mtime |-> 0] ELSE None]]
  /\ path = [e \in Editions |-> IF files[geoip_dir][e] = None THEN None ELSE geoip_dir]
  /\ reader = [e \in Editions |-> BuildOf(files[geoip_dir][e])]
  /\ seen = [e \in Editions |-> MtimeOf(files[geoip_dir][e])]
  /\ opened = [t \in {"watch", "update"} |-> None] /\ watching = "asleep"
  /\ at = "idle" /\ due = <<>> /\ run = Idle /\ geo_status = None
  /\ slipped = {} /\ overlapped = FALSE /\ geo_faults = 0

GeoNext ==
  \/ RestartLookups \/ Watch \/ WatchOpens \/ WatchPuts
  \/ BeginRun \/ EditionFails \/ Look \/ Download \/ Extract \/ Reload \/ ReloadPuts \/ Record
  \/ \E e \in Editions : Publish(e) \/ \E d \in Dirs : SwapByHand(d, e)
  \/ \E d \in Dirs, c \in BOOLEAN : Configure(d, c)

GeoSpec == GeoInit /\ [][GeoNext]_geo_vars

-----------------------------------------------------------------------------
GeoTypes ==
  /\ path \in [Editions -> Dirs \cup {None}]
  /\ at \in {"idle", "head", "get", "write", "reload", "record"}
  /\ at \in {"head", "get", "write"} => due # <<>> /\ run.dir \in Dirs
  /\ geo_status \in {None, "RETRY_AFTER", "CHECK_EVERY"}
  /\ \A e \in Editions : seen[e] # None => seen[e] <= time

(* Once the watcher has seen the files as they are, the lookups use them:  *)
(* no replacement is missed, whoever made it and whenever, unless the last *)
(* reload overlapped with another one (geoip.rs:101-119).                  *)
ReplacementsAreSeen ==
  /\ seen = Mtimes /\ watching = "asleep"
  /\ Range(opened) = {None} /\ ~overlapped
  => \A e \in Editions : reader[e] = BuildOf(File(path[e], e))

(* What a check calls up to date is: "fetches an edition when MaxMind has  *)
(* a newer one" (maxmind.rs:111).  The file's own time stands for its      *)
(* build, so the exception is a file older than a build that appeared      *)
(* while it was being downloaded.                                          *)
UpToDateIsCurrent ==
  \A e \in DOMAIN run.uptodate :
    File(run.dir, e) # None /\ <<run.dir, e>> \notin slipped
    => BuildOf(File(run.dir, e)) >= run.uptodate[e]

(* "`geo` is loaded again after a successful download, so that the         *)
(* enrichment uses the fresh files at once instead of going on with the    *)
(* old ones until the next restart" (maxmind.rs:216-218).                  *)
FreshFilesAreUsed ==
  at = "record" => \A e \in DOMAIN run.updated : reader[e] # None /\ reader[e] >= run.updated[e]
=============================================================================
