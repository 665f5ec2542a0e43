---------------------------- MODULE SnapshotStore ----------------------------
(***************************************************************************)
(* Publication and loading of one daily-bar snapshot                       *)
(* (src/src/mltrade/storage/snapshots.py, data/publication.py and their    *)
(* callers): the data file first, then the manifest, each written under a  *)
(* temporary name, synced, linked to its final name exclusively, and the   *)
(* directory synced.  Any number of processes do this under one snapshot   *)
(* id; each may be killed between two steps, and the power may fail.       *)
(* Snapshots of different ids share nothing.                               *)
(*                                                                         *)
(* The file system is modelled as far as POSIX promises: an entry outlives *)
(* a power failure for certain when its directory has been synced since,   *)
(* the bytes of a file when the file has been.  The directory of a         *)
(* snapshot is itself an entry of its parent, which nothing syncs.         *)
(***************************************************************************)
EXTENDS Naturals

CONSTANTS Runs,        \* processes; a restarted one is another run
          Bars,        \* the bars a run may have fetched
          Blocked,     \* those its quality report blocks
          None,        \* no bars, no file
          MaxOutages   \* how often the power may fail

ASSUME StoreAssumption ==
    /\ None \notin Bars /\ Blocked \subseteq Bars
    /\ None \notin Runs \X {"data", "manifest"}
    /\ MaxOutages \in Nat

Names == {"data", "manifest"}      \* the two final names of a snapshot
Files == Runs \X Names             \* a file: who wrote it, and as what
Kinds == {"ingest", "demo", "load"}

VARIABLES place,     \* run -> its next step
          item,      \* run -> which of the two files it is saving
          kind,      \* run -> what it does: publish; publish or load; load
          bars,      \* run -> the bars it publishes
          manifest,  \* run -> the bars whose hash its manifest holds
          answer,    \* run -> the bars it has loaded and verified
          file,      \* file -> its bytes and how far they are written
          temps,     \* files that still have a temporary name
          dir,       \* the snapshot's directory, as processes see it
          disk,      \* the directory as it is certain to be on disk
          outages

runVars == <<place, item, kind, bars, manifest, answer>>
vars == <<runVars, file, temps, dir, disk, outages>>

Saving == {"open", "write", "sync", "link", "unlink", "give_up", "sync_dir"}
Active == Saving \cup {"read_back", "load", "verify"}
Place == Active \cup {"idle", "done", "failed", "crashed"}

Directory == [made : BOOLEAN, link : [Names -> Files \cup {None}]]
NoDirectory == [made |-> FALSE, link |-> [n \in Names |-> None]]

Init ==
    /\ place = [r \in Runs |-> "idle"]
    /\ item = [r \in Runs |-> "data"]
    /\ kind = [r \in Runs |-> "load"]
    /\ bars = [r \in Runs |-> None]
    /\ manifest = [r \in Runs |-> None]
    /\ answer = [r \in Runs |-> None]
    /\ file = [f \in Files |-> [bars |-> None, state |-> "torn"]]
    /\ temps = {}
    /\ dir = NoDirectory /\ disk = NoDirectory
    /\ outages = 0
-----------------------------------------------------------------------------
GoTo(r, p) == place' = [place EXCEPT ![r] = p]

\* A run starts: a publisher is refused when the quality report of its bars
\* blocks, before anything is written.
StartPublishing(r, k, b) ==
    /\ place[r] = "idle"
    /\ kind' = [kind EXCEPT ![r] = k]
    /\ bars' = [bars EXCEPT ![r] = b]
    /\ GoTo(r, IF b \in Blocked THEN "failed" ELSE "open")
    /\ UNCHANGED <<item, manifest, answer, file, temps, dir, disk, outages>>

StartLoading(r) ==
    /\ place[r] = "idle"
    /\ GoTo(r, "load")
    /\ UNCHANGED <<item, kind, bars, manifest, answer, file, temps, dir, disk,
                   outages>>

\* The file that r is saving, and what belongs into it.
Current(r) == <<r, item[r]>>
Payload(r) == IF item[r] = "data" THEN bars[r] ELSE manifest[r]

\* Make the directory unless it is there, and the temporary file in it.
Open(r) ==
    /\ place[r] = "open"
    /\ dir' = [dir EXCEPT !.made = TRUE]
    /\ temps' = temps \cup {Current(r)}
    /\ GoTo(r, "write")
    /\ UNCHANGED <<item, kind, bars, manifest, answer, file, disk, outages>>

Write(r) ==
    /\ place[r] = "write"
    /\ file' = [file EXCEPT ![Current(r)] =
                    [bars |-> Payload(r), state |-> "written"]]
    /\ GoTo(r, "sync")
    /\ UNCHANGED <<item, kind, bars, manifest, answer, temps, dir, disk, outages>>

\* Mutant: the bytes are flushed to the system and not to disk.
FlushOnly(r) ==
    /\ place[r] = "sync"
    /\ GoTo(r, "link")
    /\ UNCHANGED <<item, kind, bars, manifest, answer, file, temps, dir, disk,
                   outages>>

Sync(r) ==
    /\ place[r] = "sync"
    /\ file' = [file EXCEPT ![Current(r)].state = "synced"]
    /\ GoTo(r, "link")
    /\ UNCHANGED <<item, kind, bars, manifest, answer, temps, dir, disk, outages>>

\* Mutant: the temporary file is renamed over whatever has the final name.
Rename(r) ==
    /\ place[r] = "link"
    /\ dir' = [dir EXCEPT !.link[item[r]] = Current(r)]
    /\ GoTo(r, "unlink")
    /\ UNCHANGED <<item, kind, bars, manifest, answer, file, temps, disk, outages>>

\* os.link is exclusive: it fails when the final name is taken.
Link(r) ==
    /\ place[r] = "link"
    /\ \/ /\ dir.link[item[r]] = None
          /\ dir' = [dir EXCEPT !.link[item[r]] = Current(r)]
          /\ GoTo(r, "unlink")
       \/ /\ dir.link[item[r]] # None
          /\ GoTo(r, "give_up")
          /\ UNCHANGED dir
    /\ UNCHANGED <<item, kind, bars, manifest, answer, file, temps, disk, outages>>

\* The finally clause, with the link made, or with FileExistsError on its way
\* to the caller: ingest and demo then load what is there.
Unlink(r) ==
    /\ place[r] \in {"unlink", "give_up"}
    /\ temps' = temps \ {Current(r)}
    /\ GoTo(r, IF place[r] = "unlink" THEN "sync_dir" ELSE "load")
    /\ UNCHANGED <<item, kind, bars, manifest, answer, file, dir, disk, outages>>

\* After the data file comes its hash, after the manifest publish returns:
\* ingest ends, demo loads and verifies what it has published.
AfterSave(r) ==
    CASE item[r] = "data" -> "read_back"
      [] item[r] = "manifest" /\ kind[r] = "demo" -> "verify"
      [] OTHER -> "done"

\* Mutant: the directory is not synced.
SkipDirectory(r) ==
    /\ place[r] = "sync_dir"
    /\ GoTo(r, AfterSave(r))
    /\ UNCHANGED <<item, kind, bars, manifest, answer, file, temps, dir, disk,
                   outages>>

SyncDirectory(r) ==
    /\ place[r] = "sync_dir"
    /\ disk' = [disk EXCEPT !.link = dir.link]
    /\ GoTo(r, AfterSave(r))
    /\ UNCHANGED <<item, kind, bars, manifest, answer, file, temps, dir, outages>>

\* Reading a final name gives the bars of its file when all of it is there.
Content(name) ==
    IF dir.link[name] = None \/ file[dir.link[name]].state = "torn" THEN None
    ELSE file[dir.link[name]].bars

\* The manifest's hash is taken from the bytes that are under the final name.
ReadBack(r) ==
    /\ place[r] = "read_back"
    /\ manifest' = [manifest EXCEPT ![r] = Content("data")]
    /\ item' = [item EXCEPT ![r] = "manifest"]
    /\ GoTo(r, "open")
    /\ UNCHANGED <<kind, bars, answer, file, temps, dir, disk, outages>>

\* Mutant: a snapshot without a manifest is not an error.
LoadOptional(r) ==
    /\ place[r] = "load"
    /\ manifest' = [manifest EXCEPT ![r] = Content("manifest")]
    /\ GoTo(r, IF kind[r] = "ingest" THEN "done" ELSE "verify")
    /\ UNCHANGED <<item, kind, bars, answer, file, temps, dir, disk, outages>>

\* load_manifest: no directory, no manifest or a torn one is an error.
Load(r) ==
    /\ place[r] = "load"
    /\ manifest' = [manifest EXCEPT ![r] = Content("manifest")]
    /\ GoTo(r, CASE Content("manifest") = None -> "failed"
                 [] kind[r] = "ingest" -> "done"
                 [] OTHER -> "verify")
    /\ UNCHANGED <<item, kind, bars, answer, file, temps, dir, disk, outages>>

\* Mutant: the hash is not compared and a run is answered from its own bars.
AnswerUnverified(r) ==
    /\ place[r] = "verify"
    /\ answer' = [answer EXCEPT ![r] =
                      IF bars[r] = None THEN Content("data") ELSE bars[r]]
    /\ GoTo(r, "done")
    /\ UNCHANGED <<item, kind, bars, manifest, file, temps, dir, disk, outages>>

\* load_verified: the data file's hash must be the manifest's.
Verify(r) ==
    /\ place[r] = "verify"
    /\ IF Content("data") = manifest[r]
       THEN GoTo(r, "done") /\ answer' = [answer EXCEPT ![r] = Content("data")]
       ELSE GoTo(r, "failed") /\ UNCHANGED answer
    /\ UNCHANGED <<item, kind, bars, manifest, file, temps, dir, disk, outages>>

\* The process is killed: what the system has seen of it stays.
Crash(r) ==
    /\ place[r] \in Active
    /\ GoTo(r, "crashed")
    /\ UNCHANGED <<item, kind, bars, manifest, answer, file, temps, dir, disk,
                   outages>>

\* The power fails.  Unsynced bytes are lost, unsynced entries are there or
\* not, and so is a directory that no earlier failure has found on disk.
\* Temporaries have names that nobody reads or reuses: which of them survive
\* is immaterial, and they are left as they are.
Outage ==
    /\ outages < MaxOutages
    /\ outages' = outages + 1
    /\ place' = [r \in Runs |-> IF place[r] \in Active THEN "crashed" ELSE place[r]]
    /\ file' = [f \in Files |-> [file[f] EXCEPT !.state =
                                     IF @ = "synced" THEN @ ELSE "torn"]]
    /\ \/ /\ dir.made
          /\ \E link \in [Names -> Files \cup {None}] :
                /\ \A n \in Names : link[n] \in {disk.link[n], dir.link[n]}
                /\ dir' = [made |-> TRUE, link |-> link]
       \/ ~disk.made /\ dir' = NoDirectory
    /\ disk' = dir'
    /\ UNCHANGED <<item, kind, bars, manifest, answer, temps>>

Step(r) ==
    \/ Open(r) \/ Write(r) \/ Sync(r) \/ Link(r) \/ Unlink(r)
    \/ SyncDirectory(r) \/ ReadBack(r) \/ Load(r) \/ Verify(r)

Start(r) ==
    \/ StartLoading(r)
    \/ \E k \in {"ingest", "demo"}, b \in Bars : StartPublishing(r, k, b)

Next == Outage \/ \E r \in Runs : Start(r) \/ Step(r) \/ Crash(r)

Spec == Init /\ [][Next]_vars
-----------------------------------------------------------------------------
TypeOK ==
    /\ place \in [Runs -> Place] /\ item \in [Runs -> Names]
    /\ kind \in [Runs -> Kinds] /\ bars \in [Runs -> Bars \cup {None}]
    /\ manifest \in [Runs -> Bars \cup {None}]
    /\ answer \in [Runs -> Bars \cup {None}]
    /\ file \in [Files -> [bars : Bars \cup {None},
                           state : {"torn", "written", "synced"}]]
    /\ temps \subseteq Files
    /\ dir \in Directory /\ disk \in Directory
    /\ outages \in 0 .. MaxOutages
    /\ \A r \in Runs : place[r] = "verify" => manifest[r] \in Bars

\* Where there is a manifest there is the data file it describes, with all of
\* its bytes: the order data, sync, link, sync, manifest must hold under every
\* interleaving of publishers and for whatever a power failure leaves behind
\* (publish, publication.py:266-294).
ManifestImpliesData ==
    dir.link["manifest"] # None =>
        /\ Content("manifest") # None
        /\ Content("data") = Content("manifest")

\* load_verified never finds a mismatch in what the store itself has written:
\* whoever holds a manifest, published or loaded, finds the bars it describes,
\* whatever other publishers do meanwhile (publication.py:334-343).
VerifiedLoadsSucceed ==
    \A r \in Runs : place[r] = "verify" => Content("data") = manifest[r]

\* Once publish has returned, nothing that happens leaves half of its
\* snapshot: if the data file is there, so is the manifest
\* (save_manifest's and save_data_file's final syncs, snapshots.py:95, 145).
Returned(r) ==
    /\ item[r] = "manifest"
    /\ place[r] \in {"verify", "done"}
ReturnedIsWhole ==
    \A r \in Runs :
        Returned(r) /\ dir.link["data"] = <<r, "data">> =>
            dir.link["manifest"] = <<r, "manifest">>

\* The snapshot that readers see: published at once, never changed, and every
\* verified load returns exactly it.
Abstract == INSTANCE ImmutableSnapshot WITH
    stored <- Content("manifest"), answers <- answer
IsImmutable == Abstract!Spec

\* Documented (docs/runbooks/paper-trading-mvp.md:53, demo.py:183): a demo run
\* that meets a snapshot left by a previous run loads it.  Claimed only when no
\* other run is in progress.
ReplayReusesSnapshot ==
    [][\A r \in Runs :
          /\ place[r] = "load" /\ kind[r] = "demo"
          /\ \A s \in Runs \ {r} : place[s] \notin Active
          => place'[r] # "failed"]_vars
=============================================================================
