------------------------- MODULE SnapshotStoreProofs -------------------------
(***************************************************************************)
(* What holds of SnapshotStore for every set of runs and bars and any      *)
(* number of power failures.                                               *)
(***************************************************************************)
EXTENDS SnapshotStore, TLAPS

Data(r) == <<r, "data">>
Manifest(r) == <<r, "manifest">>

\* A final name leads to a file saved under it, and what is certain to be on
\* disk is what processes see, never something else.
DirectoryInv ==
    \A n \in Names : /\ dir.link[n] # None => \E r \in Runs : dir.link[n] = <<r, n>>
                     /\ disk.link[n] \in {None, dir.link[n]}

\* A linked file has all its bytes on disk, and its writer is past linking it.
LinkedInv(r) ==
    \A n \in Names : dir.link[n] = <<r, n>> =>
        /\ file[<<r, n>>].state = "synced" /\ file[<<r, n>>].bars \in Bars
        /\ item[r] = n => place[r] \notin {"idle", "open", "write", "sync", "link"}
        /\ n = "manifest" => item[r] = "manifest"

\* A manifest stands beside the data file of its writer, which is on disk.
PairInv(r) ==
    dir.link["manifest"] = Manifest(r) =>
        /\ dir.link["data"] = Data(r) /\ disk.link["data"] = Data(r)
        /\ file[Manifest(r)].bars = file[Data(r)].bars

\* What a run has behind it while it saves a file ...
SavingInv(r) ==
    place[r] \in Saving =>
        /\ bars[r] \in Bars
        /\ place[r] \notin {"open", "write"} => file[Current(r)].bars = Payload(r)
        /\ place[r] \notin {"open", "write", "sync"} =>
              file[Current(r)].state = "synced"
        /\ place[r] \in {"unlink", "sync_dir"} => dir.link[item[r]] = Current(r)
        /\ item[r] = "manifest" =>
              /\ place[r] # "give_up"
              /\ dir.link["data"] = Data(r) /\ disk.link["data"] = Data(r)
              /\ manifest[r] \in Bars /\ manifest[r] = file[Data(r)].bars

\* ... and at its other places.
PlaceInv(r) ==
    /\ place[r] \in {"idle", "read_back", "load"} => item[r] = "data"
    /\ place[r] = "read_back" =>
          bars[r] \in Bars /\ dir.link["data"] = Data(r) /\ disk.link["data"] = Data(r)
    /\ place[r] = "verify" =>
          /\ dir.link["manifest"] # None
          /\ manifest[r] = file[dir.link["manifest"]].bars

\* The manifest of a publication that has returned is on disk.
ReturnedInv(r) ==
    Returned(r) /\ dir.link["data"] = Data(r) =>
        dir.link["manifest"] = Manifest(r) /\ disk.link["manifest"] = Manifest(r)

RunInv(r) ==
    LinkedInv(r) /\ PairInv(r) /\ SavingInv(r) /\ PlaceInv(r) /\ ReturnedInv(r)

IndInv == TypeOK /\ DirectoryInv /\ \A r \in Runs : RunInv(r)
-----------------------------------------------------------------------------
\* What a step of r leaves alone: the other runs ...
OthersAlone(r) ==
    \A s \in Runs \ {r} :
        /\ place'[s] = place[s] /\ item'[s] = item[s] /\ bars'[s] = bars[s]
        /\ manifest'[s] = manifest[s]

\* ... their files, and every link there is with the file behind it.  A new
\* link leads to a file of r.
FilesAlone(r) ==
    /\ \A s \in Runs \ {r}, n \in Names : file'[<<s, n>>] = file[<<s, n>>]
    /\ \A n \in Names :
          /\ dir.link[n] # None => /\ dir'.link[n] = dir.link[n]
                                  /\ file'[dir.link[n]] = file[dir.link[n]]
          /\ dir'.link[n] # dir.link[n] => dir'.link[n] = <<r, n>>
          /\ disk'.link[n] \in {disk.link[n], dir.link[n]}

\* A local step keeps the directory in order ...
LEMMA DirectoryKept ==
    ASSUME IndInv, NEW r \in Runs, OthersAlone(r), FilesAlone(r)
    PROVE  DirectoryInv'
<1> SUFFICES ASSUME NEW n \in Names
             PROVE  /\ dir'.link[n] # None =>
                          \E s \in Runs : dir'.link[n] = <<s, n>>
                    /\ disk'.link[n] \in {None, dir'.link[n]}
  BY DEF DirectoryInv
<1> QED
  BY DEF IndInv, DirectoryInv, FilesAlone

\* ... and what is known of every other run.
LEMMA OthersKept ==
    ASSUME IndInv, NEW r \in Runs, OthersAlone(r), FilesAlone(r), NEW s \in Runs, s # r
    PROVE  RunInv(s)'
<1>1. LinkedInv(s) /\ PairInv(s) /\ SavingInv(s) /\ PlaceInv(s) /\ ReturnedInv(s)
  BY DEF IndInv, RunInv
<1>2. /\ place'[s] = place[s] /\ item'[s] = item[s] /\ bars'[s] = bars[s]
      /\ manifest'[s] = manifest[s]
  BY DEF OthersAlone
<1>3. \A n \in Names : file'[<<s, n>>] = file[<<s, n>>]
  BY DEF FilesAlone
<1>4. \A n \in Names : <<s, n>> # None /\ <<s, n>> # <<r, n>>
  BY StoreAssumption DEF Names
<1>5. \A n \in Names :
         /\ dir'.link[n] = <<s, n>> <=> dir.link[n] = <<s, n>>
         /\ dir.link[n] # None => dir'.link[n] = dir.link[n]
         /\ dir.link[n] = <<s, n>> /\ disk.link[n] = <<s, n>> =>
               disk'.link[n] = <<s, n>>
  BY <1>4 DEF FilesAlone
<1>6. LinkedInv(s)'
  BY <1>1, <1>2, <1>3, <1>5 DEF LinkedInv
<1>7. PairInv(s)'
  BY <1>1, <1>3, <1>5 DEF PairInv, Data, Manifest, Names
<1>8. SavingInv(s)'
  <2>1. item[s] \in Names
    BY DEF IndInv, TypeOK
  <2> QED
    BY <1>1, <1>2, <1>3, <1>5, <2>1 DEF SavingInv, Data, Current, Payload, Names
<1>9. PlaceInv(s)'
  <2>1. dir.link["manifest"] # None =>
           /\ dir'.link["manifest"] = dir.link["manifest"]
           /\ file'[dir.link["manifest"]] = file[dir.link["manifest"]]
    BY DEF FilesAlone, Names
  <2>2. dir.link["manifest"] # None => dir'.link["manifest"] # None
    BY <2>1
  <2> QED
    BY <1>1, <1>2, <1>5, <2>1, <2>2 DEF PlaceInv, Data, Names
<1>10. ReturnedInv(s)'
  BY <1>1, <1>2, <1>5 DEF ReturnedInv, Returned, Data, Manifest, Names
<1> QED
  BY <1>6, <1>7, <1>8, <1>9, <1>10 DEF RunInv

\* The file a run is saving is one of its own.
LEMMA CurrentFile ==
    ASSUME TypeOK, NEW r \in Runs
    PROVE  Current(r) \in Files /\ item[r] \in Names
  BY DEF TypeOK, Current, Files

\* What is read under a final name are some bars, or nothing.
LEMMA ContentType ==
    ASSUME TypeOK, DirectoryInv, NEW n \in Names
    PROVE  Content(n) \in Bars \cup {None}
<1>1. dir.link[n] = None \/ dir.link[n] \in Files
  BY DEF DirectoryInv, Files
<1> QED
  BY <1>1 DEF TypeOK, Content

\* Each step of a run keeps the types, leaves the other runs and their files
\* alone, and keeps what is known of the run.  Making the directory and the
\* temporary file:
LEMMA OpenKeeps ==
    ASSUME IndInv, NEW r \in Runs, Open(r)
    PROVE  TypeOK' /\ OthersAlone(r) /\ FilesAlone(r) /\ RunInv(r)'
<1> USE DEF IndInv, RunInv
<1>1. TypeOK'
  <2>1. place' \in [Runs -> Place]
    BY DEF TypeOK, Open, GoTo, Place, Active, Saving
  <2>2. temps' \subseteq Files
    BY CurrentFile DEF TypeOK, Open
  <2>3. dir' \in Directory
    BY CurrentFile DEF TypeOK, Open, Directory
  <2>4. \A s \in Runs : place'[s] = "verify" => manifest'[s] \in Bars
    BY DEF TypeOK, Open, GoTo
  <2> QED
    BY <2>1, <2>2, <2>3, <2>4 DEF TypeOK, Open
<1>2. /\ place[r] = "open" /\ place'[r] = "write"
      /\ bars' = bars /\ manifest' = manifest /\ item' = item
      /\ file' = file /\ disk' = disk /\ dir'.link = dir.link
  BY DEF Open, GoTo, TypeOK
<1>3. OthersAlone(r)
  BY DEF OthersAlone, Open, GoTo
<1>4. FilesAlone(r)
  BY <1>2 DEF FilesAlone
<1>5. LinkedInv(r)'
  BY <1>2 DEF LinkedInv
<1>6. PairInv(r)'
  BY <1>2 DEF PairInv
<1>7. SavingInv(r)'
  BY <1>2 DEF SavingInv, Saving
<1>8. PlaceInv(r)'
  BY <1>2 DEF PlaceInv
<1>9. ReturnedInv(r)'
  BY <1>2 DEF ReturnedInv, Returned
<1> QED
  BY <1>1, <1>3, <1>4, <1>5, <1>6, <1>7, <1>8, <1>9

\* Removing the temporary name, after the link or after FileExistsError.
LEMMA UnlinkKeeps ==
    ASSUME IndInv, NEW r \in Runs, Unlink(r)
    PROVE  TypeOK' /\ OthersAlone(r) /\ FilesAlone(r) /\ RunInv(r)'
<1> USE DEF IndInv, RunInv
<1>1. TypeOK'
  <2>1. place' \in [Runs -> Place]
    BY DEF TypeOK, Unlink, GoTo, Place, Active, Saving
  <2>2. temps' \subseteq Files
    BY CurrentFile DEF TypeOK, Unlink
  <2>3. \A s \in Runs : place'[s] = "verify" => manifest'[s] \in Bars
    BY DEF TypeOK, Unlink, GoTo
  <2> QED
    BY <2>1, <2>2, <2>3 DEF TypeOK, Unlink
<1>2. /\ \/ place[r] = "unlink" /\ place'[r] = "sync_dir"
         \/ place[r] = "give_up" /\ place'[r] = "load"
      /\ bars' = bars /\ manifest' = manifest /\ item' = item
      /\ file' = file /\ dir' = dir /\ disk' = disk
  BY DEF Unlink, GoTo, TypeOK
<1>3. OthersAlone(r)
  BY DEF OthersAlone, Unlink, GoTo
<1>4. FilesAlone(r)
  BY <1>2 DEF FilesAlone
<1>5. LinkedInv(r)'
  BY <1>2 DEF LinkedInv
<1>6. PairInv(r)'
  BY <1>2 DEF PairInv
<1>7. SavingInv(r)'
  BY <1>2 DEF SavingInv, Saving, Current, Payload
<1>8. PlaceInv(r)'
  BY <1>2 DEF TypeOK, SavingInv, PlaceInv, Saving, Names
<1>9. ReturnedInv(r)'
  BY <1>2 DEF ReturnedInv, Returned
<1> QED
  BY <1>1, <1>3, <1>4, <1>5, <1>6, <1>7, <1>8, <1>9

\* A run that is killed.
LEMMA CrashKeeps ==
    ASSUME IndInv, NEW r \in Runs, Crash(r)
    PROVE  TypeOK' /\ OthersAlone(r) /\ FilesAlone(r) /\ RunInv(r)'
<1> USE DEF IndInv, RunInv
<1>1. TypeOK'
  <2>1. place' \in [Runs -> Place]
    BY DEF TypeOK, Crash, GoTo, Place
  <2>2. \A s \in Runs : place'[s] = "verify" => manifest'[s] \in Bars
    BY DEF TypeOK, Crash, GoTo
  <2> QED
    BY <2>1, <2>2 DEF TypeOK, Crash
<1>2. /\ place[r] \in Active /\ place'[r] = "crashed"
      /\ bars' = bars /\ manifest' = manifest /\ item' = item
      /\ file' = file /\ dir' = dir /\ disk' = disk
  BY DEF Crash, GoTo, TypeOK
<1>3. OthersAlone(r)
  BY DEF OthersAlone, Crash, GoTo
<1>4. FilesAlone(r)
  BY <1>2 DEF FilesAlone
<1>5. LinkedInv(r)'
  BY <1>2 DEF LinkedInv
<1>6. PairInv(r)'
  BY <1>2 DEF PairInv
<1>7. SavingInv(r)'
  BY <1>2 DEF SavingInv, Saving
<1>8. PlaceInv(r)'
  BY <1>2 DEF PlaceInv
<1>9. ReturnedInv(r)'
  BY <1>2 DEF ReturnedInv, Returned
<1> QED
  BY <1>1, <1>3, <1>4, <1>5, <1>6, <1>7, <1>8, <1>9

\* load_verified.
LEMMA VerifyKeeps ==
    ASSUME IndInv, NEW r \in Runs, Verify(r)
    PROVE  TypeOK' /\ OthersAlone(r) /\ FilesAlone(r) /\ RunInv(r)'
<1> USE DEF IndInv, RunInv
<1>1. TypeOK'
  <2>1. place' \in [Runs -> Place]
    BY DEF TypeOK, Verify, GoTo, Place
  <2>2. \A s \in Runs : place'[s] = "verify" => manifest'[s] \in Bars
    BY DEF TypeOK, Verify, GoTo
  <2>3. answer' \in [Runs -> Bars \cup {None}]
    BY DEF TypeOK, Verify
  <2> QED
    BY <2>1, <2>2, <2>3 DEF TypeOK, Verify
<1>2. /\ place[r] = "verify" /\ place'[r] \in {"done", "failed"}
      /\ bars' = bars /\ manifest' = manifest /\ item' = item
      /\ file' = file /\ dir' = dir /\ disk' = disk
  BY DEF Verify, GoTo, TypeOK
<1>3. OthersAlone(r)
  BY DEF OthersAlone, Verify, GoTo, TypeOK
<1>4. FilesAlone(r)
  BY <1>2 DEF FilesAlone
<1>5. LinkedInv(r)'
  BY <1>2 DEF LinkedInv
<1>6. PairInv(r)'
  BY <1>2 DEF PairInv
<1>7. SavingInv(r)'
  BY <1>2 DEF SavingInv, Saving
<1>8. PlaceInv(r)'
  BY <1>2 DEF PlaceInv
<1>9. ReturnedInv(r)'
  BY <1>2 DEF ReturnedInv, Returned
<1> QED
  BY <1>1, <1>3, <1>4, <1>5, <1>6, <1>7, <1>8, <1>9

\* load_manifest.
LEMMA LoadKeeps ==
    ASSUME IndInv, NEW r \in Runs, Load(r)
    PROVE  TypeOK' /\ OthersAlone(r) /\ FilesAlone(r) /\ RunInv(r)'
<1> USE DEF IndInv, RunInv
<1>1. TypeOK'
  <2>1. Content("manifest") \in Bars \cup {None}
    BY ContentType DEF Names
  <2>2. place' \in [Runs -> Place]
    BY DEF TypeOK, Load, GoTo, Place, Active
  <2>3. manifest' \in [Runs -> Bars \cup {None}]
    BY <2>1 DEF TypeOK, Load
  <2>4. \A s \in Runs : place'[s] = "verify" => manifest'[s] \in Bars
    BY <2>1 DEF TypeOK, Load, GoTo
  <2> QED
    BY <2>1, <2>2, <2>3, <2>4 DEF TypeOK, Load
<1>2. /\ place[r] = "load" /\ place'[r] \in {"failed", "done", "verify"}
      /\ bars' = bars /\ item' = item
      /\ file' = file /\ dir' = dir /\ disk' = disk
      /\ place'[r] = "verify" => manifest'[r] = Content("manifest") /\ Content("manifest") # None
  BY DEF Load, GoTo, TypeOK
<1>3. OthersAlone(r)
  BY DEF OthersAlone, Load, GoTo
<1>4. FilesAlone(r)
  BY <1>2 DEF FilesAlone
<1>5. LinkedInv(r)'
  BY <1>2 DEF LinkedInv
<1>6. PairInv(r)'
  BY <1>2 DEF PairInv
<1>7. SavingInv(r)'
  BY <1>2 DEF SavingInv, Saving
<1>8. PlaceInv(r)'
  BY <1>2 DEF PlaceInv, Content
<1>9. ReturnedInv(r)'
  BY <1>2 DEF PlaceInv, ReturnedInv, Returned
<1> QED
  BY <1>1, <1>3, <1>4, <1>5, <1>6, <1>7, <1>8, <1>9

\* A file that is not yet saved has no final name.
LEMMA UnsavedIsUnlinked ==
    ASSUME IndInv, NEW r \in Runs, place[r] \in {"write", "sync"}
    PROVE  /\ \A n \in Names : dir.link[n] # Current(r)
           /\ \A n \in Names : dir.link[n] # None => dir.link[n] \in Files
<1>1. ASSUME NEW n \in Names PROVE dir.link[n] # Current(r)
  <2>1. CASE n = item[r]
    BY <2>1 DEF IndInv, RunInv, LinkedInv, Current
  <2>2. CASE n # item[r]
    BY <2>2, CurrentFile, StoreAssumption DEF IndInv, DirectoryInv, Current,
       Files, Names
  <2> QED
    BY <2>1, <2>2
<1> QED
  BY <1>1 DEF IndInv, DirectoryInv, Files

\* Writing the bytes.
LEMMA WriteKeeps ==
    ASSUME IndInv, NEW r \in Runs, Write(r)
    PROVE  TypeOK' /\ OthersAlone(r) /\ FilesAlone(r) /\ RunInv(r)'
<1> USE DEF IndInv, RunInv
<1>1. TypeOK'
  <2>1. place' \in [Runs -> Place]
    BY DEF TypeOK, Write, GoTo, Place, Active, Saving
  <2>2. \A s \in Runs : place'[s] = "verify" => manifest'[s] \in Bars
    BY DEF TypeOK, Write, GoTo
  <2>3. file' \in [Files -> [bars : Bars \cup {None},
                             state : {"torn", "written", "synced"}]]
    BY CurrentFile DEF TypeOK, Write, Payload
  <2> QED
    BY <2>1, <2>2, <2>3 DEF TypeOK, Write
<1>2. /\ place[r] = "write" /\ place'[r] = "sync"
      /\ bars' = bars /\ manifest' = manifest /\ item' = item
      /\ dir' = dir /\ disk' = disk
      /\ file' = [file EXCEPT ![Current(r)] = 
                    [bars |-> Payload(r), state |-> "written"]]
      /\ file'[Current(r)].bars = Payload(r)
      /\ \A f \in Files : f # Current(r) => file'[f] = file[f]
  BY CurrentFile DEF Write, GoTo, TypeOK
<1>3. OthersAlone(r)
  BY DEF OthersAlone, Write, GoTo
<1>4. FilesAlone(r)
  BY <1>2, UnsavedIsUnlinked DEF FilesAlone, Current
<1>5. LinkedInv(r)'
  <2>1. \A n \in Names : dir.link[n] = <<r, n>> => n # item[r] /\ file'[<<r, n>>] = file[<<r, n>>]
    BY <1>2, UnsavedIsUnlinked DEF Current, Files
  <2> QED
    BY <1>2, <2>1 DEF LinkedInv
<1>6. PairInv(r)'
  BY <1>2 DEF LinkedInv, PairInv, Manifest, Names
<1>7. SavingInv(r)'
  <2>1. item[r] = "manifest" => file'[Data(r)] = file[Data(r)]
    BY <1>2 DEF Current, Data
  <2>2. item[r] \in Names
    BY DEF TypeOK
  <2> QED
    BY <1>2, <2>1, <2>2 DEF SavingInv, Saving, Current, Payload
<1>8. PlaceInv(r)'
  BY <1>2 DEF PlaceInv
<1>9. ReturnedInv(r)'
  BY <1>2 DEF ReturnedInv, Returned
<1> QED
  BY <1>1, <1>3, <1>4, <1>5, <1>6, <1>7, <1>8, <1>9

\* Syncing them.
LEMMA SyncKeeps ==
    ASSUME IndInv, NEW r \in Runs, Sync(r)
    PROVE  TypeOK' /\ OthersAlone(r) /\ FilesAlone(r) /\ RunInv(r)'
<1> USE DEF IndInv, RunInv
<1>1. TypeOK'
  <2>1. place' \in [Runs -> Place]
    BY DEF TypeOK, Sync, GoTo, Place, Active, Saving
  <2>2. \A s \in Runs : place'[s] = "verify" => manifest'[s] \in Bars
    BY DEF TypeOK, Sync, GoTo
  <2>3. file' \in [Files -> [bars : Bars \cup {None},
                             state : {"torn", "written", "synced"}]]
    BY CurrentFile DEF TypeOK, Sync
  <2> QED
    BY <2>1, <2>2, <2>3 DEF TypeOK, Sync
<1>2. /\ place[r] = "sync" /\ place'[r] = "link"
      /\ bars' = bars /\ manifest' = manifest /\ item' = item
      /\ dir' = dir /\ disk' = disk
      /\ file'[Current(r)].bars = file[Current(r)].bars
      /\ file'[Current(r)].state = "synced"
      /\ \A f \in Files : f # Current(r) => file'[f] = file[f]
  BY CurrentFile DEF Sync, GoTo, TypeOK
<1>3. OthersAlone(r)
  BY DEF OthersAlone, Sync, GoTo
<1>4. FilesAlone(r)
  BY <1>2, UnsavedIsUnlinked DEF FilesAlone, Current, Files
<1>5. LinkedInv(r)'
  <2>1. \A n \in Names : dir.link[n] = <<r, n>> => n # item[r] /\ file'[<<r, n>>] = file[<<r, n>>]
    BY <1>2, UnsavedIsUnlinked DEF Current, Files
  <2> QED
    BY <1>2, <2>1 DEF LinkedInv
<1>6. PairInv(r)'
  BY <1>2 DEF LinkedInv, PairInv, Manifest, Names
<1>7. SavingInv(r)'
  <2>1. item[r] = "manifest" => file'[Data(r)] = file[Data(r)]
    BY <1>2 DEF Current, Data, Files, Names
  <2>2. item[r] \in Names
    BY DEF TypeOK
  <2> QED
    BY <1>2, <2>1, <2>2 DEF SavingInv, Saving, Current, Payload
<1>8. PlaceInv(r)'
  BY <1>2 DEF PlaceInv
<1>9. ReturnedInv(r)'
  BY <1>2 DEF ReturnedInv, Returned
<1> QED
  BY <1>1, <1>3, <1>4, <1>5, <1>6, <1>7, <1>8, <1>9

\* The exclusive link.  No run finds the manifest's name taken: whoever linked
\* that manifest would have linked the data file that this run has linked.
LEMMA LinkKeeps ==
    ASSUME IndInv, NEW r \in Runs, Link(r)
    PROVE  TypeOK' /\ OthersAlone(r) /\ FilesAlone(r) /\ RunInv(r)'
<1> USE DEF IndInv, RunInv
<1>0. item[r] = "manifest" => dir.link["manifest"] = None
  <2> SUFFICES ASSUME item[r] = "manifest", dir.link["manifest"] # None PROVE FALSE
    OBVIOUS
  <2>1. PICK s \in Runs : dir.link["manifest"] = Manifest(s)
    BY DEF DirectoryInv, Names, Manifest
  <2>2. dir.link["data"] = Data(s) /\ dir.link["data"] = Data(r)
    BY <2>1 DEF PairInv, SavingInv, Saving, Link
  <2> QED
    BY <2>1, <2>2 DEF LinkedInv, Link, Names, Data, Manifest
<1>1. TypeOK'
  <2>1. place' \in [Runs -> Place]
    BY DEF TypeOK, Link, GoTo, Place, Active, Saving
  <2>2. dir' \in Directory
    BY CurrentFile DEF TypeOK, Link, Directory, Names
  <2>3. \A s \in Runs : place'[s] = "verify" => manifest'[s] \in Bars
    BY DEF TypeOK, Link, GoTo
  <2> QED
    BY <2>1, <2>2, <2>3 DEF TypeOK, Link
<1>2. /\ place[r] = "link" /\ item[r] \in Names /\ <<r, "data">> # None
      /\ bars' = bars /\ manifest' = manifest /\ item' = item
      /\ file' = file /\ disk' = disk
      /\ \/ /\ dir.link[item[r]] = None /\ place'[r] = "unlink"
            /\ dir'.link[item[r]] = Current(r)
            /\ \A n \in Names : n # item[r] => dir'.link[n] = dir.link[n]
         \/ dir.link[item[r]] # None /\ place'[r] = "give_up" /\ dir' = dir
  BY StoreAssumption DEF Link, GoTo, TypeOK, Directory
<1>3. OthersAlone(r)
  BY DEF OthersAlone, Link, GoTo, TypeOK
<1>4. FilesAlone(r)
  BY <1>2 DEF FilesAlone, Current
<1>5. LinkedInv(r)'
  <2>1. file[Current(r)].state = "synced" /\ file[Current(r)].bars \in Bars
    BY <1>2 DEF SavingInv, Saving, Payload, Names
  <2> QED
    BY <1>2, <2>1 DEF LinkedInv, Current
<1>6. PairInv(r)'
  BY <1>2 DEF PairInv, SavingInv, Saving, Payload, Data, Names
<1>7. SavingInv(r)'
  BY <1>0, <1>2 DEF SavingInv, Saving, Current, Payload, Names
<1>8. PlaceInv(r)'
  BY <1>2 DEF PlaceInv
<1>9. ReturnedInv(r)'
  BY <1>2 DEF Returned, ReturnedInv
<1> QED
  BY <1>1, <1>3, <1>4, <1>5, <1>6, <1>7, <1>8, <1>9

\* Syncing the directory: what was linked is now certain to be on disk.
LEMMA SyncDirectoryKeeps ==
    ASSUME IndInv, NEW r \in Runs, SyncDirectory(r)
    PROVE  TypeOK' /\ OthersAlone(r) /\ FilesAlone(r) /\ RunInv(r)'
<1> USE DEF IndInv, RunInv
<1>1. TypeOK'
  <2>1. place' \in [Runs -> Place]
    BY DEF TypeOK, SyncDirectory, GoTo, AfterSave, Place, Active
  <2>2. disk' \in Directory
    BY DEF TypeOK, SyncDirectory, Directory
  <2>3. \A s \in Runs : place'[s] = "verify" => manifest'[s] \in Bars
    BY DEF TypeOK, SyncDirectory, GoTo, AfterSave, SavingInv, Saving
  <2> QED
    BY <2>1, <2>2, <2>3 DEF TypeOK, SyncDirectory
<1>2. /\ place[r] = "sync_dir" /\ item[r] \in Names
      /\ bars' = bars /\ manifest' = manifest /\ item' = item
      /\ file' = file /\ dir' = dir /\ disk'.link = dir.link
      /\ item[r] = "data" => place'[r] = "read_back"
      /\ item[r] = "manifest" => place'[r] \in {"verify", "done"}
  BY DEF SyncDirectory, GoTo, TypeOK, AfterSave
<1>3. OthersAlone(r)
  BY DEF OthersAlone, SyncDirectory, GoTo
<1>4. FilesAlone(r)
  BY <1>2 DEF FilesAlone
<1>5. LinkedInv(r)'
  BY <1>2 DEF LinkedInv, Names
<1>6. PairInv(r)'
  BY <1>2 DEF PairInv
<1>7. SavingInv(r)'
  BY <1>2 DEF Saving, SavingInv, Names
<1>8. PlaceInv(r)'
  <2>1. CASE item[r] = "data"
    <3>1. place'[r] = "read_back" /\ item'[r] = "data"
      BY <1>2, <2>1
    <3>2. bars[r] \in Bars /\ dir.link["data"] = Data(r)
      BY <1>2, <2>1 DEF SavingInv, Saving, Current, Data
    <3> QED
      BY <1>2, <3>1, <3>2 DEF PlaceInv, Data
  <2>2. CASE item[r] = "manifest"
    <3>1. place'[r] \in {"verify", "done"} /\ Current(r) # None
      BY <1>2, <2>2, CurrentFile, StoreAssumption DEF Files, Names
    <3>2. dir.link["manifest"] = Current(r) /\ manifest[r] = file[Current(r)].bars
      BY <1>2, <2>2 DEF SavingInv, Saving, Payload
    <3> QED
      BY <1>2, <3>1, <3>2 DEF PlaceInv
  <2> QED
    BY <1>2, <2>1, <2>2 DEF Names
<1>9. ReturnedInv(r)'
  BY <1>2 DEF ReturnedInv, Returned, SavingInv, Saving, Current, Manifest
<1> QED
  BY <1>1, <1>3, <1>4, <1>5, <1>6, <1>7, <1>8, <1>9

\* Taking the hash of the data file, which is the run's own.
LEMMA ReadBackKeeps ==
    ASSUME IndInv, NEW r \in Runs, ReadBack(r)
    PROVE  TypeOK' /\ OthersAlone(r) /\ FilesAlone(r) /\ RunInv(r)'
<1> USE DEF IndInv, RunInv
<1>0. manifest'[r] = file[Data(r)].bars /\ file[Data(r)].bars \in Bars /\ item[r] = "data"
  <2>1. dir.link["data"] = Data(r) /\ item[r] = "data"
    BY DEF PlaceInv, ReadBack
  <2>2. file[Data(r)].state = "synced" /\ file[Data(r)].bars \in Bars
    BY <2>1 DEF LinkedInv, Data, Names
  <2>3. Content("data") = file[Data(r)].bars
    BY <2>1, <2>2, StoreAssumption DEF Content, Data
  <2> QED
    BY <2>1, <2>2, <2>3 DEF ReadBack, TypeOK
<1>1. TypeOK'
  <2>1. place' \in [Runs -> Place]
    BY DEF TypeOK, ReadBack, GoTo, Place, Active, Saving
  <2>2. Content("data") \in Bars \cup {None}
    BY ContentType DEF Names
  <2>3. manifest' \in [Runs -> Bars \cup {None}]
    BY <2>2 DEF TypeOK, ReadBack
  <2>4. item' \in [Runs -> Names]
    BY DEF TypeOK, ReadBack, Names
  <2>5. \A s \in Runs : place'[s] = "verify" => manifest'[s] \in Bars
    BY DEF TypeOK, ReadBack, GoTo
  <2> QED
    BY <2>1, <2>2, <2>3, <2>4, <2>5 DEF TypeOK, ReadBack
<1>2. /\ place[r] = "read_back" /\ place'[r] = "open" /\ item'[r] = "manifest" /\ bars' = bars
      /\ file' = file /\ dir' = dir /\ disk' = disk
  BY DEF ReadBack, GoTo, TypeOK
<1>3. OthersAlone(r)
  BY DEF OthersAlone, ReadBack, GoTo
<1>4. FilesAlone(r)
  BY <1>2 DEF FilesAlone
<1>5. LinkedInv(r)'
  BY <1>0, <1>2 DEF LinkedInv, Names
<1>6. PairInv(r)'
  BY <1>2 DEF PairInv
<1>7. SavingInv(r)'
  BY <1>0, <1>2 DEF SavingInv, PlaceInv
<1>8. PlaceInv(r)'
  BY <1>2 DEF PlaceInv
<1>9. ReturnedInv(r)'
  BY <1>2 DEF Returned, ReturnedInv
<1> QED
  BY <1>1, <1>3, <1>4, <1>5, <1>6, <1>7, <1>8, <1>9

\* The start of a publication, refused or not.
LEMMA StartPublishingKeeps ==
    ASSUME IndInv, NEW r \in Runs, NEW k \in {"ingest", "demo"}, NEW b \in Bars,
           StartPublishing(r, k, b)
    PROVE  TypeOK' /\ OthersAlone(r) /\ FilesAlone(r) /\ RunInv(r)'
<1> USE DEF IndInv, RunInv
<1>1. TypeOK'
  <2>1. place' \in [Runs -> Place]
    BY DEF TypeOK, StartPublishing, GoTo, Place, Active, Saving
  <2>2. kind' \in [Runs -> Kinds]
    BY DEF TypeOK, StartPublishing, Kinds
  <2>3. bars' \in [Runs -> Bars \cup {None}]
    BY DEF TypeOK, StartPublishing
  <2>4. \A s \in Runs : place'[s] = "verify" => manifest'[s] \in Bars
    BY DEF TypeOK, StartPublishing, GoTo
  <2> QED
    BY <2>1, <2>2, <2>3, <2>4 DEF TypeOK, StartPublishing
<1>2. /\ place[r] = "idle" /\ place'[r] \in {"failed", "open"}
      /\ bars'[r] \in Bars /\ manifest' = manifest /\ item' = item
      /\ file' = file /\ dir' = dir /\ disk' = disk
  BY DEF StartPublishing, GoTo, TypeOK
<1>3. OthersAlone(r)
  BY DEF OthersAlone, StartPublishing, GoTo
<1>4. FilesAlone(r)
  BY <1>2 DEF FilesAlone
<1>5. LinkedInv(r)'
  BY <1>2 DEF LinkedInv
<1>6. PairInv(r)'
  BY <1>2 DEF PairInv
<1>7. SavingInv(r)'
  BY <1>2 DEF SavingInv, PlaceInv, Saving
<1>8. PlaceInv(r)'
  BY <1>2 DEF PlaceInv
<1>9. ReturnedInv(r)'
  BY <1>2 DEF ReturnedInv, Returned
<1> QED
  BY <1>1, <1>3, <1>4, <1>5, <1>6, <1>7, <1>8, <1>9

\* The start of a load.
LEMMA StartLoadingKeeps ==
    ASSUME IndInv, NEW r \in Runs, StartLoading(r)
    PROVE  TypeOK' /\ OthersAlone(r) /\ FilesAlone(r) /\ RunInv(r)'
<1> USE DEF IndInv, RunInv
<1>1. TypeOK'
  <2>1. place' \in [Runs -> Place]
    BY DEF TypeOK, StartLoading, GoTo, Place, Active
  <2>2. \A s \in Runs : place'[s] = "verify" => manifest'[s] \in Bars
    BY DEF TypeOK, StartLoading, GoTo
  <2> QED
    BY <2>1, <2>2 DEF TypeOK, StartLoading
<1>2. /\ place[r] = "idle" /\ place'[r] = "load"
      /\ bars' = bars /\ manifest' = manifest /\ item' = item
      /\ file' = file /\ dir' = dir /\ disk' = disk
  BY DEF StartLoading, GoTo, TypeOK
<1>3. OthersAlone(r)
  BY DEF OthersAlone, StartLoading, GoTo
<1>4. FilesAlone(r)
  BY <1>2 DEF FilesAlone
<1>5. LinkedInv(r)'
  BY <1>2 DEF LinkedInv
<1>6. PairInv(r)'
  BY <1>2 DEF PairInv
<1>7. SavingInv(r)'
  BY <1>2 DEF SavingInv, Saving
<1>8. PlaceInv(r)'
  BY <1>2 DEF PlaceInv
<1>9. ReturnedInv(r)'
  BY <1>2 DEF ReturnedInv, Returned
<1> QED
  BY <1>1, <1>3, <1>4, <1>5, <1>6, <1>7, <1>8, <1>9

-----------------------------------------------------------------------------
\* A power failure leaves links that were there, and of a pair of files that
\* are both on disk both links.
LEMMA OutageKeeps ==
    ASSUME IndInv, Outage
    PROVE  IndInv'
<1> USE DEF IndInv, RunInv
<1>1. dir' \in Directory /\ disk' = dir'
  <2>1. ASSUME NEW link \in [Names -> Files \cup {None}]
        PROVE  [made |-> TRUE, link |-> link] \in Directory
    BY DEF Directory
  <2>2. NoDirectory \in Directory
    BY DEF NoDirectory, Directory
  <2> QED
    BY <2>1, <2>2 DEF Outage
<1>2. \A n \in Names : /\ dir'.link[n] \in {None, dir.link[n]}
                       /\ dir.link[n] = disk.link[n] /\ dir'.made =>
                             dir'.link[n] = dir.link[n]
                       /\ ~dir'.made => dir'.link[n] = None
  BY DEF Outage, NoDirectory, DirectoryInv
<1>3. \A r \in Runs : place'[r] = IF place[r] \in Active THEN "crashed" ELSE place[r]
  BY DEF Outage
<1>4. \A f \in Files : /\ file'[f].bars = file[f].bars
                       /\ file[f].state = "synced" => file'[f].state = "synced"
  BY DEF Outage, TypeOK
<1>5. TypeOK'
  <2>1. place' \in [Runs -> Place]
    BY DEF Outage, TypeOK, Place
  <2>2. file' \in [Files -> [bars : Bars \cup {None},
                          state : {"torn", "written", "synced"}]]
    BY DEF Outage, TypeOK
  <2>3. outages' \in 0 .. MaxOutages
    BY StoreAssumption DEF Outage, TypeOK
  <2>4. \A r \in Runs : place'[r] # "verify"
    BY <1>3 DEF Active
  <2> QED
    BY <1>1, <2>1, <2>2, <2>3, <2>4 DEF TypeOK, Outage
<1>6. DirectoryInv'
  BY <1>1, <1>2 DEF DirectoryInv
<1>7. ASSUME NEW r \in Runs PROVE RunInv(r)'
  <2>1. Data(r) \in Files /\ Manifest(r) \in Files /\ Data(r) # None /\ Manifest(r) # None
    BY StoreAssumption DEF Data, Manifest, Files, Names
  <2>2. \A n \in Names : <<r, n>> \in Files /\ <<r, n>> # None
    BY <2>1 DEF Data, Manifest, Names
  <2>3. item' = item /\ manifest' = manifest /\ bars' = bars
    BY DEF Outage
  <2>4. place'[r] \notin Active /\ (place'[r] # "crashed" => place'[r] = place[r])
    BY <1>3 DEF Active, Saving
  <2>5. LinkedInv(r)'
    BY <1>2, <1>3, <1>4, <2>2, <2>3 DEF LinkedInv
  <2>6. PairInv(r)'
    BY <1>1, <1>2, <1>4, <2>1 DEF PairInv, Names
  <2>7. SavingInv(r)'
    BY <2>4 DEF SavingInv, Active
  <2>8. PlaceInv(r)'
    BY <2>3, <2>4 DEF PlaceInv, Active
  <2>9. ReturnedInv(r)'
    BY <1>1, <1>2, <2>1, <2>3, <2>4 DEF ReturnedInv, Returned, Names
  <2> QED
    BY <2>5, <2>6, <2>7, <2>8, <2>9
<1> QED
  BY <1>5, <1>6, <1>7

\* The invariant holds initially.
LEMMA Initially == Init => IndInv
<1> SUFFICES ASSUME Init PROVE IndInv
  OBVIOUS
<1>1. TypeOK
  BY StoreAssumption DEF Init, TypeOK, Place, Kinds, Names, Directory,
     NoDirectory
<1>2. DirectoryInv
  BY DEF Init, DirectoryInv, NoDirectory
<1>3. ASSUME NEW r \in Runs PROVE RunInv(r)
  <2>1. \A n \in Names : <<r, n>> # None
    BY StoreAssumption DEF Names
  <2> QED
    BY <2>1 DEF Init, NoDirectory, RunInv, LinkedInv, PairInv, SavingInv,
       PlaceInv, ReturnedInv, Saving, Data, Manifest, Names
<1> QED
  BY <1>1, <1>2, <1>3 DEF IndInv

\* IndInv is inductive.
LEMMA Inductive == IndInv /\ [Next]_vars => IndInv'
<1> SUFFICES ASSUME IndInv, [Next]_vars PROVE IndInv'
  OBVIOUS
<1>1. CASE Outage
  BY <1>1, OutageKeeps
<1>2. ASSUME NEW r \in Runs, Start(r) \/ Step(r) \/ Crash(r) PROVE IndInv'
  <2>1. TypeOK' /\ OthersAlone(r) /\ FilesAlone(r) /\ RunInv(r)'
    <3>1. CASE Start(r)
      BY <3>1, StartPublishingKeeps, StartLoadingKeeps DEF Start
    <3>2. CASE Step(r)
      BY <3>2, OpenKeeps, WriteKeeps, SyncKeeps, LinkKeeps, UnlinkKeeps,
         SyncDirectoryKeeps, ReadBackKeeps, LoadKeeps, VerifyKeeps DEF Step
    <3>3. CASE Crash(r)
      BY <3>3, CrashKeeps
    <3> QED
      BY <1>2, <3>1, <3>2, <3>3
  <2>2. DirectoryInv'
    BY <2>1, DirectoryKept
  <2>3. ASSUME NEW s \in Runs PROVE RunInv(s)'
    BY <2>1, OthersKept
  <2> QED
    BY <2>1, <2>2, <2>3 DEF IndInv
<1>3. CASE UNCHANGED vars
  BY <1>3 DEF vars, runVars, IndInv, TypeOK, DirectoryInv, RunInv, LinkedInv,
     PairInv, SavingInv, PlaceInv, ReturnedInv, Returned, Current, Payload
<1> QED
  BY <1>1, <1>2, <1>3 DEF Next

\* The strengthened invariant holds of every reachable state.
THEOREM Invariance == Spec => []IndInv
<1>1. Init => IndInv
  BY Initially
<1>2. IndInv /\ [Next]_vars => IndInv'
  BY Inductive
<1> QED
  BY <1>1, <1>2, PTL DEF Spec

\* Type correctness.
THEOREM TypeCorrect == Spec => []TypeOK
<1>1. IndInv => TypeOK
  BY DEF IndInv
<1> QED
  BY <1>1, Invariance, PTL

\* A visible manifest comes from a run both of whose files are linked.
LEMMA Backed ==
    ASSUME IndInv, dir.link["manifest"] # None
    PROVE  /\ Content("manifest") = file[dir.link["manifest"]].bars
           /\ Content("manifest") \in Bars /\ Content("data") = Content("manifest")
<1>1. PICK r \in Runs : dir.link["manifest"] = Manifest(r)
  BY DEF IndInv, DirectoryInv, Names, Manifest
<1>2. LinkedInv(r) /\ PairInv(r)
  BY DEF IndInv, RunInv
<1>3. dir.link["data"] = Data(r) /\ file[Manifest(r)].bars = file[Data(r)].bars
  BY <1>1, <1>2 DEF PairInv
<1>4. /\ file[Manifest(r)].state = "synced" /\ file[Manifest(r)].bars \in Bars
      /\ file[Data(r)].state = "synced"
  BY <1>1, <1>2, <1>3 DEF LinkedInv, Data, Manifest, Names
<1>5. Data(r) # None
  BY StoreAssumption DEF Data
<1> QED
  BY <1>1, <1>3, <1>4, <1>5 DEF Content

\* Whatever interleaves or fails, a manifest stands beside its data file.
THEOREM ManifestIsBacked == Spec => []ManifestImpliesData
<1>1. IndInv => ManifestImpliesData
  BY Backed, StoreAssumption DEF ManifestImpliesData
<1> QED
  BY <1>1, Invariance, PTL

\* A run that holds a manifest finds the bars it describes.
THEOREM LoadsVerify == Spec => []VerifiedLoadsSucceed
<1>1. IndInv => VerifiedLoadsSucceed
  BY Backed DEF VerifiedLoadsSucceed, IndInv, RunInv, PlaceInv
<1> QED
  BY <1>1, Invariance, PTL

\* A publication that has returned is there as a whole or not at all.
THEOREM PublicationIsWhole == Spec => []ReturnedIsWhole
<1>1. IndInv => ReturnedIsWhole
  BY DEF ReturnedIsWhole, IndInv, RunInv, ReturnedInv, Data, Manifest
<1> QED
  BY <1>1, Invariance, PTL

\* Every step publishes, takes the snapshot away, answers with it, or is none
\* of the abstract store's business.
LEMMA StepRefines ==
    ASSUME IndInv, IndInv', [Next]_vars
    PROVE  [Abstract!Next]_<<Content("manifest"), answer>>
<1> DEFINE stored == Content("manifest")
           now == dir.link["manifest"]
<1>1. stored' \in Bars \cup {None}
  <2>1. dir'.link["manifest"] # None =>
           \E r \in Runs : dir'.link["manifest"] = <<r, "manifest">>
    BY DEF IndInv, DirectoryInv, Names
  <2>2. dir'.link["manifest"] = None \/ dir'.link["manifest"] \in Files
    BY <2>1 DEF Files, Names
  <2> QED
    BY <2>2 DEF IndInv, TypeOK, Content
<1>2. now = None => stored = None
  BY DEF Content
<1>3. now # None => now \in Files /\ file[now].state = "synced"
  <2>1. now # None => \E r \in Runs : now = <<r, "manifest">>
    BY DEF IndInv, DirectoryInv, Names
  <2>2. \A r \in Runs : now = <<r, "manifest">> => file[now].state = "synced"
    BY DEF IndInv, RunInv, LinkedInv, Names
  <2> QED
    BY <2>1, <2>2 DEF Files, Names
<1>4. CASE Outage
  <2>1. answer' = answer
    BY <1>4 DEF Outage
  <2>2. dir'.link["manifest"] \in {None, now}
    BY <1>4 DEF Outage, NoDirectory, IndInv, DirectoryInv, Names
  <2>3. now # None => file'[now] = file[now]
    BY <1>3, <1>4 DEF Outage, IndInv, TypeOK
  <2>4. stored' = None \/ stored' = stored
    BY <2>2, <2>3 DEF Content
  <2> QED
    BY <2>1, <2>4 DEF Abstract!Next, Abstract!Lose
<1>5. ASSUME NEW r \in Runs, Start(r) \/ Step(r) \/ Crash(r)
      PROVE  [Abstract!Next]_<<stored, answer>>
  <2>1. FilesAlone(r)
    BY <1>5, StartPublishingKeeps, StartLoadingKeeps, OpenKeeps, WriteKeeps,
       SyncKeeps,
       LinkKeeps, UnlinkKeeps, SyncDirectoryKeeps, ReadBackKeeps, LoadKeeps,
       VerifyKeeps, CrashKeeps DEF Start, Step
  <2>2. now # None => dir'.link["manifest"] = now /\ file'[now] = file[now]
    BY <2>1 DEF FilesAlone, Names
  <2>3. stored' = stored \/ (stored = None /\ stored' \in Bars)
    BY <1>1, <1>2, <2>2 DEF Content
  <2>4. CASE Verify(r)
    <3>1. dir' = dir /\ file' = file /\ place[r] = "verify"
      BY <2>4 DEF Verify
    <3>2. stored' = stored
      BY <3>1 DEF Content
    <3>3. stored # None /\ Content("data") = stored
      BY <3>1, Backed, StoreAssumption DEF IndInv, RunInv, PlaceInv
    <3>4. answer' = [answer EXCEPT ![r] = stored] \/ answer' = answer
      BY <2>4, <3>3 DEF Verify
    <3> QED
      BY <3>2, <3>3, <3>4 DEF Abstract!Next, Abstract!Answer
  <2>5. CASE ~Verify(r)
    <3>1. answer' = answer
      BY <1>5, <2>5 DEF Start, StartPublishing, StartLoading, Step, Open, Write,
         Sync, Link, Unlink, SyncDirectory, ReadBack, Load, Crash
    <3> QED
      BY <2>3, <3>1 DEF Abstract!Next, Abstract!Publish
  <2> QED
    BY <2>4, <2>5
<1>6. CASE UNCHANGED vars
  BY <1>6 DEF vars, runVars, Content
<1> QED
  BY <1>4, <1>5, <1>6 DEF Next

\* Publication and loading implement the immutable snapshot.
THEOREM ImplementsImmutable == Spec => IsImmutable
<1>1. Init => Abstract!Init
  BY DEF Init, NoDirectory, Content, Names, Abstract!Init
<1>2. IndInv /\ IndInv' /\ [Next]_vars => [Abstract!Next]_<<Content("manifest"), answer>>
  BY StepRefines
<1> QED
  BY <1>1, <1>2, Invariance, PTL DEF Spec, IsImmutable, Abstract!Spec
=============================================================================
