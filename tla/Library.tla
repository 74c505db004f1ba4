------------------------------ MODULE Library ------------------------------
(***************************************************************************)
(* The local library (store/library_config.go, store/library.go,           *)
(* scan/scanner.go, api/library_config.go): which folders are libraries,   *)
(* and the scan that brings the tracks of the database in line with the    *)
(* files.  A scan goes on for minutes while files come and go, while the   *)
(* queue refers to tracks and while administrators save other folders and  *)
(* settings, each from a form that was filled from an earlier state.       *)
(***************************************************************************)
EXTENDS Naturals, Sequences

CONSTANTS
  Roots, Files,
  Under,       \* Under[r]: the audio files that can be below folder r
  Admins,      \* the requests to save the configuration that can be in progress at once
  None,
  MaxIds,      \* bound on the libraries that are ever created
  MaxVersion,  \* bound on the versions of a file
  MaxSaves,    \* bound on the saves
  Initially,   \* the sets of files that may be there at first
  CommandLine, \* the folder named on the command line
  MaxEvents    \* bound on changes of files, crashes, errors and queued tracks, together

ASSUME LibraryAssumption ==
  /\ Under \in [Roots -> SUBSET Files] /\ None \notin Roots
  /\ MaxIds \in Nat \ {0} /\ MaxVersion \in Nat \ {0} /\ MaxSaves \in Nat
  /\ CommandLine \in Roots /\ Initially \subseteq SUBSET Files /\ MaxEvents \in Nat
  /\ None \notin 1 .. MaxIds

VARIABLES
  lib,      \* lib[i]: the row i of local_library, its folder and whether it is enabled
  lastId,   \* AUTOINCREMENT: the last id that a library was given
  flag,     \* the setting assume_same_title_folder_compilations
  track,    \* track[x]: the row of x = <<library, file>>
  queued,   \* the rows that a queue refers to
  there,    \* the files that exist
  ver,      \* ver[f]: the version of file f
  scan,     \* the scan in progress and its local variables
  save,     \* save[a]: the form that a has in front of it, and how far its save has come
  gone,     \* the files that were missing at some time since the scan began
  clean,    \* nothing has disturbed the scan so far
  home,     \* home[i]: the folders that library i has had
  stained,  \* the setting was written during a scan, or by two saves at once
  saves, events

config == <<lib, lastId>>
index == <<track, queued>>
disk == <<there, ver>>
ghosts == <<gone, clean, home, stained>>
counts == <<saves, events>>
libraryVars == <<config, flag, index, disk, scan, save, ghosts, counts>>

Ids == 1 .. MaxIds
Rows == Ids \X Files
Lib == [root : Roots, on : BOOLEAN]
NoLib == [root |-> None, on |-> FALSE]

\* stamp: the version whose time and size are stored, 0 once they are reset; tags: the
\* version that was read; grouped: the setting it was grouped by.
Row == [stamp : Nat, tags : Nat \ {0}, grouped : BOOLEAN]
NoRow == [stamp |-> 0, tags |-> 0, grouped |-> FALSE]
Job == [row : Rows, stamp : Nat \ {0}]

\* roots: those still to be walked; id, left: the library being walked and its files not
\* yet come by; bad: something in it could not be read; seen: the rows of the files
\* found; jobs: those whose tags are to be read; read: those whose tags have been; done:
\* the libraries to be pruned.
ScanState == [at : {"idle", "load", "walk"}, flag : BOOLEAN,
              roots : SUBSET Roots, id : Ids \cup {None}, left : SUBSET Files,
              bad : BOOLEAN, seen : SUBSET Rows, jobs : SUBSET Job,
              read : SUBSET [job : Job, tags : Nat \ {0}], done : SUBSET Ids]
NoScan == [at |-> "idle", flag |-> FALSE, roots |-> {}, id |-> None, left |-> {},
           bad |-> FALSE, seen |-> {}, jobs |-> {}, read |-> {}, done |-> {}]

\* A line of the form: id None is a folder that has been typed in.
Entry == [id : Ids \cup {None}, root : Roots, on : BOOLEAN]
SaveState == [at : {"idle", "form", "before", "flag", "roots", "start"}, form : Seq(Entry),
              flag : BOOLEAN, before : BOOLEAN, roots : SUBSET Roots]
NoSave == [at |-> "idle", form |-> <<>>, flag |-> FALSE, before |-> FALSE, roots |-> {}]

LibraryTypeOK ==
  /\ lib \in [Ids -> Lib \cup {NoLib}] /\ lastId \in 0 .. MaxIds /\ flag \in BOOLEAN
  /\ track \in [Rows -> Row \cup {NoRow}] /\ queued \in SUBSET Rows
  /\ there \in SUBSET Files /\ ver \in [Files -> Nat \ {0}]
  /\ scan \in ScanState /\ save \in [Admins -> SaveState]
  /\ gone \in SUBSET Files /\ clean \in BOOLEAN /\ home \in [Ids -> SUBSET Roots] /\ stained \in BOOLEAN
  /\ saves \in Nat /\ events \in Nat

Present(i) == lib[i] # NoLib
EnabledRoots == {lib[i].root : i \in {k \in Ids : lib[k].on}}
Visible(i) == lib[i].on
Indexed(x) == track[x] # NoRow
Event == events < MaxEvents /\ events' = events + 1
Disturbed == clean' = FALSE

\* Progress: the flag of the one scan, for whoever wants to start another.
Scanning == scan.at # "idle"

-----------------------------------------------------------------------------
(* The form and the save.                                                  *)

Saving(a, p) == save[a].at = p
SaveTo(a, next) == save' = [save EXCEPT ![a] = next]
Then(a, p) == SaveTo(a, [save[a] EXCEPT !.at = p])

\* librarySettingsResponse: the libraries as they are now.
Form ==
  LET lines[i \in 0 .. MaxIds] ==
        IF i = 0 THEN <<>>
        ELSE IF Present(i)
             THEN Append(lines[i - 1], [id |-> i, root |-> lib[i].root, on |-> lib[i].on])
             ELSE lines[i - 1]
  IN lines[MaxIds]

\* getAdminLibraries
Open(a) ==
  /\ Saving(a, "idle") /\ saves < MaxSaves
  /\ SaveTo(a, [NoSave EXCEPT !.at = "form", !.form = Form])
  /\ saves' = saves + 1
  /\ UNCHANGED <<config, flag, index, disk, scan, ghosts, events>>

Without(form, k) == SubSeq(form, 1, k - 1) \o SubSeq(form, k + 1, Len(form))

\* What one person does to the form before it is sent.
Edits(form) ==
  {form} \cup {Without(form, k) : k \in DOMAIN form}
    \cup {[form EXCEPT ![k].on = ~@] : k \in DOMAIN form}
    \cup {[form EXCEPT ![k].root = r] : k \in DOMAIN form, r \in Roots}
    \cup {Append(form, [id |-> None, root |-> r, on |-> TRUE]) : r \in Roots}

\* The tables while a save works on them, and whether a statement has failed.
Table == [lib |-> lib, lastId |-> lastId, kept |-> {}, ok |-> TRUE]
Holder(t, r) == {i \in Ids : t.lib[i].root = r}
Write(t, i, e) == [t EXCEPT !.lib[i] = [root |-> e.root, on |-> e.on], !.kept = @ \cup {i}]

\* MUTANT: without AUTOINCREMENT a new library gets the number of one that was removed.
InsertedReused(t, e) ==
  LET free == {i \in Ids : t.lib[i] = NoLib} IN
  IF free = {} THEN [t EXCEPT !.ok = FALSE]
  ELSE [Write(t, CHOOSE i \in free : \A k \in free : i <= k, e) EXCEPT !.lastId = MaxIds]

Inserted(t, e) ==
  IF t.lastId = MaxIds THEN [t EXCEPT !.ok = FALSE]
  ELSE [Write(t, t.lastId + 1, e) EXCEPT !.lastId = @ + 1]

\* One line: by its id if it has one, also if that library is gone by now, else by its
\* folder; two libraries of one folder violate UNIQUE(path).
PutEntry(t, e) ==
  IF ~t.ok THEN t
  ELSE CASE e.id # None -> IF Holder(t, e.root) \subseteq {e.id} THEN Write(t, e.id, e)
                           ELSE [t EXCEPT !.ok = FALSE]
         [] e.id = None /\ Holder(t, e.root) # {} ->
              Write(t, CHOOSE i \in Holder(t, e.root) : TRUE, e)
         [] OTHER -> Inserted(t, e)

\* The libraries that the form does not have are deleted; their tracks stay.
DropOthers(t) == [i \in Ids |-> IF i \in t.kept THEN t.lib[i] ELSE NoLib]
Distinct(form) == \A j, k \in DOMAIN form : form[j].root = form[k].root => j = k

\* The lines are written one after another.
Transaction(form) ==
  LET t[k \in 0 .. Len(form)] == IF k = 0 THEN Table ELSE PutEntry(t[k - 1], form[k])
  IN t[Len(form)]

\* A library that is created is at home in its folder; one that was there before, or that
\* the form still names, in those it has had as well.
Homes(t, form) ==
  [i \in Ids |->
     IF i \notin t.kept THEN home[i]
     ELSE {t.lib[i].root}
            \cup IF Present(i) \/ \E k \in DOMAIN form : form[k].id = i THEN home[i] ELSE {}]

\* SaveLibraryConfiguration: one transaction.  A refused form is the end of the request;
\* after it come the setting, if the request has one, and the scan, if it asks for one.
Submit(a) ==
  /\ Saving(a, "form")
  /\ \E form \in Edits(save[a].form), next \in {"before", "roots", "idle"}, f \in BOOLEAN :
       LET t == Transaction(form) IN
       IF Distinct(form) /\ t.ok
       THEN /\ lib' = DropOthers(t) /\ lastId' = t.lastId
            /\ home' = Homes(t, form)
            /\ clean' = (clean /\ lib' = lib)
            /\ SaveTo(a, IF next = "idle" THEN NoSave ELSE [NoSave EXCEPT !.at = next, !.flag = f /\ next = "before"])
            /\ UNCHANGED <<gone, stained>>
       ELSE SaveTo(a, NoSave) /\ UNCHANGED <<config, ghosts>>
  /\ UNCHANGED <<flag, index, disk, scan, counts>>

\* SaveLibraryScanSettings reads the setting before its transaction ...
Previous(a) ==
  /\ Saving(a, "before")
  /\ SaveTo(a, [save[a] EXCEPT !.at = "flag", !.before = flag])
  /\ UNCHANGED <<config, flag, index, disk, scan, ghosts, counts>>

\* ... in which a change of it resets the stamps, for the next scan to read every file.
Reset(x) == IF Indexed(x) THEN [track[x] EXCEPT !.stamp = 0] ELSE NoRow

\* MUTANT: the setting is stored and the files are not read again.
SettingAlone(a) ==
  /\ Saving(a, "flag")
  /\ flag' = save[a].flag
  /\ stained' = (stained \/ save[a].before # flag
                   \/ (flag' # flag /\ Scanning /\ scan.at # "load"))
  /\ clean' = (clean /\ flag' = flag)
  /\ \E next \in {"roots", "idle"} :
       SaveTo(a, IF next = "idle" THEN NoSave ELSE [NoSave EXCEPT !.at = next])
  /\ UNCHANGED <<config, index, disk, scan, gone, home, counts>>

Setting(a) ==
  /\ Saving(a, "flag")
  /\ flag' = save[a].flag
  /\ track' = IF save[a].before # save[a].flag THEN [x \in Rows |-> Reset(x)] ELSE track
  /\ stained' = (stained \/ save[a].before # flag
                   \/ (flag' # flag /\ Scanning /\ scan.at # "load"))
  /\ clean' = (clean /\ flag' = flag)
  /\ \E next \in {"roots", "idle"} :
       SaveTo(a, IF next = "idle" THEN NoSave ELSE [NoSave EXCEPT !.at = next])
  /\ UNCHANGED <<config, queued, disk, scan, gone, home, counts>>

\* startLibraryScan: the folders are read first, then the one scan is claimed.
Gather(a) ==
  /\ Saving(a, "roots")
  /\ SaveTo(a, IF EnabledRoots = {} THEN NoSave
               ELSE [NoSave EXCEPT !.at = "start", !.roots = EnabledRoots])
  /\ UNCHANGED <<config, flag, index, disk, scan, ghosts, counts>>

Launched(roots) ==
  /\ scan' = [NoScan EXCEPT !.at = "load", !.roots = roots]
  /\ gone' = Files \ there /\ clean' = TRUE

Launch(a) ==
  /\ Saving(a, "start")
  /\ SaveTo(a, NoSave)
  /\ IF Scanning THEN UNCHANGED <<scan, gone, clean>> ELSE Launched(save[a].roots)
  /\ UNCHANGED <<config, flag, index, disk, home, stained, counts>>

\* The program stops and starts again: the requests and the scan are lost, and it begins
\* with a scan of its own if there is a folder to scan.
Boot ==
  /\ Event
  /\ save' = [a \in Admins |-> NoSave]
  /\ IF EnabledRoots = {} THEN scan' = NoScan /\ UNCHANGED <<gone, clean>>
     ELSE Launched(EnabledRoots)
  /\ UNCHANGED <<config, flag, index, disk, home, stained, saves>>

-----------------------------------------------------------------------------
(* The scan.                                                               *)

Load ==
  /\ scan.at = "load"
  /\ scan' = [scan EXCEPT !.at = "walk", !.flag = flag]
  /\ UNCHANGED <<config, flag, index, disk, save, ghosts, counts>>

\* EnsureLocalLibrary, which creates a library that has been removed in the meantime.
Folder(r) ==
  /\ scan.at = "walk" /\ scan.id = None /\ r \in scan.roots
  /\ LET t == IF Holder(Table, r) = {} THEN Inserted(Table, [root |-> r, on |-> TRUE]) ELSE Table
         i == CHOOSE k \in Holder(t, r) : TRUE
     IN /\ t.ok
        /\ lib' = t.lib /\ lastId' = t.lastId
        /\ home' = IF Holder(Table, r) = {} THEN [home EXCEPT ![i] = {r}] ELSE home
        /\ scan' = [scan EXCEPT !.roots = @ \ {r}, !.id = i, !.left = Under[r], !.bad = FALSE]
  /\ UNCHANGED <<flag, index, disk, save, gone, clean, stained, counts>>

\* The walk comes by a file, or by the place where it was.  A file whose stamp is stored
\* is skipped, unless the tags of all files are needed for the grouping.
Visit(f) ==
  /\ scan.at = "walk" /\ scan.id # None /\ f \in scan.left
  /\ LET x == <<scan.id, f>>
         skipped == Indexed(x) /\ track[x].stamp = ver[f] /\ ~scan.flag
     IN scan' = IF f \notin there THEN [scan EXCEPT !.left = @ \ {f}]
                ELSE [scan EXCEPT !.left = @ \ {f}, !.seen = @ \cup {x},
                        !.jobs = IF skipped THEN @ ELSE @ \cup {[row |-> x, stamp |-> ver[f]]}]
  /\ UNCHANGED <<config, flag, index, disk, save, ghosts, counts>>

\* Info fails on a file, or the walk on a folder, with what is left below it.
Unreadable(f) ==
  /\ Event /\ scan.at = "walk" /\ scan.id # None /\ f \in scan.left
  /\ \/ scan' = [scan EXCEPT !.left = @ \ {f}, !.bad = TRUE, !.seen = @ \cup {<<scan.id, f>>}]
     \/ scan' = [scan EXCEPT !.left = {}, !.bad = TRUE]
  /\ Disturbed
  /\ UNCHANGED <<config, flag, index, disk, save, gone, home, stained, saves>>

\* MUTANT: a library is pruned although some of it could not be read.
WalkedAlways ==
  /\ scan.at = "walk" /\ scan.id # None /\ scan.left = {}
  /\ scan' = [scan EXCEPT !.id = None, !.done = @ \cup {scan.id}]
  /\ UNCHANGED <<config, flag, index, disk, save, ghosts, counts>>

\* The end of a folder: what could not be read as a whole is not pruned.
Walked ==
  /\ scan.at = "walk" /\ scan.id # None /\ scan.left = {}
  /\ scan' = [scan EXCEPT !.id = None, !.done = IF scan.bad THEN @ ELSE @ \cup {scan.id}]
  /\ UNCHANGED <<config, flag, index, disk, save, ghosts, counts>>

\* A worker reads the tags of a file, as it is by now; one that cannot be read is dropped.
ReadTags(j) ==
  /\ scan.at = "walk" /\ j \in scan.jobs
  /\ LET f == j.row[2] IN
     \/ /\ f \in there
        /\ scan' = [scan EXCEPT !.jobs = @ \ {j}, !.read = @ \cup {[job |-> j, tags |-> ver[f]]}]
        /\ UNCHANGED <<clean, events>>
     \/ /\ scan' = [scan EXCEPT !.jobs = @ \ {j}]
        /\ IF f \in there THEN Event /\ Disturbed ELSE UNCHANGED <<clean, events>>
  /\ UNCHANGED <<config, flag, index, disk, save, gone, home, stained, saves>>

\* Once every folder is walked and every file read, the tracks are grouped and stored:
\* UpsertTrackInLibrary, one transaction a track, with the stamp that the walk saw.
WalkOver == scan.at = "walk" /\ scan.id = None /\ scan.roots = {} /\ scan.jobs = {}

\* resolveScanAlbumArtists groups by the setting that the scan began with.
Stored(r) == [stamp |-> r.job.stamp, tags |-> r.tags, grouped |-> scan.flag]

\* MUTANT: the stamp is taken again when the track is stored.
UpsertRestamped(r) ==
  /\ WalkOver /\ r \in scan.read
  /\ scan' = [scan EXCEPT !.read = @ \ {r}]
  /\ track' = [track EXCEPT ![r.job.row] = [Stored(r) EXCEPT !.stamp = ver[r.job.row[2]]]]
  /\ UNCHANGED <<config, flag, queued, disk, save, ghosts, counts>>

Upsert(r) ==
  /\ WalkOver /\ r \in scan.read
  /\ scan' = [scan EXCEPT !.read = @ \ {r}]
  /\ \/ /\ track' = [track EXCEPT ![r.job.row] = Stored(r)]
        /\ UNCHANGED <<clean, events>>
     \/ Event /\ Disturbed /\ UNCHANGED track
  /\ UNCHANGED <<config, flag, queued, disk, save, gone, home, stained, saves>>

\* DeleteLocalLibraryTracksExcept: the rows of library i whose file the walk has not come
\* by.  Tracks that a queue refers to cannot be deleted, and with one of them none is.
Prune(i) ==
  /\ WalkOver /\ scan.read = {} /\ i \in scan.done
  /\ LET drop == {x \in Rows : x[1] = i /\ Indexed(x) /\ x \notin scan.seen} IN
     IF drop \cap queued = {}
     THEN /\ track' = [x \in Rows |-> IF x \in drop THEN NoRow ELSE track[x]]
          /\ UNCHANGED clean
     ELSE Disturbed /\ UNCHANGED track
  /\ scan' = [scan EXCEPT !.done = @ \ {i}]
  /\ UNCHANGED <<config, flag, queued, disk, save, gone, home, stained, counts>>

ScanDone ==
  /\ WalkOver /\ scan.read = {} /\ scan.done = {}
  /\ scan' = NoScan
  /\ UNCHANGED <<config, flag, index, disk, save, ghosts, counts>>

-----------------------------------------------------------------------------
(* The surroundings: the files, and the queue.                             *)

Change ==
  /\ Event /\ Disturbed
  /\ UNCHANGED <<config, flag, index, scan, save, home, stained, saves>>

Rewrite(f) ==
  /\ Change /\ ver[f] < MaxVersion
  /\ ver' = [ver EXCEPT ![f] = @ + 1] /\ there' = there \cup {f} /\ UNCHANGED gone

Lose(f) == Change /\ f \in there /\ there' = there \ {f} /\ gone' = gone \cup {f} /\ UNCHANGED ver
Restore(f) == Change /\ f \notin there /\ there' = there \cup {f} /\ UNCHANGED <<ver, gone>>

Enqueue(x) ==
  /\ Event /\ Indexed(x) /\ Visible(x[1]) /\ x \notin queued
  /\ queued' = queued \cup {x}
  /\ UNCHANGED <<config, flag, track, disk, scan, save, ghosts, saves>>

Play(x) ==
  /\ x \in queued
  /\ queued' = queued \ {x}
  /\ UNCHANGED <<config, flag, track, disk, scan, save, ghosts, counts>>

-----------------------------------------------------------------------------
\* SeedLocalLibraries: the folder on the command line is the first library.
Seeded == [i \in Ids |-> IF i = 1 THEN [root |-> CommandLine, on |-> TRUE] ELSE NoLib]

\* The program starts for the first time.
LibraryInit ==
  /\ lib = Seeded
  /\ scan = [NoScan EXCEPT !.at = "load", !.roots = {CommandLine}]
  /\ lastId = 1 /\ flag = FALSE
  /\ track = [x \in Rows |-> NoRow] /\ queued = {}
  /\ there \in Initially /\ ver = [f \in Files |-> 1]
  /\ save = [a \in Admins |-> NoSave]
  /\ gone = Files \ there /\ clean = TRUE /\ stained = FALSE
  /\ home = [i \in Ids |-> IF i = 1 THEN {CommandLine} ELSE {}]
  /\ saves = 0 /\ events = 0

LibraryNext ==
  \/ \E a \in Admins : Open(a) \/ Submit(a) \/ Previous(a) \/ Setting(a) \/ Gather(a) \/ Launch(a)
  \/ Boot \/ Load \/ Walked \/ ScanDone
  \/ \E r \in Roots : Folder(r)
  \/ \E f \in Files : Visit(f) \/ Unreadable(f) \/ Rewrite(f) \/ Lose(f) \/ Restore(f)
  \/ \E j \in scan.jobs : ReadTags(j)
  \/ \E r \in scan.read : Upsert(r)
  \/ \E i \in Ids : Prune(i)
  \/ \E x \in Rows : Enqueue(x) \/ Play(x)

LibrarySpec == LibraryInit /\ [][LibraryNext]_libraryVars

-----------------------------------------------------------------------------
(* Properties.                                                             *)

\* The library is there, and no administrator has given it another folder.
Settled(i) == Present(i) /\ home[i] = {lib[i].root}

\* A track whose file exists keeps its row, and with it its id in queues, histories and
\* open pages: only a scan deletes rows, and only of files that were missing at some time
\* since it began or that are not below the library's folder.  Nothing is promised to a
\* library that is not Settled: one that is removed, and one whose folder was ever changed in
\* place, which may lose, to a scan of the earlier folder, the tracks of the present one.
KeepsPresent ==
  [][\A x \in Rows : Indexed(x) /\ ~Indexed(x)' =>
       \/ x[2] \in gone \/ ~Settled(x[1])
       \/ x[2] \notin Under[lib[x[1]].root]]_libraryVars

\* The tracks that a scan skips have nothing new to read: a stored stamp that is the
\* file's own goes with tags read from that version, however long before the reading the
\* walk took the stamp and whatever was written to the file in between.
SkipSound == \A x \in Rows : Indexed(x) /\ track[x].stamp = ver[x[2]] => track[x].tags = ver[x[2]]

\* A scan that nothing disturbed leaves a library exactly as its folder is: the files
\* that exist and no others, with the tags they have now, grouped as the setting says.
\* Grouping is promised only if the setting was never changed while a scan was at work,
\* nor by two saves at once.
Exact(i) ==
  \A x \in Rows : x[1] = i =>
    /\ Indexed(x) <=> x[2] \in there \cap Under[lib[i].root]
    /\ Indexed(x) => track[x].tags = ver[x[2]] /\ (~stained => track[x].grouped = flag)
Pruned(i) == scan'.at = "walk" /\ i \in scan.done \ scan'.done
CleanScan == [][\A i \in Ids : Pruned(i) /\ clean' => Exact(i)']_libraryVars

\* A library holds only files of its own folder: whatever a scan stores late, in a library
\* that has been removed, restored from an old form or created again meanwhile, it never
\* lands in one of another folder, except where an administrator changed a folder in place.
NoStrangers ==
  \A x \in Rows : Indexed(x) /\ Settled(x[1]) => x[2] \in Under[lib[x[1]].root]

\* The claim of TestLibraryScanSettingsChangeForcesLocalRescan, "scan setting change should
\* force re-read": after an undisturbed scan every track is grouped as the setting says.  It
\* does not hold: a scan at work when the setting changes stores its tracks afterwards, with
\* stamps that are current and the old grouping, and no later scan reads them again.
Regrouped ==
  [][\A x \in Rows : Pruned(x[1]) /\ clean' /\ Indexed(x)' => track'[x].grouped = flag']_libraryVars

-----------------------------------------------------------------------------
(* The inductive invariant behind the theorems about the library.          *)

\* The stamp of a track, also of one that is yet to be read or to be stored, is never newer
\* than its tags, and these are never newer than the file.
Tagged ==
  /\ \A j \in scan.jobs : j.stamp <= ver[j.row[2]]
  /\ \A r \in scan.read : r.job.stamp <= r.tags /\ r.tags <= ver[r.job.row[2]]
  /\ \A x \in Rows : Indexed(x) => track[x].stamp <= track[x].tags /\ track[x].tags <= ver[x[2]]

\* x is a row of a library that has been created, and of a file below a folder it has had.
Belongs(x) == x[1] <= lastId /\ \E r \in home[x[1]] : x[2] \in Under[r]

\* No library has a number that is yet to be given, none is anywhere but at home, and no row
\* is stored, or about to be, of a library that does not exist yet.
Housed ==
  /\ \A i \in Ids : /\ i > lastId => ~Present(i) /\ home[i] = {}
                    /\ Present(i) => lib[i].root \in home[i]
  /\ \A a \in Admins : \A k \in DOMAIN save[a].form :
       save[a].form[k].id \in Ids => save[a].form[k].id <= lastId
  /\ \A x \in Rows : Indexed(x) => Belongs(x)
  /\ \A j \in scan.jobs : Belongs(j.row)
  /\ \A r \in scan.read : Belongs(r.job.row)

\* Every file of a folder that has been walked to its end has been seen, or was missing.
Walks ==
  /\ scan.at # "idle" => Files \ there \subseteq gone
  /\ scan.at = "load" => scan.id = None /\ {} = scan.seen \cup scan.jobs \cup scan.read \cup scan.done
  /\ scan.id # None =>
       /\ scan.id <= lastId
       /\ \E r \in home[scan.id] :
            /\ scan.left \subseteq Under[r]
            /\ \A f \in Under[r] : f \in scan.left \cup gone \/ <<scan.id, f>> \in scan.seen \/ scan.bad
  /\ \A i \in scan.done :
       /\ i <= lastId
       /\ \E r \in home[i] : \A f \in Under[r] : f \in gone \/ <<i, f>> \in scan.seen

\* Unless a save came between a scan and its setting, stamped tracks are grouped by the setting.
Regular ==
  ~stained => /\ \A x \in Rows : Indexed(x) /\ track[x].stamp # 0 => track[x].grouped = flag
              /\ scan.at = "walk" => scan.flag = flag

Current(x) == Indexed(x) /\ track[x].tags = ver[x[2]] /\ (~stained => track[x].grouped = flag)
Pending(x) == (\E j \in scan.jobs : j.row = x) \/ \E r \in scan.read : r.job.row = x

\* While nothing disturbs a scan, what it has seen is what is there, each file of it has a
\* row that is current or about to be, and nothing is missing of a library it has walked.
Undisturbed ==
  clean /\ scan.at = "walk" =>
    /\ scan.flag = flag
    /\ \A x \in scan.seen : /\ Present(x[1]) /\ x[2] \in there \cap Under[lib[x[1]].root]
                            /\ Pending(x) \/ Current(x)
    /\ \A j \in scan.jobs : j.row \in scan.seen
    /\ \A r \in scan.read : r.job.row \in scan.seen /\ r.tags = ver[r.job.row[2]]
    /\ scan.id # None =>
         /\ Present(scan.id) /\ ~scan.bad /\ scan.left \subseteq Under[lib[scan.id].root]
         /\ \A f \in there \cap Under[lib[scan.id].root] : f \in scan.left \/ <<scan.id, f>> \in scan.seen
    /\ \A i \in scan.done :
         Present(i) /\ \A f \in there \cap Under[lib[i].root] : <<i, f>> \in scan.seen

LibraryInv == LibraryTypeOK /\ Tagged /\ Housed /\ Walks /\ Regular /\ Undisturbed
=============================================================================
