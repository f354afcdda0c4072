------------------------------- MODULE Store -------------------------------
(***************************************************************************)
(* Doors, access levels and credentials between memory and the JSON files. *)
(*                                                                         *)
(* A request edits a copy (shadow) of one list under sys.Lock, saves the   *)
(* copy and only then swaps it in; an import does so for access levels and *)
(* credentials at once. Backups are copied from the files under sys.RLock, *)
(* a restore writes the files and leaves it to the process to exit. The    *)
(* OIDs come from the in-memory catalogue, which a request changes at once *)
(* and which is built again from the files when the program starts. The    *)
(* worker's sweep removes deleted records without the lock, and the        *)
(* program may stop between any two steps.                                 *)
(*                                                                         *)
(* The two permanent access levels (OIDs 254 and 255, which the catalogue  *)
(* never hands out) are left out: nothing edits or deletes them.           *)
(***************************************************************************)
EXTENDS Naturals, Sequences

CONSTANTS
    Kinds,        \* the lists: some of "doors", "groups", "cards"
    Tags,         \* their order in a backup (backupTags)
    InitialFiles, \* what the files hold when the program first starts
    InitialArchives, \* the backups there are
    MaxOID,       \* bound: the last OID of each kind
    Existing,     \* the records there have been when it does
    MaxRecords,   \* bound: records ever created
    MaxRequests,  \* bound: edit requests
    MaxJobs,      \* bound: backups, restores and imports
    MaxRestarts   \* bound: restarts

OIDs == 1..MaxOID

\* What the records of a kind refer to: credentials to access levels, access
\* levels to doors.
Target(k) == CASE k = "cards" -> "groups" [] k = "groups" -> "doors" [] OTHER -> "none"
Refers(k) == Target(k) \in Kinds

\* A record: is it complete enough to be saved, has it been deleted, which record
\* it is (ghost), and the OIDs it refers to, each with the record that was meant
\* (ghost, 0 for none).
Refs(n) == UNION {[S -> 0..n] : S \in SUBSET OIDs}
Record(n) == [complete: BOOLEAN, deleted: BOOLEAN, born: 1..n, refs: Refs(n)]
IsList(l, n) == DOMAIN l \subseteq OIDs /\ l \in [DOMAIN l -> Record(n)]
AreLists(f, n) == DOMAIN f = Kinds /\ \A k \in Kinds : IsList(f[k], n)

Blank(n) == [complete |-> FALSE, deleted |-> FALSE, born |-> n, refs |-> <<>>]
With(list, o, r) == [x \in DOMAIN list \cup {o} |-> IF x = o THEN r ELSE list[x]]
Without(list, o) == [x \in DOMAIN list \ {o} |-> list[x]]
Deleted(list) == {o \in DOMAIN list : list[o].deleted}

ASSUME KindsAssumption == Kinds \subseteq {"doors", "groups", "cards"}
ASSUME TagsAssumption ==
    /\ Tags \in Seq(Kinds) /\ \A k \in Kinds : \E i \in DOMAIN Tags : Tags[i] = k
    /\ \A i, j \in DOMAIN Tags : Tags[i] = Tags[j] => i = j
ASSUME BoundsAssumption ==
    /\ MaxOID \in Nat /\ MaxRecords \in Nat /\ Existing \in 0..MaxRecords
    /\ MaxRequests \in Nat /\ MaxJobs \in Nat /\ MaxRestarts \in Nat
ASSUME InitialAssumption ==
    \A f \in {InitialFiles} \cup InitialArchives :
        /\ AreLists(f, Existing)
        /\ \A k \in Kinds : \A o \in DOMAIN f[k] : f[k][o].complete /\ ~f[k][o].deleted

VARIABLES
    live,      \* sys.doors, sys.groups, sys.cards: the records by OID
    files,     \* doors.json, groups.json, cards.json: the records by OID
    entries,   \* catalogue: the OIDs each table knows, TRUE unless deleted
    last,      \* catalogue: the OID each table handed out last
    holder,    \* what holds sys.Lock: "none", "edit", "import" or "restore"
    editing,   \* the kinds that the request edits
    shadow,    \* its copies
    done,      \* the kinds whose files it has written
    job,       \* the backup being made, and what it is made for
    archives,  \* the backups
    exiting,   \* a restore has scheduled the end of the process
    adrift,    \* ghost: OIDs that a loaded record refers to, meaning another record
    undone,    \* ghost: OIDs that a refused request deleted from the catalogue only
    unsaved,   \* ghost: kinds whose file is not what this process last acknowledged
    born,      \* ghost: the records created so far
    requests, jobs, restarts

store == <<live, files, entries, last>>
request == <<holder, editing, shadow, done>>
counts == <<requests, jobs, restarts>>
vars == <<store, request, job, archives, exiting, adrift, undone, unsaved, born, counts>>

-----------------------------------------------------------------------------
(* The catalogue.                                                          *)

Known(k, o) == o \in DOMAIN entries[k]
InUse(k, o) == Known(k, o) /\ entries[k][o]

\* table.New: the first OID after the last one that the table does not know.
\* Mutant: it looks for an OID that is not in use, from the start.
NewOIDNotInUse(k) ==
    CHOOSE o \in 1..(MaxOID + 1) : ~InUse(k, o) /\ \A x \in 1..(o - 1) : InUse(k, x)

NewOID(k) ==
    CHOOSE o \in (last[k] + 1)..(MaxOID + 1) :
        ~Known(k, o) /\ \A x \in (last[k] + 1)..(o - 1) : Known(k, x)

\* Load: a table knows the OIDs of the records in the file.
Catalogued(list) == [o \in DOMAIN list |-> TRUE]
Highest(list) ==
    LET top == {o \in DOMAIN list : \A x \in DOMAIN list : x <= o}
    IN IF top = {} THEN 0 ELSE CHOOSE o \in top : TRUE

\* Mutant of Saved: a deleted record that was complete stays in the file.
SavedDeletedToo(k, list, known) ==
    LET kept == {o \in DOMAIN list : list[o].complete}
    IN [o \in kept |-> [list[o] EXCEPT !.deleted = FALSE]]

\* Save: complete records that are not deleted, with the references that the
\* catalogue has.
Saved(k, list, known) ==
    LET kept == {o \in DOMAIN list : list[o].complete /\ ~list[o].deleted}
        there(o) == {x \in DOMAIN list[o].refs :
                        Refers(k) => x \in DOMAIN known[Target(k)] /\ known[Target(k)][x]}
    IN [o \in kept |-> [list[o] EXCEPT !.refs = [x \in there(o) |-> list[o].refs[x]]]]

-----------------------------------------------------------------------------
(* Edits: UpdateDoors, UpdateGroups, UpdateCards.                          *)

NoJob == [what |-> "none", copied |-> <<>>, from |-> <<>>]
Empty == [k \in Kinds |-> <<>>]

\* sys.RLock is held while a backup is being copied.
Copying == job.what # "none" /\ DOMAIN job.copied # Kinds

\* Mutant of Free: a backup is copied without the lock.
FreeOfRequests == holder = "none"

Free == holder = "none" /\ ~Copying

Begin(k) ==
    /\ Free /\ requests < MaxRequests
    /\ holder' = "edit" /\ editing' = {k} /\ shadow' = live /\ done' = {}
    /\ requests' = requests + 1
    /\ UNCHANGED <<store, job, archives, exiting, adrift, undone, unsaved, born, jobs, restarts>>

Add(k, r) ==
    LET o == NewOID(k)
    IN /\ o \in OIDs /\ born < MaxRecords
       /\ o \notin DOMAIN shadow[k]
       /\ entries' = [entries EXCEPT ![k] = With(@, o, TRUE)]
       /\ last' = [last EXCEPT ![k] = o]
       /\ born' = born + 1
       /\ shadow' = [shadow EXCEPT ![k] = With(@, o, r)]

Create(k) ==
    /\ holder = "edit" /\ k \in editing /\ done = {}
    /\ Add(k, Blank(born + 1))
    /\ UNCHANGED <<live, files, holder, editing, done, job, archives, exiting, adrift, undone, unsaved, counts>>

Edit(k, o, r) ==
    /\ holder = "edit" /\ k \in editing /\ done = {}
    /\ o \in DOMAIN shadow[k] /\ r # shadow[k][o]
    /\ shadow' = [shadow EXCEPT ![k][o] = r]

\* set: a name or a card number makes the record worth saving.
Complete(k, o) ==
    /\ Edit(k, o, [shadow[k][o] EXCEPT !.complete = TRUE])
    /\ ~shadow[k][o].deleted
    /\ UNCHANGED <<store, holder, editing, done, job, archives, exiting, adrift, undone, unsaved, born, counts>>

\* set: a credential is made a member of an access level that is in use (or the
\* membership is taken away), an access level is given a door the catalogue knows.
Offered(k, x) == IF k = "cards" THEN InUse("groups", x) ELSE Known(Target(k), x)

Meant(k, x) == IF x \in DOMAIN live[Target(k)] THEN live[Target(k)][x].born ELSE 0

Link(k, o, x) ==
    /\ Refers(k) /\ Offered(k, x)
    /\ Edit(k, o, [shadow[k][o] EXCEPT !.refs = With(@, x, Meant(k, x))])
    /\ ~shadow[k][o].deleted
    /\ UNCHANGED <<store, holder, editing, done, job, archives, exiting, adrift, undone, unsaved, born, counts>>

Unlink(k, o, x) ==
    /\ Refers(k) /\ Offered(k, x)
    /\ Edit(k, o, [shadow[k][o] EXCEPT !.refs = Without(@, x)])
    /\ ~shadow[k][o].deleted
    /\ UNCHANGED <<store, holder, editing, done, job, archives, exiting, adrift, undone, unsaved, born, counts>>

\* The catalogue is told at once.
Delete(k, o) ==
    /\ Edit(k, o, [shadow[k][o] EXCEPT !.deleted = TRUE])
    /\ entries' = [entries EXCEPT ![k] = IF Known(k, o) THEN [@ EXCEPT ![o] = FALSE] ELSE @]
    /\ UNCHANGED <<live, files, last, holder, editing, done, job, archives, exiting, adrift, undone, unsaved,
                   born, counts>>

-----------------------------------------------------------------------------
(* Import: Lock, EnsureImported, MergeControllerImports.                    *)

BeginImport ==
    /\ Free /\ job.what = "import" /\ {"groups", "cards"} \subseteq Kinds
    /\ holder' = "import" /\ editing' = {"groups", "cards"} /\ shadow' = live /\ done' = {}
    /\ job' = NoJob
    /\ UNCHANGED <<store, archives, exiting, adrift, undone, unsaved, born, counts>>

\* EnsureImported: no access level has the relays of a credential. The new level
\* is complete; what it opens was looked up before the lock was taken.
ImportLevel ==
    /\ holder = "import" /\ done = {}
    /\ LET doors == IF Refers("groups") THEN DOMAIN entries["doors"] ELSE {}
       IN \E S \in SUBSET doors :
             Add("groups", [complete |-> TRUE, deleted |-> FALSE, born |-> born + 1,
                            refs |-> [x \in S |-> Meant("groups", x)]])
    /\ UNCHANGED <<live, files, holder, editing, done, job, archives, exiting, adrift, undone, unsaved, counts>>

\* MergeControllerImports: a credential that is not in the list, or one that is.
MeantHere(x) == shadow["groups"][x].born
Merged(r, x) == [r EXCEPT !.refs = With(r.refs, x, MeantHere(x)), !.complete = TRUE]
Choices == DOMAIN shadow["groups"] \ Deleted(shadow["groups"])

ImportNew(x) ==
    /\ holder = "import" /\ done = {} /\ x \in Choices
    /\ Add("cards", [complete |-> TRUE, deleted |-> FALSE, born |-> born + 1,
                     refs |-> With(<<>>, x, MeantHere(x))])
    /\ UNCHANGED <<live, files, holder, editing, done, job, archives, exiting, adrift, undone, unsaved, counts>>

ImportOver(o, x) ==
    /\ holder = "import" /\ done = {} /\ x \in Choices
    /\ o \in DOMAIN shadow["cards"] /\ ~shadow["cards"][o].deleted
    /\ shadow' = [shadow EXCEPT !["cards"][o] = Merged(@, x)]
    /\ shadow' # shadow
    /\ UNCHANGED <<store, holder, editing, done, job, archives, exiting, adrift, undone, unsaved, born, counts>>

-----------------------------------------------------------------------------
(* The end of a request: refused, or saved and committed.                   *)

\* An import saves the access levels before the credentials.
Save(k) ==
    /\ holder \in {"edit", "import"} /\ k \in editing \ done
    /\ k = "cards" /\ "groups" \in editing => "groups" \in done
    /\ files' = [files EXCEPT ![k] = Saved(k, shadow[k], entries)]
    /\ done' = done \cup {k}
    /\ unsaved' = unsaved \ {k}
    /\ UNCHANGED <<live, entries, last, holder, editing, shadow, job, archives, exiting, adrift, undone, born, counts>>

\* dbc.Commit: the hook swaps the copies in.
Commit ==
    /\ holder \in {"edit", "import"} /\ done = editing
    /\ live' = [k \in Kinds |-> IF k \in editing THEN shadow[k] ELSE live[k]]
    /\ holder' = "none" /\ editing' = {} /\ shadow' = Empty /\ done' = {}
    /\ UNCHANGED <<files, entries, last, job, archives, exiting, adrift, undone, unsaved, born, counts>>

\* A request that is not allowed, does not validate or cannot be saved: the copies
\* are dropped, what it did to the catalogue and the files it wrote are not.
Refuse ==
    /\ holder \in {"edit", "import"} /\ done # editing
    /\ holder' = "none" /\ editing' = {} /\ shadow' = Empty /\ done' = {}
    /\ undone' = [k \in Kinds |->
                    IF k \in editing
                    THEN undone[k] \cup (Deleted(shadow[k]) \ Deleted(live[k]))
                    ELSE undone[k]]
    /\ unsaved' = unsaved \cup done
    /\ UNCHANGED <<store, job, archives, exiting, adrift, born, counts>>

-----------------------------------------------------------------------------
(* The worker: sweep, without the lock.                                     *)

Sweep(k, o) ==
    /\ o \in Deleted(live[k])
    /\ live' = [live EXCEPT ![k] = Without(@, o)]
    /\ UNCHANGED <<files, entries, last, request, job, archives, exiting, adrift, undone, unsaved, born, counts>>

-----------------------------------------------------------------------------
(* CreateBackup, RestoreBackup.                                             *)

\* A backup on its own, or the safety backup of an import or a restore. The lock
\* is taken to read from here to the last Copy.
StartJob(what, from) ==
    /\ Free /\ job = NoJob /\ jobs < MaxJobs
    /\ what = "restore" => from \in archives
    /\ what # "restore" => from = <<>>
    /\ job' = [what |-> what, copied |-> <<>>, from |-> from]
    /\ jobs' = jobs + 1
    /\ UNCHANGED <<store, request, archives, exiting, adrift, undone, unsaved, born, requests, restarts>>

\* The tag of which the file comes next.
IsNext(k, S) == \E i \in DOMAIN Tags : Tags[i] = k /\ S = {Tags[j] : j \in 1..(i - 1)}

Copy(k) ==
    /\ job.what # "none" /\ IsNext(k, DOMAIN job.copied)
    /\ LET copied == With(job.copied, k, files[k])
       IN IF DOMAIN copied = Kinds
          THEN /\ archives' = archives \cup {copied}
               /\ job' = IF job.what = "backup" THEN NoJob ELSE [job EXCEPT !.copied = copied]
          ELSE /\ job' = [job EXCEPT !.copied = copied]
               /\ UNCHANGED archives
    /\ UNCHANGED <<store, request, exiting, adrift, undone, unsaved, born, counts>>

\* The safety backup cannot be made, or nothing can be imported.
AbandonJob ==
    /\ job # NoJob
    /\ job' = NoJob
    /\ UNCHANGED <<store, request, archives, exiting, adrift, undone, unsaved, born, counts>>

BeginRestore ==
    /\ Free /\ job.what = "restore"
    /\ holder' = "restore" /\ shadow' = job.from /\ editing' = Kinds /\ done' = {}
    /\ job' = NoJob
    /\ UNCHANGED <<store, archives, exiting, adrift, undone, unsaved, born, counts>>

Restore(k) ==
    /\ holder = "restore" /\ IsNext(k, done)
    /\ files' = [files EXCEPT ![k] = shadow[k]]
    /\ done' = done \cup {k}
    /\ unsaved' = unsaved \cup {k}
    /\ UNCHANGED <<live, entries, last, holder, editing, shadow, job, archives, exiting, adrift, undone, born, counts>>

\* All files are written, and the process is to exit in 750 ms; or writing one
\* failed, and it goes on.
EndRestore ==
    /\ holder = "restore"
    /\ exiting' = (exiting \/ done = Kinds)
    /\ holder' = "none" /\ editing' = {} /\ shadow' = Empty /\ done' = {}
    /\ UNCHANGED <<store, job, archives, adrift, undone, unsaved, born, counts>>

-----------------------------------------------------------------------------
(* The process stops and starts again: Init loads the files and saves the  *)
(* access levels.                                                          *)

\* The OIDs of a kind that the loaded records mean another record by.
Strays(lists, k) ==
    {x \in OIDs : \E h \in {h \in Kinds : Target(h) = k} : \E o \in DOMAIN lists[h] :
        /\ x \in DOMAIN lists[h][o].refs
        /\ x \in DOMAIN lists[k] => lists[k][x].born # lists[h][o].refs[x]}

Tables(f) == [k \in Kinds |-> Catalogued(f[k])]
LevelsSaved(f) == [k \in Kinds |-> IF k = "groups" THEN Saved(k, f[k], Tables(f)) ELSE f[k]]

Restart ==
    /\ restarts < MaxRestarts
    /\ live' = files
    /\ entries' = Tables(files)
    /\ last' = [k \in Kinds |-> Highest(files[k])]
    /\ files' = LevelsSaved(files)
    /\ holder' = "none" /\ editing' = {} /\ shadow' = Empty /\ done' = {}
    /\ job' = NoJob /\ exiting' = FALSE
    /\ adrift' = [k \in Kinds |-> Strays(files, k)]
    /\ undone' = [k \in Kinds |-> {}] /\ unsaved' = {}
    /\ restarts' = restarts + 1
    /\ UNCHANGED <<archives, born, requests, jobs>>

Init ==
    /\ live = InitialFiles /\ files = LevelsSaved(InitialFiles)
    /\ entries = Tables(InitialFiles)
    /\ last = [k \in Kinds |-> Highest(InitialFiles[k])]
    /\ holder = "none" /\ editing = {} /\ shadow = Empty /\ done = {}
    /\ job = NoJob /\ archives = InitialArchives /\ exiting = FALSE
    /\ adrift = [k \in Kinds |-> Strays(InitialFiles, k)]
    /\ undone = [k \in Kinds |-> {}] /\ unsaved = {}
    /\ born = Existing
    /\ requests = 0 /\ jobs = 0 /\ restarts = 0

\* Nothing is asked of the program.
Idle == UNCHANGED vars

Next ==
    \/ \E k \in Kinds : Begin(k) \/ Create(k) \/ Save(k) \/ Copy(k) \/ Restore(k)
    \/ \E k \in Kinds : \E o \in OIDs : Complete(k, o) \/ Delete(k, o) \/ Sweep(k, o)
    \/ \E k \in Kinds : \E o, x \in OIDs : Link(k, o, x) \/ Unlink(k, o, x)
    \/ BeginImport \/ ImportLevel
    \/ \E o, x \in OIDs : ImportNew(x) \/ ImportOver(o, x)
    \/ Commit \/ Refuse
    \/ \E what \in {"backup", "restore", "import"} : \E from \in archives \cup {<<>>} :
          StartJob(what, from)
    \/ AbandonJob \/ BeginRestore \/ EndRestore \/ Restart \/ Idle

Spec == Init /\ [][Next]_vars

-----------------------------------------------------------------------------
(* Properties.                                                             *)

\* Every variable keeps to its type, and while a backup is copied nobody holds the
\* lock to write.
TypeOK ==
    /\ AreLists(live, born) /\ AreLists(files, born) /\ AreLists(shadow, born)
    /\ DOMAIN entries = Kinds
    /\ \A k \in Kinds : DOMAIN entries[k] \subseteq OIDs /\ entries[k] \in [DOMAIN entries[k] -> BOOLEAN]
    /\ last \in [Kinds -> 0..MaxOID]
    /\ holder \in {"none", "edit", "import", "restore"}
    /\ done \subseteq editing /\ editing \subseteq Kinds
    /\ holder = "import" => editing = {"groups", "cards"}
    /\ holder = "restore" => editing = Kinds
    /\ job = [what |-> job.what, copied |-> job.copied, from |-> job.from]
    /\ job.what \in {"none", "backup", "restore", "import"}
    /\ DOMAIN job.copied \subseteq Kinds
    /\ job.what = "restore" => job.from \in archives
    /\ \A k \in DOMAIN job.copied : IsList(job.copied[k], born)
    /\ Copying => holder = "none"
    /\ \A a \in archives : AreLists(a, born)
    /\ exiting \in BOOLEAN
    /\ adrift \in [Kinds -> SUBSET OIDs] /\ undone \in [Kinds -> SUBSET OIDs]
    /\ unsaved \subseteq Kinds
    /\ born \in 0..MaxRecords
    /\ requests \in 0..MaxRequests /\ jobs \in 0..MaxJobs /\ restarts \in 0..MaxRestarts

\* What the program goes by, or will when the request that has saved it commits.
Current(k) == IF holder \in {"edit", "import"} /\ k \in done THEN shadow[k] ELSE live[k]

\* A reference to an access level or a door that is in the list, not deleted, the
\* one that was meant, and not one that a refused request deleted from the
\* catalogue alone.
Sound(k, ref, x) ==
    Refers(k) => LET t == Current(Target(k)) IN
        x \in DOMAIN t /\ ~t[x].deleted /\ t[x].born = ref /\ x \notin undone[Target(k)]

\* The file of a kind has what the program goes by.
Faithful(k) ==
    /\ DOMAIN files[k] = {o \in DOMAIN Current(k) : Current(k)[o].complete /\ ~Current(k)[o].deleted}
    /\ \A o \in DOMAIN files[k] :
          LET mine == Current(k)[o]
          IN /\ files[k][o].born = mine.born
             /\ DOMAIN files[k][o].refs \subseteq DOMAIN mine.refs
             /\ \A x \in DOMAIN mine.refs \ DOMAIN files[k][o].refs : ~Sound(k, mine.refs[x], x)

\* A restart at any moment brings back what was acknowledged: the records that
\* are in use, no record that was deleted, and their references to what is in
\* use. Except for a file that a restore has written over, or a failed import.
SavedAsAcknowledged == \A k \in Kinds \ unsaved : Faithful(k)

\* Who is a member of an access level, or which door it opens, is what somebody
\* chose for that level or door and not for one that had its OID before: while the
\* program runs. What it loads may already be adrift.
ReferencesKeepTheirTarget ==
    \A k \in {k \in Kinds : Refers(k)} : \A o \in DOMAIN live[k] : \A x \in DOMAIN live[k][o].refs :
        x \in DOMAIN live[Target(k)] \ adrift[Target(k)] =>
            live[Target(k)][x].born = live[k][o].refs[x]

\* The same without the exception: HTML.md says that the OID of an item uniquely
\* identifies it to the backend.
OIDsIdentify ==
    \A k \in {k \in Kinds : Refers(k)} : \A o \in DOMAIN live[k] : \A x \in DOMAIN live[k][o].refs :
        x \in DOMAIN live[Target(k)] => live[Target(k)][x].born = live[k][o].refs[x]

\* A backup has the files of all kinds as they were together at one moment.
BackupIsACut == [][\A a \in archives' \ archives : \A k \in Kinds : a[k] = files[k]]_vars

=============================================================================
