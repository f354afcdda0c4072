---------------------------- MODULE Maintenance ----------------------------
(***************************************************************************)
(* The dialogs of the console behind Import from controller and Backups    *)
(* (gate-control.js), with the import of the server (controller_import.go).*)
(* A preview is read from the controllers, the user chooses credential by  *)
(* credential, and the server reads the controllers again to apply the     *)
(* choices.  Meanwhile others edit the controllers and the credentials.    *)
(***************************************************************************)
EXTENDS Naturals, Sequences, SequencesExt, FiniteSets

CONSTANTS
    Numbers,     \* credential numbers
    Controllers,
    Details,     \* the dates and the PIN of a credential
    Timed,       \* an entry with a time profile, first-card or an unmapped relay
    NoEntry,     \* no entry, no record, no controller, nothing in flight
    HeldAtFirst, \* what the controllers may hold at the start
    MaxChanges,  \* how often, together, others edit, the user clicks and a request fails
    MaxBackups   \* how many backups there may be

ASSUME MaintenanceAssumption ==
    /\ NoEntry \notin Controllers /\ MaxBackups \in Nat
    /\ HeldAtFirst \subseteq [Controllers -> [Numbers -> Details \cup {Timed, NoEntry}]]

VARIABLES
    held,       \* what each controller holds
    local,      \* sys.cards: the details of each credential
    backups,    \* how many backups the server has
    panel,      \* "none", "import" or "backups": the dialog that is open
    list,       \* the preview on the page, NoEntry while there is none
    choice,     \* what the user chose for each credential of it
    apply,      \* is the Apply button enabled
    previews,   \* previewControllerImport() calls in flight
    applying,   \* applyControllerImport() in flight: the resolutions, what the server read, and
                \* what the page showed at the click (history)
    shown,      \* the backups on the page, NoEntry while it says Loading
    listing,    \* the answers to loadBackups() on their way, and the requests not yet served
    creating,   \* is a createBackup() or importBackup() in flight
    restoring,  \* the backups a restoreBackup() is in flight for
    spent,      \* the backups whose Restore button is disabled
    events,     \* counted, for the bound
    reported,   \* backups that were reported as made (history)
    crossed     \* the last listing was asked for while another was on its way (history)

world == <<held, local>>
import == <<list, choice, apply, previews, applying>>
archive == <<backups, shown, listing, creating, restoring, spent, reported, crossed>>
maintenanceVars == <<world, import, archive, panel, events>>

Counts == events < MaxChanges /\ events' = events + 1

-----------------------------------------------------------------------------
(* ReadControllerImport *)

Holders(h, n) == {c \in Controllers : h[c][n] # NoEntry}
Values(h, n) == {h[c][n] : c \in Holders(h, n)}

Status(h, n) ==
    IF Timed \in Values(h, n) THEN "blocked" ELSE IF Cardinality(Values(h, n)) = 1 THEN "ready" ELSE "choice"

Preview ==
    [n \in {m \in Numbers : Holders(held, m) # {}} |->
        [status |-> Status(held, n), match |-> local[n] # NoEntry, from |-> Holders(held, n)]]

Eligible(p) == {n \in DOMAIN p : p[n].status # "blocked"}

-----------------------------------------------------------------------------
(* previewControllerImport *)

OpenImport ==
    /\ panel = "none" /\ Counts
    /\ panel' = "import" /\ list' = NoEntry /\ choice' = <<>> /\ apply' = FALSE
    /\ previews' = previews + 1
    /\ UNCHANGED <<world, applying, archive>>

\* renderControllerImportRecord: the record of each eligible credential is checked, merged if it
\* is a local one, and from no controller.
Offered(p) == [n \in Eligible(p) |->
    [on |-> TRUE, mode |-> IF p[n].match THEN "merge" ELSE "override", from |-> NoEntry]]

PreviewAnswered ==
    /\ previews > 0
    /\ previews' = previews - 1
    /\ list' = Preview /\ choice' = Offered(Preview)
    /\ apply' = (Eligible(Preview) # {})
    /\ UNCHANGED <<world, applying, archive, panel, events>>

\* The error takes the place of the preview; the button stays as it is.
PreviewFails ==
    /\ previews > 0 /\ Counts
    /\ previews' = previews - 1
    /\ list' = NoEntry /\ choice' = <<>>
    /\ UNCHANGED <<world, apply, applying, archive, panel>>

Choose ==
    /\ panel = "import" /\ Counts
    /\ \E n \in DOMAIN choice, m \in {"merge", "override"}, c \in Controllers \cup {NoEntry}, on \in BOOLEAN :
           /\ m = "override" \/ list[n].match
           /\ c = NoEntry \/ (list[n].status = "choice" /\ c \in list[n].from)
           /\ choice' = [choice EXCEPT ![n] = [on |-> on, mode |-> m, from |-> c]]
    /\ choice' # choice
    /\ UNCHANGED <<world, list, apply, previews, applying, archive, panel>>

CloseDialog ==
    /\ panel # "none"
    /\ panel' = "none"
    /\ UNCHANGED <<world, import, archive, events>>

-----------------------------------------------------------------------------
(* applyControllerImport *)

Undecided == \E n \in DOMAIN choice : choice[n].on /\ list[n].status = "choice" /\ choice[n].from = NoEntry

\* A bug: only what is checked is sent.
ResolutionsOfChecked == [n \in {m \in DOMAIN choice : choice[m].on} |->
    [mode |-> choice[n].mode, from |-> choice[n].from]]

\* controllerImportResolutions
Resolutions == [n \in DOMAIN choice |->
    [mode |-> IF choice[n].on THEN choice[n].mode ELSE "skip", from |-> choice[n].from]]

\* With a credential undecided there is a message and no request.
ApplyClicked ==
    /\ panel = "import" /\ apply /\ applying = NoEntry /\ ~Undecided /\ Counts
    /\ applying' = [choices |-> Resolutions, read |-> NoEntry, asked |-> choice]
    /\ apply' = FALSE
    /\ UNCHANGED <<world, list, choice, previews, archive, panel>>

\* ApplyControllerImport reads the controllers and the credentials, and makes a safety backup,
\* before it takes sys.Lock.
ApplyReads ==
    /\ applying # NoEntry /\ applying.read = NoEntry /\ backups < MaxBackups
    /\ applying' = [applying EXCEPT !.read = [held |-> held, preview |-> Preview]]
    /\ backups' = backups + 1
    /\ UNCHANGED <<world, list, choice, apply, previews, shown, listing, creating, restoring, spent,
                   reported, crossed, panel, events>>

ResolutionFor(n) ==
    IF n \in DOMAIN applying.choices THEN applying.choices[n] ELSE [mode |-> "unset", from |-> NoEntry]

\* What is imported of a credential that was read, if anything is.
Source(n) ==
    LET r == ResolutionFor(n)
        p == applying.read.preview IN
    IF n \notin Eligible(p) \/ r.mode = "skip" THEN NoEntry
    ELSE IF p[n].status = "ready" THEN CHOOSE v \in Values(applying.read.held, n) : TRUE
    ELSE IF r.from \in p[n].from THEN applying.read.held[r.from][n] ELSE NoEntry

\* PreserveDetails
Preserves(n) == applying.read.preview[n].match /\ ResolutionFor(n).mode # "override"

\* MergeControllerImports
Merged == [n \in Numbers |->
    IF Source(n) = NoEntry \/ (local[n] # NoEntry /\ Preserves(n)) THEN local[n] ELSE Source(n)]

Commit == applying # NoEntry /\ applying.read # NoEntry /\ local' = Merged

\* The panel is closed and load() is called; an answer that is lost leaves the panel open.
ApplyDone ==
    /\ Commit
    /\ applying' = NoEntry
    /\ panel' = (IF panel = "import" THEN "none" ELSE panel)
    /\ UNCHANGED <<held, list, choice, apply, previews, archive, events>>

ApplyFails ==
    /\ applying # NoEntry /\ Counts
    /\ Commit \/ UNCHANGED local
    /\ applying' = NoEntry /\ apply' = TRUE
    /\ UNCHANGED <<held, list, choice, previews, archive, panel>>

-----------------------------------------------------------------------------
(* The backups. *)

Unserved == MaxBackups + 1

\* loadBackups() up to its await
StartListing ==
    /\ shown' = NoEntry /\ spent' = {}
    /\ listing' = Append(listing, Unserved)
    /\ crossed' = (listing # <<>>)

OpenBackups ==
    /\ panel = "none" /\ Counts /\ Len(listing) < 2
    /\ panel' = "backups"
    /\ StartListing
    /\ UNCHANGED <<world, import, backups, creating, restoring, reported>>

ListingServed ==
    /\ \E i \in DOMAIN listing : listing[i] = Unserved /\ listing' = [listing EXCEPT ![i] = backups]
    /\ UNCHANGED <<world, import, backups, shown, creating, restoring, spent, reported, crossed, panel, events>>

\* The answers come in any order, and the last to come is what is shown.
ListingArrives ==
    /\ \E i \in DOMAIN listing :
           /\ listing[i] # Unserved
           /\ shown' = listing[i]
           /\ listing' = RemoveAt(listing, i)
    /\ spent' = {}
    /\ UNCHANGED <<world, import, backups, creating, restoring, reported, crossed, panel, events>>

ListingFails ==
    /\ listing # <<>> /\ Counts
    /\ \E i \in DOMAIN listing : listing' = RemoveAt(listing, i)
    /\ UNCHANGED <<world, import, backups, shown, creating, restoring, spent, reported, crossed, panel>>

\* createBackup, and importBackup with an archive of the user
CreateClicked ==
    /\ panel = "backups" /\ ~creating /\ Counts
    /\ creating' = TRUE
    /\ UNCHANGED <<world, import, backups, shown, listing, restoring, spent, reported, crossed, panel>>

ThenListed == StartListing

BackupMade ==
    /\ creating /\ backups < MaxBackups /\ Len(listing) < 2
    /\ backups' = backups + 1 /\ reported' = backups + 1
    /\ creating' = FALSE
    /\ ThenListed
    /\ UNCHANGED <<world, import, restoring, panel, events>>

CreateFails ==
    /\ creating /\ Counts
    /\ creating' = FALSE
    /\ backups' = backups \/ (backups < MaxBackups /\ backups' = backups + 1)
    /\ UNCHANGED <<world, import, shown, listing, restoring, spent, reported, crossed, panel>>

\* restoreBackup: the button stays disabled after an error, because event.currentTarget is null
\* by then; a new list has new buttons.
RestoreClicked ==
    /\ panel = "backups" /\ shown # NoEntry /\ Counts
    /\ \E b \in (1..shown) \ spent : restoring' = restoring \cup {b} /\ spent' = spent \cup {b}
    /\ UNCHANGED <<world, import, backups, shown, listing, creating, reported, crossed, panel>>

RestoreFails ==
    /\ Counts
    /\ \E b \in restoring : restoring' = restoring \ {b}
    /\ \/ UNCHANGED <<local, backups>>
       \/ backups < MaxBackups /\ backups' = backups + 1 /\ local' \in [Numbers -> Details \cup {NoEntry}]
    /\ UNCHANGED <<held, import, shown, listing, creating, spent, reported, crossed, panel>>

\* The server ends, and the page is loaded again once it is back.
Restored ==
    /\ restoring # {} /\ backups < MaxBackups
    /\ backups' = backups + 1
    /\ local' \in [Numbers -> Details \cup {NoEntry}]
    /\ list' = NoEntry /\ choice' = <<>> /\ apply' = FALSE /\ previews' = 0 /\ applying' = NoEntry
    /\ shown' = NoEntry /\ listing' = <<>> /\ creating' = FALSE /\ restoring' = {} /\ spent' = {}
    /\ reported' = 0 /\ crossed' = FALSE
    /\ panel' = "none"
    /\ UNCHANGED <<held, events>>

-----------------------------------------------------------------------------
\* Credentials are put on a controller or taken off it; another client edits.
Elsewhere ==
    /\ Counts
    /\ \/ \E c \in Controllers, n \in Numbers, v \in Details \cup {Timed, NoEntry} :
              held' = [held EXCEPT ![c][n] = v] /\ UNCHANGED local
       \/ \E n \in Numbers, v \in Details \cup {NoEntry} :
              local' = [local EXCEPT ![n] = v] /\ UNCHANGED held
    /\ UNCHANGED <<import, archive, panel>>

MaintenanceInit ==
    /\ held \in HeldAtFirst /\ local \in [Numbers -> Details \cup {NoEntry}]
    /\ backups = 0 /\ panel = "none"
    /\ list = NoEntry /\ choice = <<>> /\ apply = FALSE /\ previews = 0 /\ applying = NoEntry
    /\ shown = NoEntry /\ listing = <<>> /\ creating = FALSE /\ restoring = {} /\ spent = {}
    /\ events = 0 /\ reported = 0 /\ crossed = FALSE

MaintenanceNext ==
    \/ OpenImport \/ PreviewAnswered \/ PreviewFails \/ Choose \/ CloseDialog
    \/ ApplyClicked \/ ApplyReads \/ ApplyDone \/ ApplyFails
    \/ OpenBackups \/ ListingServed \/ ListingArrives \/ ListingFails
    \/ CreateClicked \/ BackupMade \/ CreateFails
    \/ RestoreClicked \/ RestoreFails \/ Restored
    \/ Elsewhere

MaintenanceSpec == MaintenanceInit /\ [][MaintenanceNext]_maintenanceVars

-----------------------------------------------------------------------------
MaintenanceTypeOK ==
    /\ held \in [Controllers -> [Numbers -> Details \cup {Timed, NoEntry}]]
    /\ local \in [Numbers -> Details \cup {NoEntry}]
    /\ backups \in 0..MaxBackups /\ reported \in 0..backups
    /\ shown \in 0..backups \cup {NoEntry} /\ spent \subseteq 1..MaxBackups
    /\ DOMAIN choice \subseteq Numbers
    /\ panel \in {"none", "import", "backups"}
    /\ {apply, creating, crossed} \subseteq BOOLEAN

\* 'Safe controller import': what the user left out stays as it is; a credential that was a
\* local one when the server read it keeps its dates and PIN unless it was to be overridden;
\* and what does change has what a controller held, the chosen one where they differed.
ImportAsChosen ==
    [][applying # NoEntry /\ applying' = NoEntry /\ Commit =>
           \A n \in Numbers : local'[n] # local[n] =>
               LET read == applying.read
                   asked == n \in DOMAIN applying.asked
                   chosen == applying.asked[n] IN
               /\ asked => chosen.on
               /\ local[n] # NoEntry /\ read.preview[n].match => asked /\ chosen.mode = "override"
               /\ read.preview[n].status = "choice" => asked /\ local'[n] = read.held[chosen.from][n]
               /\ local'[n] \in Values(read.held, n)]_maintenanceVars

\* A backup that was reported as made is in the list that is loaded after it, unless a list was
\* on its way already, whose answer may come last.
ReportedIsListed == listing = <<>> /\ ~crossed /\ shown # NoEntry => shown >= reported

=============================================================================
