----------------------------- MODULE DoorEditor -----------------------------
(***************************************************************************)
(* The controller and relay pages of the console (gate-control.js): one    *)
(* browser with its copy of the snapshot, the door dialog and the          *)
(* controller dialog, and the handlers behind their buttons.  A handler is *)
(* a chain of requests.  While one is in flight the user goes on, the copy *)
(* is loaded again and other clients edit; what the chain sends next is    *)
(* taken from where the code takes it, which for some of it is the dialog  *)
(* as it is after the await.                                               *)
(*                                                                         *)
(* A request is served and answered in one step: whatever happens between  *)
(* the two could as well have happened before, because the handlers read   *)
(* nothing of the answer but its outcome and the OID of a new record.  A   *)
(* lost request may have been served or not.                               *)
(***************************************************************************)
EXTENDS Naturals, FiniteSets

CONSTANTS
    Doors,        \* OIDs of doors
    LoadedFields, \* what the doors there are at the start may hold
    LoadedSlots,  \* which doors may be on the channels at the start
    Channels,     \* relay channels, of all controllers
    Settings,     \* what the fields of a door can hold; the name is one of them
    Nothing,      \* no channel, or nothing on a channel
    New,          \* the dialog of a door that has no OID yet
    Unnamed,      \* the fields of a door that was created and not yet edited
    MaxDoorEvents \* how often, together, a dialog is opened or changed while no save may yet
                  \* read it, another client writes and a request is lost

ASSUME DoorAssumption ==
    /\ Nothing \notin Doors \cup Channels /\ New \notin Doors
    /\ LoadedFields \subseteq [Doors -> Settings \cup {Unnamed}]
    /\ LoadedSlots \subseteq [Channels -> Doors \cup {Nothing}]

VARIABLES
    door,     \* sys.doors: "none" (never made), "live", "deleted" or "swept"
    fields,   \* what the fields of each door hold
    slot,     \* sys.controllers: the door on each channel
    behind,   \* what the controllers have not been told of: "relays", "rules"
    view,     \* DB: the browser's copy of doors, fields and channels
    load,     \* load(): where its request is, and what it has read
    notice,   \* is the message of success on the page
    doorForm, \* doorForm and doorDialog
    panel,    \* controllerForm and controllerDialog
    save,     \* the saveDoor() in flight
    erase,    \* the deleteDoor() in flight
    setup,    \* the saveController() in flight
    buttons,  \* which of the buttons "save", "delete" and "setup" are enabled
    events,   \* counted, for the bound
    wanted,   \* what the dialog showed since its button was clicked, until it was read (history)
    raced     \* somebody else wrote since the open dialog was filled, or another dialog was
              \* opened while a handler was on its way (history)

server == <<door, fields, slot, behind>>
dialogs == <<doorForm, panel>>
handlers == <<save, erase, setup>>
history == <<wanted, raced>>
doorVars == <<server, view, load, notice, dialogs, handlers, buttons, events, history>>

Resting == [at |-> "idle", oid |-> Nothing, was |-> Nothing, fields |-> Unnamed, patch |-> <<>>]
Unsaid == [fields |-> {}, channels |-> {}, slot |-> <<>>]
Closed == [open |-> FALSE, oid |-> New, original |-> Nothing, channel |-> Nothing,
           fields |-> Unnamed, return |-> FALSE]

Waits(h) == h.at \notin {"idle", "reload"}

Busy == Waits(save) \/ Waits(erase) \/ Waits(setup)

-----------------------------------------------------------------------------
(* The server.  A request is validated and applied as a whole, under sys.Lock. *)

\* A door without a name is listed only while it is on a channel.
ShownDoors == [d \in Doors |->
    IF door[d] = "live" /\ fields[d] = Unnamed /\ \A k \in Channels : slot[k] # d THEN "none" ELSE door[d]]

\* What /api/v1/snapshot answers, were it read at once.
Copy == [door |-> ShownDoors, fields |-> fields, slot |-> slot]

InList(s) == s \in {"live", "deleted"}

\* Doors.Validate: live doors have different names (a blank one is no name).
NamesDiffer(ds, fs) ==
    \A a, b \in {d \in Doors : ds[d] = "live"} : fs[a] = fs[b] /\ fs[a] # Unnamed => a = b

\* UpdateDoors: no channel may be left with a door that is deleted or not in the list.
HeldAreLive(ds) == \A k \in Channels : slot[k] # Nothing => ds[slot[k]] = "live"

ValidDoors(ds, fs) == NamesDiffer(ds, fs) /\ HeldAreLive(ds)

UpdateDoors(ds, fs) ==
    /\ ValidDoors(ds, fs)
    /\ door' = ds /\ fields' = fs
    /\ behind' = behind \cup {"relays"}
    /\ UNCHANGED slot

CreateDoor(d) ==
    /\ door[d] = "none"
    /\ UpdateDoors([door EXCEPT ![d] = "live"], [fields EXCEPT ![d] = Unnamed])

\* Door.set refuses a deleted record; a record that is not in the list is passed over.
With(d, f) == IF door[d] = "live" THEN [fields EXCEPT ![d] = f] ELSE fields

CanUpdateDoor(d, f) == door[d] # "deleted" /\ ValidDoors(door, With(d, f))

UpdateDoor(d, f) == CanUpdateDoor(d, f) /\ UpdateDoors(door, With(d, f))

Without(d) == IF InList(door[d]) THEN [door EXCEPT ![d] = "deleted"] ELSE door

DeleteDoor(d) == UpdateDoors(Without(d), fields)

\* validate() of UpdateControllers: an assigned door is in the list, deleted or not, and
\* is assigned once.
ValidControllers(s) ==
    \A k \in Channels : s[k] # Nothing =>
        /\ InList(door[s[k]])
        /\ \A m \in Channels : s[m] = s[k] => m = k

Patched(patch) == [k \in Channels |-> IF k \in DOMAIN patch THEN patch[k] ELSE slot[k]]

UpdateControllers(patch) ==
    /\ ValidControllers(Patched(patch))
    /\ slot' = Patched(patch)
    /\ behind' = behind \cup {"relays", "rules"}
    /\ UNCHANGED <<door, fields>>

\* /synchronize/doors and /synchronize/ACL
Synchronize(what) ==
    /\ behind' = behind \ {what}
    /\ UNCHANGED <<door, fields, slot>>

Sweep(d) ==
    /\ door[d] = "deleted"
    /\ door' = [door EXCEPT ![d] = "swept"]
    /\ UNCHANGED <<fields, slot, behind>>

\* Another client, or the sweep of the server.
EditsElsewhere ==
    /\ events < MaxDoorEvents
    /\ events' = events + 1
    /\ \E d \in Doors : \/ save.at # "create" /\ CreateDoor(d)    \* the OIDs are few
                        \/ DeleteDoor(d) \/ Sweep(d)
                        \/ \E f \in Settings : UpdateDoor(d, f)
                        \/ \E k \in Channels, e \in {d, Nothing} : UpdateControllers([m \in {k} |-> e])
    /\ server' # server /\ raced' = TRUE
    /\ UNCHANGED <<view, load, notice, dialogs, handlers, buttons, wanted>>

\* renderControllerDoors: a select for each channel; a deleted door is not among its options.
Selects(v) == [k \in Channels |->
    IF v.slot[k] # Nothing /\ v.door[v.slot[k]] = "live" THEN v.slot[k] ELSE Nothing]

\* A controller dialog the door dialog was opened from gets its selects anew.
Returns == doorForm.return /\ panel.open
Returned(v) == IF Returns THEN [panel EXCEPT !.slot = Selects(v)] ELSE panel

-----------------------------------------------------------------------------
(* load(): the lists are read one after the other. *)

\* The body of load() up to its await.  A call while another is in flight returns at once.
\* The channels are read at the send, which is as old as they can be when the answer comes.
StartLoad ==
    IF load.at = "idle"
    THEN load' = [at |-> "sent", view |-> [view EXCEPT !.slot = slot']] /\ notice' = FALSE
    ELSE UNCHANGED load

\* setInterval, and the load() at the end of controlDoor and manualRefresh.
Poll ==
    /\ load.at = "idle"
    /\ UNCHANGED <<server, view, dialogs, handlers, buttons, events, history>>
    /\ StartLoad

ReadDoors ==
    /\ load.at = "sent"
    /\ load' = [load EXCEPT !.at = "read", !.view = [@ EXCEPT !.door = ShownDoors, !.fields = fields]]
    /\ UNCHANGED <<server, view, notice, dialogs, handlers, buttons, events, history>>

\* What waits for the load goes on: the buttons are enabled again, and a controller dialog
\* under the door dialog gets its selects anew from the copy.
AfterLoad(v) ==
    LET waiting(h) == h.at = "reload"
        done(h) == IF waiting(h) THEN Resting ELSE h
        both == waiting(save) \/ waiting(erase)
    IN  /\ save' = done(save) /\ erase' = done(erase) /\ setup' = done(setup)
        /\ buttons' = buttons \cup (IF both THEN {"save"} ELSE {})
                              \cup (IF waiting(erase) THEN {"delete"} ELSE {})
                              \cup (IF waiting(setup) THEN {"setup"} ELSE {})
        /\ IF both
           THEN /\ doorForm' = [doorForm EXCEPT !.return = FALSE] /\ panel' = Returned(v)
                /\ raced' = (~Returns \/ doorForm.open \/ Busy \/ v # Copy)
           ELSE UNCHANGED <<dialogs, raced>>

LoadArrives ==
    /\ load.at = "read"
    /\ view' = load.view
    /\ load' = [load EXCEPT !.at = "idle"]
    /\ AfterLoad(load.view)
    /\ UNCHANGED <<server, notice, events, wanted>>

LoadFails ==
    /\ load.at # "idle" /\ events < MaxDoorEvents
    /\ events' = events + 1
    /\ load' = [at |-> "idle", view |-> view]
    /\ notice' = FALSE
    /\ AfterLoad(view)
    /\ UNCHANGED <<server, view, wanted>>

-----------------------------------------------------------------------------
(* The dialogs. *)

\* doorAssignment(): the channel of a door, in the copy.
ChannelOf(d) ==
    IF \E k \in Channels : view.slot[k] = d
    THEN CHOOSE k \in Channels : view.slot[k] = d
    ELSE Nothing

\* editDoor: a door that is no longer in the copy gets the dialog of a new one.
FormOf(d, k) ==
    IF d \in Doors /\ InList(view.door[d])
    THEN [open |-> TRUE, oid |-> d, original |-> ChannelOf(d), channel |-> ChannelOf(d),
          fields |-> view.fields[d], return |-> FALSE]
    ELSE [open |-> TRUE, oid |-> New, original |-> Nothing, channel |-> k,
          fields |-> Unnamed, return |-> FALSE]

OpenDialog ==
    /\ events < MaxDoorEvents
    /\ events' = events + 1
    /\ raced' = (view # Copy \/ Busy \/ (panel.open /\ raced))
    /\ UNCHANGED <<server, view, load, notice, handlers, buttons, wanted>>

\* A click on Add door or on a row; a modal dialog hides the page.
EditDoor ==
    /\ ~doorForm.open /\ ~panel.open
    /\ \E d \in {e \in Doors : view.door[e] = "live"} \cup {New} :
           doorForm' = [FormOf(d, Nothing) EXCEPT !.return = doorForm.return]
    /\ OpenDialog
    /\ UNCHANGED panel

EditController ==
    /\ ~doorForm.open /\ ~panel.open
    /\ panel' = [open |-> TRUE, slot |-> Selects(view)]
    /\ OpenDialog
    /\ UNCHANGED doorForm

\* editControllerDoor: the door dialog over the controller dialog.
EditControllerDoor ==
    /\ panel.open /\ ~doorForm.open
    /\ \E k \in Channels :
           doorForm' = [FormOf(panel.slot[k], k) EXCEPT !.channel = k, !.return = TRUE]
    /\ OpenDialog
    /\ UNCHANGED panel

\* saveDoor() reads the fields once and the channel twice: at the click, when it has the OID of
\* a new door, and when the fields are saved.
Seen(f, k) ==
    [fields |-> IF save.at = "create" THEN wanted.fields \cup {f} ELSE wanted.fields,
     channels |-> IF save.at \in {"create", "update"} THEN wanted.channels \cup {k} ELSE wanted.channels,
     slot |-> wanted.slot]

\* The user fills the dialog in, also while it is saved: a channel that the copy shows as taken
\* is disabled.
FillForm ==
    /\ doorForm.open
    /\ IF save.at \in {"create", "update"} THEN UNCHANGED events
       ELSE events < MaxDoorEvents /\ events' = events + 1
    /\ \E f \in Settings, k \in Channels \cup {Nothing} :
           /\ k \in Channels => view.slot[k] \in {Nothing, doorForm.oid}
           /\ doorForm' = [doorForm EXCEPT !.fields = f, !.channel = k]
           /\ wanted' = Seen(f, k)
    /\ doorForm' # doorForm
    /\ UNCHANGED <<server, view, load, notice, panel, handlers, buttons, raced>>

FillPanel ==
    /\ panel.open /\ ~doorForm.open /\ events < MaxDoorEvents
    /\ events' = events + 1
    /\ \E k \in Channels, d \in {e \in Doors : view.door[e] = "live"} \cup {Nothing} :
           panel' = [panel EXCEPT !.slot[k] = d]
    /\ panel' # panel
    /\ UNCHANGED <<server, view, load, notice, doorForm, handlers, buttons, history>>

\* What is left of a dialog that is closed: what a handler may still read of it.
Shut == IF save.at \in {"create", "update"} THEN [doorForm EXCEPT !.open = FALSE]
                                           ELSE [Closed EXCEPT !.return = doorForm.return]
Away == [open |-> FALSE, slot |-> [k \in Channels |-> Nothing]]

\* Cancel, the close button or Escape, which are never disabled. Escape closes the dialog and
\* leaves where to return to.
CancelDialog ==
    /\ \/ doorForm.open /\ doorForm' \in {Shut, [Shut EXCEPT !.return = FALSE]} /\ UNCHANGED panel
       \/ ~doorForm.open /\ panel.open /\ panel' = Away /\ UNCHANGED doorForm
    /\ UNCHANGED <<server, view, load, notice, handlers, buttons, events, history>>

-----------------------------------------------------------------------------
(* The requests of the handlers, and how a handler ends. *)

Request(h) ==
    \/ h.at = "create" /\ \E d \in Doors : CreateDoor(d)
    \/ h.at = "update" /\ UpdateDoor(h.oid, h.fields)
    \/ h.at \in {"clear", "assign"} /\ UpdateControllers(h.patch)
    \/ h.at = "delete" /\ DeleteDoor(h.oid)
    \/ h.at \in {"relays", "rules"} /\ Synchronize(h.at)

Refused(h) ==
    /\ \/ h.at = "create" /\ ~ValidDoors(door, fields)
       \/ h.at = "update" /\ ~CanUpdateDoor(h.oid, h.fields)
       \/ h.at \in {"clear", "assign"} /\ ~ValidControllers(Patched(h.patch))
       \/ h.at = "delete" /\ ~ValidDoors(Without(h.oid), fields)
    /\ UNCHANGED <<server, events>>

\* No answer, or an error that is not a refusal: a controller that does not respond.
Lost(h) ==
    /\ Waits(h) /\ events < MaxDoorEvents
    /\ events' = events + 1
    /\ UNCHANGED server \/ Request(h)

\* The catch and the finally of a handler: the dialog stays as it is.
Caught(enabled) ==
    /\ notice' = FALSE
    /\ buttons' = buttons \cup enabled
    /\ UNCHANGED <<load, dialogs>>

\* showNotice() and load(), which clears the notice it finds.  A load that is in flight already
\* is not waited for: the rest of the handler runs at once.
ThenLoad ==
    IF load.at = "idle" THEN StartLoad ELSE notice' = TRUE /\ UNCHANGED load

\* The end of saveDoor and deleteDoor.
DoorDialogDone(enabled) ==
    /\ ThenLoad
    /\ IF load.at = "idle"
       THEN doorForm' = Shut /\ UNCHANGED <<panel, buttons>>
       ELSE /\ doorForm' = [Shut EXCEPT !.return = FALSE]
            /\ panel' = Returned(view)
            /\ buttons' = buttons \cup enabled

Then == IF load.at = "idle" THEN [Resting EXCEPT !.at = "reload"] ELSE Resting

\* The history of a handler that ends: what a dialog still shows may be out of date, unless
\* it was filled anew.
Forget(anew) == wanted' = Unsaid /\ raced' = (~anew \/ Busy' \/ view # Copy')

-----------------------------------------------------------------------------
(* saveDoor *)

Moved == doorForm.original # doorForm.channel

Taken(oid) == Moved /\ doorForm.channel # Nothing /\ view.slot[doorForm.channel] \notin {Nothing, oid}

Moves(oid) ==
    [k \in IF Moved THEN {doorForm.channel, doorForm.original} \ {Nothing} ELSE {} |->
        IF k = doorForm.channel THEN oid ELSE Nothing]

\* A bug: the channel is compared for a door that existed only.
ToAssignOfExisting(h) ==
    [h EXCEPT !.at = IF Taken(h.oid) THEN "taken" ELSE IF Moved /\ h.was # Nothing THEN "assign" ELSE "relays",
              !.patch = Moves(h.oid)]

\* What the handler does next: from the dialog and the copy as they are at that moment.
ToAssign(h) ==
    [h EXCEPT !.at = IF Taken(h.oid) THEN "taken" ELSE IF Moved THEN "assign" ELSE "relays",
              !.patch = Moves(h.oid)]

ToUpdate(h) ==
    IF h.was = Nothing \/ doorForm.fields # h.was
    THEN [h EXCEPT !.at = "update", !.fields = doorForm.fields]
    ELSE ToAssign(h)

SaveGoesOn(h) ==
    IF h.at = "taken"    \* 'Physical door ... is already assigned.'
    THEN save' = Resting /\ Caught({"save"})
    ELSE /\ save' = h
         /\ buttons' = buttons \ {"save"}
         /\ UNCHANGED <<load, notice, dialogs>>

SaveDoorClicked ==
    /\ doorForm.open /\ doorForm.fields \in Settings /\ "save" \in buttons /\ save.at = "idle"
    /\ doorForm.oid = New => \E d \in Doors : door[d] = "none"
    /\ LET h == [Resting EXCEPT !.oid = doorForm.oid,
                 !.was = IF doorForm.oid # New /\ InList(view.door[doorForm.oid]) THEN view.fields[doorForm.oid] ELSE Nothing]
       IN  SaveGoesOn(IF doorForm.oid = New THEN [h EXCEPT !.at = "create"] ELSE ToUpdate(h))
    /\ wanted' = [fields |-> {doorForm.fields}, channels |-> {doorForm.channel}, slot |-> <<>>]
    /\ raced' = (raced \/ view # Copy \/ Waits(erase) \/ Waits(setup))
    /\ UNCHANGED <<server, view, erase, setup, events>>

SaveServed ==
    /\ \/ /\ save.at = "create"
          /\ \E d \in Doors : CreateDoor(d) /\ SaveGoesOn(ToUpdate([save EXCEPT !.oid = d]))
       \/ save.at = "update" /\ Request(save) /\ SaveGoesOn(ToAssign(save))
       \/ save.at = "assign" /\ Request(save) /\ SaveGoesOn([save EXCEPT !.at = "relays"])
    /\ UNCHANGED <<view, erase, setup, events, history>>

SaveDone ==
    /\ save.at = "relays" /\ Request(save)
    /\ DoorDialogDone({"save"})
    /\ save' = Then
    /\ UNCHANGED <<view, erase, setup, events>>
    /\ Forget(Returns /\ load.at # "idle")

SaveFails ==
    /\ Refused(save) \/ Lost(save)
    /\ save' = Resting /\ Caught({"save"})
    /\ UNCHANGED <<view, erase, setup>>
    /\ Forget(FALSE)

-----------------------------------------------------------------------------
(* deleteDoor: it disables both buttons of the dialog and enables both. *)

DeleteClicked ==
    /\ doorForm.open /\ doorForm.oid # New /\ "delete" \in buttons /\ erase.at = "idle"
    /\ InList(view.door[doorForm.oid])
    /\ LET those == {k \in Channels : view.slot[k] = doorForm.oid} IN
       erase' = [Resting EXCEPT !.at = IF those = {} THEN "delete" ELSE "clear", !.oid = doorForm.oid,
                             !.patch = [k \in those |-> Nothing]]
    /\ buttons' = buttons \ {"save", "delete"}
    /\ raced' = (raced \/ view # Copy \/ Waits(save) \/ Waits(setup))
    /\ UNCHANGED <<server, view, load, notice, dialogs, save, setup, events, wanted>>

DeleteServed ==
    /\ \/ erase.at = "clear" /\ erase' = [erase EXCEPT !.at = "delete"]
       \/ erase.at = "delete" /\ erase' = [erase EXCEPT !.at = "rules"]
    /\ Request(erase)
    /\ UNCHANGED <<view, load, notice, dialogs, save, setup, buttons, events, history>>

DeleteDone ==
    /\ erase.at = "rules" /\ Request(erase)
    /\ DoorDialogDone({"save", "delete"})
    /\ erase' = Then
    /\ UNCHANGED <<view, save, setup, events>>
    /\ Forget(Returns /\ load.at # "idle")

DeleteFails ==
    /\ Refused(erase) \/ Lost(erase)
    /\ erase' = Resting /\ Caught({"save", "delete"})
    /\ UNCHANGED <<view, save, setup>>
    /\ Forget(FALSE)

-----------------------------------------------------------------------------
(* saveController: the channels that differ from the copy at the time of the click. *)

SetupClicked ==
    /\ panel.open /\ ~doorForm.open /\ "setup" \in buttons
    /\ LET changed == {k \in Channels : panel.slot[k] # view.slot[k]} IN
       IF changed = {}
       THEN panel' = Away /\ UNCHANGED <<setup, buttons, wanted, raced>>
       ELSE /\ setup' = [Resting EXCEPT !.at = "assign", !.patch = [k \in changed |-> panel.slot[k]]]
            /\ buttons' = buttons \ {"setup"}
            /\ raced' = (raced \/ view # Copy \/ Waits(save) \/ Waits(erase))
            /\ wanted' = [Unsaid EXCEPT !.slot = panel.slot]
            /\ UNCHANGED panel
    /\ UNCHANGED <<server, view, load, notice, doorForm, save, erase, events>>

SetupServed ==
    /\ \/ setup.at = "assign" /\ setup' = [setup EXCEPT !.at = "relays"]
       \/ setup.at = "relays" /\ setup' = [setup EXCEPT !.at = "rules"]
    /\ Request(setup)
    /\ UNCHANGED <<view, load, notice, dialogs, save, erase, buttons, events, history>>

SetupDone ==
    /\ setup.at = "rules" /\ Request(setup)
    /\ ThenLoad
    /\ panel' = Away
    /\ setup' = Then
    /\ buttons' = IF load.at = "idle" THEN buttons ELSE buttons \cup {"setup"}
    /\ UNCHANGED <<view, doorForm, save, erase, events>>
    /\ Forget(FALSE)

SetupFails ==
    /\ Refused(setup) \/ Lost(setup)
    /\ setup' = Resting /\ Caught({"setup"})
    /\ UNCHANGED <<view, save, erase>>
    /\ Forget(FALSE)

-----------------------------------------------------------------------------
DoorInit ==
    /\ fields \in LoadedFields
    /\ door = [d \in Doors |-> IF fields[d] = Unnamed THEN "none" ELSE "live"]
    /\ slot \in LoadedSlots
    /\ ValidDoors(door, fields) /\ ValidControllers(slot)
    /\ behind = {}
    /\ view = Copy /\ load = [at |-> "idle", view |-> view] /\ notice = FALSE
    /\ doorForm = Closed /\ panel = Away
    /\ save = Resting /\ erase = Resting /\ setup = Resting
    /\ buttons = {"save", "delete", "setup"}
    /\ events = 0
    /\ wanted = Unsaid
    /\ raced = TRUE

Answers == \/ SaveServed \/ SaveDone \/ SaveFails
           \/ DeleteServed \/ DeleteDone \/ DeleteFails
           \/ SetupServed \/ SetupDone \/ SetupFails

DoorNext == \/ Poll \/ ReadDoors \/ LoadArrives \/ LoadFails
        \/ EditDoor \/ EditController \/ EditControllerDoor \/ FillForm \/ FillPanel \/ CancelDialog
        \/ SaveDoorClicked \/ DeleteClicked \/ SetupClicked
        \/ Answers
        \/ EditsElsewhere

DoorSpec == DoorInit /\ [][DoorNext]_doorVars

-----------------------------------------------------------------------------
DoorTypeOK ==
    /\ door \in [Doors -> {"none", "live", "deleted", "swept"}]
    /\ fields \in [Doors -> Settings \cup {Unnamed}]
    /\ slot \in [Channels -> Doors \cup {Nothing}]
    /\ behind \subseteq {"relays", "rules"}
    /\ load.at \in {"idle", "sent", "read"}
    /\ doorForm.oid \in Doors \cup {New} /\ doorForm.channel \in Channels \cup {Nothing}
    /\ DOMAIN panel.slot = Channels
    /\ save.at \in {"idle", "create", "update", "assign", "relays", "reload"}
    /\ erase.at \in {"idle", "clear", "delete", "rules", "reload"}
    /\ setup.at \in {"idle", "assign", "relays", "rules", "reload"}
    /\ buttons \subseteq {"save", "delete", "setup"}

\* What a handler that ends well has done. A dialog that is not touched while it is saved shows
\* one value of each kind.
AsSubmitted ==
    /\ SaveDone /\ ~raced =>
         /\ door[save.oid] = "live" /\ fields[save.oid] \in wanted.fields
         /\ \E c \in wanted.channels : \A k \in Channels : slot[k] = save.oid <=> k = c
         /\ "relays" \notin behind'
    /\ DeleteDone /\ ~raced =>
         /\ door[erase.oid] # "live"
         /\ \A k \in Channels : slot[k] # erase.oid
         /\ "rules" \notin behind'
    /\ SetupDone /\ ~raced => slot = wanted.slot /\ behind' = {}

\* A save, a deletion or a controller that is reported as done is what its dialog showed: a door
\* is live, has fields that the dialog showed between the click and the request that sends them, is
\* on the one channel that it showed by then or until the fields were saved, or on none, and the
\* controllers were told. Typing while the dialog is saved is covered. Nothing is said (raced) when
\* another client or another handler wrote in between, and when the dialog was left and one
\* opened again while the handler was on its way: saveDoor() then reads what that one shows,
\* whichever door it is for.
DoorsAsSubmitted == [][AsSubmitted]_doorVars

\* A bug: the assigned doors are listed with the others.
RowsOfAll(v) == {<<k, v.slot[k]>> : k \in Channels}
                    \cup {<<Nothing, d>> : d \in {e \in Doors : v.door[e] = "live"}}

\* controllerDoors(): a row for each channel and for each door without one.
Rows(v) == {<<k, v.slot[k]>> : k \in Channels}
               \cup {<<Nothing, d>> : d \in {e \in Doors : v.door[e] = "live" /\ \A k \in Channels : v.slot[k] # e}}

\* The Relays page has one row for every door the copy has, though the snapshot reads the
\* channels and the doors at different times.
EveryDoorHasARow ==
    \A d \in Doors : view.door[d] = "live" => Cardinality({r \in Rows(view) : r[2] = d}) = 1

=============================================================================
