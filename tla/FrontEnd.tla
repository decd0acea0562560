------------------------------ MODULE FrontEnd ------------------------------
(***************************************************************************)
(* The pages of the front end (App.tsx), each with what it talks to: the   *)
(* panels of the settings (pages/settings), and the others.  They share no *)
(* state.  A behaviour is a visit of one page or panel: it is unmounted    *)
(* when another one is opened, and what it keeps ends with it.  (LiveWall, *)
(* the largest page, the requests of Exchanges and the sockets of          *)
(* Connections are checked by runs of their own.)                          *)
(***************************************************************************)
EXTENDS Integers, FiniteSets, Sequences

-----------------------------------------------------------------------------
(* The settings.                                                           *)

CONSTANTS RowIds, RowsAtStart, Entries, MaxChanges
CONSTANTS Urls, ServerNames, Existing
CONSTANTS Servers, Streams
CONSTANTS ConfigAtStart, FieldValues, Telegrams, Invalid
CONSTANTS Plugins, Unconfigured, MaxCalls
CONSTANTS BoxCameras, Rests, MaxPresses, MaxEdits
CONSTANTS ZoneCameras, Colours, MaxZones, MaxZonePoints

VARIABLES panel
VARIABLES dialog, records, listed, listing, open, form, base, typedIn, update,
  create, changes, intended, lost
VARIABLES step, url, test, result, name, rtsp, mqtt, creating, created, sync, stepErr,
  servers, online, retyped
VARIABLES stage, done, error, serverId, cameraName, displayName, rtspMain, recordDays,
  add, syncing
VARIABLES configured, shownEditor, formValue, tgCfg, rawMode, raw, parseErr, saveMut,
  typed, tgTyped, rawUsed, dropped
VARIABLES plugins, switches, switching, calls, latest, configuring, thrown, missed
VARIABLES assigned, boxPlugins, fetching, boxCamera, boxes, status, sends, presses, edits,
  asOpened, wanted, overwritten
VARIABLES zoneCamera, zones, local, colorIndex, selectedZone, isDrawing, currentPoints,
  naming, storage

Forms    == INSTANCE SettingsForms
              WITH Ids <- RowIds, AtStart <- RowsAtStart, Values <- Entries,
                   stored <- records, query <- listing, edited <- typedIn, save <- update,
                   meant <- intended, strayed <- lost
Wizard   == INSTANCE ServerWizard WITH Names <- ServerNames, create <- creating
CamWizard == INSTANCE CameraWizard WITH step <- stage, sync <- syncing
Editor   == INSTANCE ConfigEditor
              WITH AtStart <- ConfigAtStart, Contents <- FieldValues,
                   config <- configured, opened <- shownEditor
Switches == INSTANCE PluginsPanel WITH shown <- switches, query <- switching
Boxes    == INSTANCE CameraPlugins
              WITH Cameras <- BoxCameras, Values <- Rests, MaxSaves <- MaxPresses,
                   config <- assigned, camera <- boxCamera, shown <- boxPlugins, query <- fetching,
                   puts <- sends, saves <- presses, meant <- wanted,
                   strayed <- overwritten
Zones    == INSTANCE ZoneWizard
              WITH Cameras <- ZoneCameras, MaxPoints <- MaxZonePoints, camera <- zoneCamera

forms    == <<dialog, records, listed, listing, open, form, base, typedIn, update,
              create, changes, intended, lost>>
wizard   == <<step, url, test, result, name, rtsp, mqtt, creating, created, sync,
              stepErr, servers, online, retyped>>
camwiz   == <<stage, done, error, serverId, cameraName, displayName, rtspMain,
              recordDays, add, syncing>>
editor   == <<configured, shownEditor, formValue, tgCfg, rawMode, raw, parseErr,
              saveMut, typed, tgTyped, rawUsed, dropped>>
toggles  == <<plugins, switches, switching, calls, latest, configuring, thrown, missed>>
ticks    == <<assigned, boxPlugins, fetching, boxCamera, boxes, status, sends, presses,
              edits, asOpened, wanted, overwritten>>
areas    == <<zoneCamera, zones, local, colorIndex, selectedZone, isDrawing,
              currentPoints, naming, storage>>
settings == <<panel, forms, wizard, camwiz, editor, toggles, ticks, areas>>

Panels == {"forms", "server wizard", "camera wizard", "editor", "switches", "boxes", "zones"}

SettingsInit ==
  /\ panel \in Panels
  /\ Forms!Init /\ Wizard!Init /\ CamWizard!Init
  /\ Editor!Init /\ Switches!Init /\ Boxes!Init /\ Zones!Init
  /\ panel # "forms" => dialog
  /\ panel # "switches" => \A p \in Plugins : plugins[p] # "on"

SettingsNext ==
  /\ UNCHANGED panel
  /\ \/ /\ panel = "forms" /\ Forms!Next
        /\ UNCHANGED <<wizard, camwiz, editor, toggles, ticks, areas>>
     \/ /\ panel = "server wizard" /\ Wizard!Next
        /\ UNCHANGED <<forms, camwiz, editor, toggles, ticks, areas>>
     \/ /\ panel = "camera wizard" /\ CamWizard!Next
        /\ UNCHANGED <<forms, wizard, editor, toggles, ticks, areas>>
     \/ /\ panel = "editor" /\ Editor!Next
        /\ UNCHANGED <<forms, wizard, camwiz, toggles, ticks, areas>>
     \/ /\ panel = "switches" /\ Switches!Next
        /\ UNCHANGED <<forms, wizard, camwiz, editor, ticks, areas>>
     \/ /\ panel = "boxes" /\ Boxes!Next
        /\ UNCHANGED <<forms, wizard, camwiz, editor, toggles, areas>>
     \/ /\ panel = "zones" /\ Zones!Next
        /\ UNCHANGED <<forms, wizard, camwiz, editor, toggles, ticks>>

-----------------------------------------------------------------------------
(* The other pages.                                                        *)

CONSTANTS Cameras
CONSTANTS Filters, All, Limit, MaxRows, Precious, OnMount
CONSTANTS MaxDetections, Detection, PageSize
CONSTANTS Recorded, Day, Stride, MaxCameras
CONSTANTS First, RulesAtStart, Contents, DefaultRule, Savable
CONSTANTS Places, Outline, MaxPoints
CONSTANTS LinesAtStart, LineKinds, MaxLines, MaxSaves
CONSTANTS NotesAtStart, Notes, MaxNotes
CONSTANTS Faces, NamesAtStart, People, MaxErrands

VARIABLES route
VARIABLES rows, newest, safe, visited, filter, items, marked, cursor, hasMore,
  loadedAt, banner, first, more, doomed, raced
VARIABLES latestRow, page, choice, detections, below, further, single, both, next, met
VARIABLES opened, chosen, loading, playing, clock, video
VARIABLES cam, fetched, query, rules, puts, draft, editing, meant, hasty, strayed
VARIABLES kind, points, edited, placing, dragging, pure
VARIABLES selected, config, refetch, counting, lines, dirty, put, phase, pending,
  began, late, saves
VARIABLES notes, noted, asking, index, formRule, requests, sent, elsewhere, noting, behind,
  rash
VARIABLES names, known, unknown, looking, face, appearances, tracing, namingFace,
  nameDraft, errands, made, older

List     == INSTANCE EventsPage
Found    == INSTANCE PluginPages
              WITH MaxRows <- MaxDetections, Row <- Detection, Limit <- PageSize,
                   newest <- latestRow, items <- detections, cursor <- below,
                   hasMore <- further, first <- single, more <- next, raced <- met
Playback == INSTANCE PlaybackPage WITH Watched <- Cameras
Rules    == INSTANCE RuleEditor
              WITH AtStart <- RulesAtStart, Default <- DefaultRule, stored <- rules
Drawing  == INSTANCE RuleDrawing
Lines    == INSTANCE CountingLines
              WITH AtStart <- LinesAtStart, query <- refetch, stored <- counting
Notified == INSTANCE NotificationRules
              WITH AtStart <- NotesAtStart, Contents <- Notes, MaxPuts <- MaxNotes,
                   stored <- notes, rules <- noted, query <- asking, editing <- index,
                   puts <- requests, edits <- elsewhere, meant <- noting, hasty <- rash
Persons  == INSTANCE FacesPage
              WITH AtStart <- NamesAtStart, MaxChanges <- MaxErrands,
                   stored <- names, query <- looking, selected <- face, calls <- errands,
                   behind <- older

ASSUME Parameters ==
  /\ List!PageSizes /\ Found!Sizes /\ Playback!Recordings /\ Rules!Listed /\ Drawing!Outlines
  /\ Lines!OfEach /\ Notified!ToldApart /\ Persons!Numbered
  /\ Forms!Filled /\ ConfigAtStart \in Editor!Configs

list     == <<rows, newest, safe, visited, filter, items, marked, cursor, hasMore,
              loadedAt, banner, first, more, doomed, raced>>
found    == <<latestRow, page, choice, detections, below, further, single, both, next, met>>
playback == <<opened, chosen, loading, playing, clock, video>>
rule     == <<cam, fetched, query, rules, puts, draft, editing, meant, hasty, strayed>>
drawing  == <<kind, points, edited, placing, dragging, pure>>
tab      == <<selected, config, refetch, counting, lines, dirty, put, phase, pending,
              began, late, saves>>
note     == <<notes, noted, asking, index, formRule, requests, sent, elsewhere, noting,
              behind, rash>>
person   == <<names, known, unknown, looking, face, appearances, tracing, namingFace,
              nameDraft, errands, made, older>>
vars     == <<route, settings, list, found, playback, rule, drawing, tab, note, person>>

Init ==
  /\ route \in {"events", "plugin", "playback", "rules", "drawing", "counting",
              "notifications", "faces", "settings"}
  /\ SettingsInit /\ List!Init /\ Found!Init /\ Playback!Init
  /\ Rules!Init /\ Drawing!Init /\ Lines!Init /\ Notified!Init /\ Persons!Init
  /\ route # "settings" => panel = "boxes"
  /\ route # "plugin" => page = Found!EppPage /\ latestRow = 0
  /\ route # "drawing" => kind = "line"

Next ==
  /\ UNCHANGED route
  /\ \/ /\ route = "settings" /\ SettingsNext
        /\ UNCHANGED <<list, found, playback, rule, drawing, tab, note, person>>
     \/ /\ route = "events" /\ List!Next
        /\ UNCHANGED <<settings, found, playback, rule, drawing, tab, note, person>>
     \/ /\ route = "plugin" /\ Found!Next
        /\ UNCHANGED <<settings, list, playback, rule, drawing, tab, note, person>>
     \/ /\ route = "playback" /\ Playback!Next
        /\ UNCHANGED <<settings, list, found, rule, drawing, tab, note, person>>
     \/ /\ route = "rules" /\ Rules!Next
        /\ UNCHANGED <<settings, list, found, playback, drawing, tab, note, person>>
     \/ /\ route = "drawing" /\ Drawing!Next
        /\ UNCHANGED <<settings, list, found, playback, rule, tab, note, person>>
     \/ /\ route = "counting" /\ Lines!Next
        /\ UNCHANGED <<settings, list, found, playback, rule, drawing, note, person>>
     \/ /\ route = "notifications" /\ Notified!Next
        /\ UNCHANGED <<settings, list, found, playback, rule, drawing, tab, person>>
     \/ /\ route = "faces" /\ Persons!Next
        /\ UNCHANGED <<settings, list, found, playback, rule, drawing, tab, note>>

Spec == Init /\ [][Next]_vars

-----------------------------------------------------------------------------
(* What an operator has entered is what is sent and stored, in each panel  *)
(* and with its exceptions; what is shown is what there is.                *)
SettingsKept ==
  /\ Forms!AsMeant /\ Wizard!OnlyTested /\ CamWizard!SentIsValid
  /\ Editor!AsTyped /\ Switches!StandsSo /\ Boxes!AsTicked
  /\ Zones!InStep

(* Unless answers for two lists met, the list of events, and that of each  *)
(* analytic, shows, each row once, every stored row of what is asked for   *)
(* down to its cursor (Events.tsx, pages/plugins, list_events).            *)
NoSkip == List!NoSkip /\ Found!NoSkip

(* The clock of the playback neither goes back nor passes over what a      *)
(* chosen camera recorded (Playback.tsx).                                  *)
PassesAll == Playback!PassesAll

(* What an operator has edited is what is stored, of each camera, plugin   *)
(* or row: in the editors of rules, in the people counter, which shows as  *)
(* saved what is stored, in the notifications and in the settings; and a   *)
(* list shows what is stored once it has come, as does the profile of a    *)
(* face; with each page's exceptions.                                      *)
FormsHold ==
  /\ Rules!AsMeant /\ Lines!SavedIsStored /\ SettingsKept
  /\ Notified!AsMeant /\ Notified!Listed
  /\ Persons!Listed /\ Persons!ProfileListed

(* A drag moves one corner of a zone (LoiteringPage.tsx).                  *)
DragsOne == Drawing!DragsOne
=============================================================================
