---------------------------- MODULE ConfigEditor ----------------------------
(***************************************************************************)
(* The editor of a plugin's configuration (ConfigEditor of components/     *)
(* settings/PluginsPanel.tsx, SchemaForm.tsx): a form made of the plugin's *)
(* schema, or the same configuration as JSON text, and under either of     *)
(* them a form for the alerts that the plugin sends by Telegram.  A        *)
(* configuration is a field of the schema and the Telegram settings.       *)
(***************************************************************************)
EXTENDS Integers

CONSTANTS
  AtStart,   \* the configuration that is stored
  Contents,  \* what a field can be
  Telegrams, \* what the Telegram settings can be
  Invalid    \* text that is no JSON

Configs == [field : Contents, telegram : Telegrams]

VARIABLES
  config,              \* what is stored
  opened,
  formValue, tgCfg,    \* the two forms
  rawMode, raw,        \* the text, as what it says, or Invalid
  parseErr,
  saveMut,             \* idle, or the configuration that was sent
  typed,               \* history: the configuration as last edited
  tgTyped, rawUsed, dropped  \* history: the Telegram settings were edited; the text
                             \* was; an edit of the text that was not valid was left

editor  == <<opened, formValue, tgCfg, rawMode, raw, parseErr>>
history == <<typed, tgTyped, rawUsed, dropped>>
vars    == <<config, editor, saveMut, history>>

Idle == [at |-> "idle"]

(* resolveInitialConfig and extractTgConfig.                               *)
Filled(c) ==
  /\ formValue' = c /\ tgCfg' = c.telegram /\ rawMode' = FALSE /\ raw' = c
  /\ parseErr' = FALSE
  /\ typed' = c /\ tgTyped' = FALSE /\ rawUsed' = FALSE /\ dropped' = FALSE

Init ==
  /\ config = AtStart
  /\ opened = FALSE /\ formValue = config /\ tgCfg = config.telegram
  /\ rawMode = FALSE /\ raw = config /\ parseErr = FALSE
  /\ saveMut = Idle
  /\ typed = config /\ tgTyped = FALSE /\ rawUsed = FALSE /\ dropped = FALSE

Open ==
  /\ ~opened /\ opened' = TRUE
  /\ Filled(config)
  /\ UNCHANGED <<config, saveMut>>

Close ==
  /\ opened /\ opened' = FALSE
  /\ UNCHANGED <<config, formValue, tgCfg, rawMode, raw, parseErr, saveMut, history>>

-----------------------------------------------------------------------------
(* SchemaForm: a field is replaced; text that is no JSON (JsonEditor)      *)
(* leaves it as it was.                                                    *)
TypeField(v) ==
  /\ opened /\ ~rawMode
  /\ formValue' = [formValue EXCEPT !.field = v]
  /\ typed' = [typed EXCEPT !.field = v]
  /\ UNCHANGED <<config, opened, tgCfg, rawMode, raw, parseErr, saveMut, tgTyped, rawUsed, dropped>>

(* TelegramQuickConfig, which is there in both modes.                      *)
TypeTelegram(v) ==
  /\ opened /\ tgCfg # v
  /\ tgCfg' = v
  /\ typed' = [typed EXCEPT !.telegram = v] /\ tgTyped' = TRUE
  /\ UNCHANGED <<config, opened, formValue, rawMode, raw, parseErr, saveMut, rawUsed, dropped>>

TypeRaw(c) ==
  /\ opened /\ rawMode /\ raw # c
  /\ raw' = c
  /\ typed' = IF c = Invalid THEN typed ELSE c
  /\ rawUsed' = TRUE /\ tgTyped' = (tgTyped \/ (c # Invalid /\ c.telegram # tgCfg))
  /\ UNCHANGED <<config, opened, formValue, tgCfg, rawMode, parseErr, saveMut, dropped>>

(* The text is made of the form's value; ...                               *)
ToRaw ==
  /\ opened /\ ~rawMode
  /\ rawMode' = TRUE /\ raw' = formValue /\ rawUsed' = TRUE
  /\ UNCHANGED <<config, opened, formValue, tgCfg, parseErr, saveMut, typed, tgTyped, dropped>>

(* Variant: the form is not filled.                                        *)
ToFormUnread ==
  /\ opened /\ rawMode /\ rawMode' = FALSE
  /\ UNCHANGED <<config, opened, formValue, tgCfg, raw, parseErr, saveMut, history>>

(* ... syncRawToForm: the forms are filled from it, unless it is invalid,  *)
(* and shown in any case.                                                  *)
ToForm ==
  /\ opened /\ rawMode /\ rawMode' = FALSE
  /\ IF raw = Invalid
     THEN parseErr' = TRUE /\ dropped' = TRUE /\ UNCHANGED <<formValue, tgCfg>>
     ELSE formValue' = raw /\ tgCfg' = raw.telegram /\ parseErr' = FALSE /\ UNCHANGED dropped
  /\ UNCHANGED <<config, opened, raw, saveMut, typed, tgTyped, rawUsed>>

-----------------------------------------------------------------------------
(* handleSave: the Telegram settings are those of their form.              *)
Save ==
  /\ opened /\ saveMut = Idle
  /\ IF rawMode /\ raw = Invalid
     THEN parseErr' = TRUE /\ UNCHANGED saveMut
     ELSE LET c == [(IF rawMode THEN raw ELSE formValue) EXCEPT !.telegram = tgCfg] IN
          /\ saveMut' = [at |-> "asked", config |-> c, kept |-> c = typed,
                         mixed |-> (tgTyped /\ rawUsed) \/ dropped]
          /\ parseErr' = (parseErr /\ ~rawMode)
  /\ UNCHANGED <<config, opened, formValue, tgCfg, rawMode, raw, history>>

(* The answer: the editor is closed, or it shows the error.                *)
Saved ==
  /\ saveMut # Idle /\ saveMut' = Idle
  /\ \/ config' = saveMut.config /\ opened' = FALSE
     \/ UNCHANGED <<config, opened>>
  /\ UNCHANGED <<formValue, tgCfg, rawMode, raw, parseErr, history>>

User ==
  \/ Open \/ Close \/ ToRaw \/ ToForm \/ Save
  \/ \E v \in Contents : TypeField(v)
  \/ \E v \in Telegrams : TypeTelegram(v)
  \/ \E c \in Configs \cup {Invalid} : TypeRaw(c)

Next == User \/ Saved

Spec == Init /\ [][Next]_vars

-----------------------------------------------------------------------------
(* What is sent is what was edited last in each place, whichever way the   *)
(* editor was switched, unless the Telegram settings were edited and the   *)
(* text was too, or text that was not valid was left.                      *)
AsTyped == saveMut # Idle => saveMut.kept \/ saveMut.mixed

-----------------------------------------------------------------------------
(* What the code does not do; refuted by a demonstration.                  *)

AlwaysAsTyped == saveMut # Idle => saveMut.kept
=============================================================================
