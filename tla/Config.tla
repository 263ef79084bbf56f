------------------------------- MODULE Config --------------------------------
(***************************************************************************)
(* config.yaml (internal/config): reading it, the user's edits, and the    *)
(* update that removes retired settings and adds missing ones (keys.go),   *)
(* on its worker goroutine (internal/gui/reload.go).  The steps of the     *)
(* update interleave with edits of the file and with a crash.              *)
(***************************************************************************)
EXTENDS Integers, FiniteSets

CONSTANTS
  Values,      \* effective configurations (config.effective)
  UserText     \* the texts the user writes into config.yaml

VARIABLES
  file,        \* the text of config.yaml
  copies,      \* the texts saved as config.yaml.<time>.bak
  updater,     \* the worker of updateConfig
  cfg,         \* the configuration in use (app.opts.Config)
  reloadErr    \* app.reloadErr: the file did not load

configVars == <<file, copies, updater, cfg, reloadErr>>

\* A text: its values when it loads, whether it lacks settings or has retired
\* ones, whether RestoreSafe wrote it.
Text == [loads : BOOLEAN, values : Values, outdated : BOOLEAN, updated : BOOLEAN]

ASSUME ConfigAssumption ==
  UserText \subseteq {t \in Text : ~t.updated} /\ \E t \in UserText : t.loads

NotUpdating == [stage |-> "idle"]

\* The program starts only with a file that loads.
ConfigInit ==
  /\ file \in {t \in UserText : t.loads}
  /\ copies = {}
  /\ updater = NotUpdating
  /\ cfg = file.values
  /\ reloadErr = FALSE

-----------------------------------------------------------------------------
(* Reading *)

\* Load and reloadDone: a file that does not load keeps the configuration in use.
UseFile ==
  /\ cfg' = IF file.loads THEN file.values ELSE cfg
  /\ reloadErr' = ~file.loads

ReloadWith ==
  /\ updater = NotUpdating
  /\ UseFile
  /\ UNCHANGED <<file, copies, updater>>

\* The user saves another text; an editor replaces the file whole.
UserEdits ==
  /\ \E t \in UserText \ {file} : file' = t
  /\ UNCHANGED <<copies, updater, cfg, reloadErr>>

-----------------------------------------------------------------------------
(* Update *)

\* updated: the text without retired and with the missing settings.  Update has
\* parsed it and compared its effective values before it writes anything.
UpdatedText(t) == [t EXCEPT !.outdated = FALSE, !.updated = TRUE]

\* Update reads and parses the file; it ends with an error, which a dialog
\* shows, or continues when there is something to do.
UpdateReads ==
  /\ updater = NotUpdating
  /\ file.loads /\ file.outdated
  /\ updater' = [stage |-> "read", data |-> file]
  /\ UNCHANGED <<file, copies, cfg, reloadErr>>

\* Faulty variant: replaces the file before the copy is saved.
UpdateReplacesFirst ==
  /\ updater.stage = "read"
  /\ file' = UpdatedText(updater.data)
  /\ updater' = [updater EXCEPT !.stage = "copied"]
  /\ UNCHANGED <<copies, cfg, reloadErr>>

\* The copy of what was read is saved first.
UpdateSavesCopy ==
  /\ updater.stage = "read"
  /\ copies' = copies \cup {updater.data}
  /\ updater' = [updater EXCEPT !.stage = "copied"]
  /\ UNCHANGED <<file, cfg, reloadErr>>

\* replaceFile: a temporary file is renamed over config.yaml, whatever that is
\* by now.
UpdateReplaces ==
  /\ updater.stage = "copied"
  /\ file' = UpdatedText(updater.data)
  /\ updater' = [stage |-> "replaced"]
  /\ UNCHANGED <<copies, cfg, reloadErr>>

\* reloadWith reads the file after the update.
UpdateLoads ==
  /\ updater.stage = "replaced"
  /\ updater' = NotUpdating
  /\ UseFile
  /\ UNCHANGED <<file, copies>>

\* The text is in flow style, the copy or the temporary file cannot be written,
\* or the rename fails: the file is as it was.
UpdateFails ==
  /\ updater.stage \in {"read", "copied"}
  /\ updater' = NotUpdating
  /\ UNCHANGED <<file, copies, cfg, reloadErr>>

\* The program ends at any point of the update and starts again; it starts only
\* with a file that loads.
ProgramRestarts ==
  /\ file.loads
  /\ updater' = NotUpdating
  /\ UseFile
  /\ UNCHANGED <<file, copies>>

ConfigNext ==
  \/ ReloadWith \/ UserEdits \/ ProgramRestarts
  \/ UpdateReads \/ UpdateSavesCopy \/ UpdateReplaces \/ UpdateLoads \/ UpdateFails

-----------------------------------------------------------------------------

\* A text RestoreSafe wrote has a copy of the text it was made from, with the
\* same effective values, whatever the user saved and wherever the program ended
\* in between ("It first saves a copy of the file next to it", config/keys.go).
UpdateHasCopy ==
  file.updated =>
    /\ file.loads /\ ~file.outdated
    /\ \E t \in copies : t.loads /\ t.values = file.values /\ UpdatedText(t) = file

\* The inductive part: the worker updates a text that loads, and replaces the
\* file only after its copy is saved.
UpdaterStates ==
  {NotUpdating, [stage |-> "replaced"]} \cup [stage : {"read", "copied"}, data : Text]

ConfigInv ==
  /\ file \in Text /\ copies \subseteq Text /\ cfg \in Values
  /\ updater \in UpdaterStates
  /\ updater.stage \in {"read", "copied"} => updater.data.loads /\ updater.data.outdated
  /\ updater.stage = "copied" => updater.data \in copies
  /\ UpdateHasCopy
=============================================================================
