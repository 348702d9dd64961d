--------------------------- MODULE ClientConfig ---------------------------
(***************************************************************************)
(* The configuration of a client: the file config.json, the Config the     *)
(* program works with, the first-run wizard that fills both, and the same  *)
(* wizard opened again from the settings of a running program (Config.cpp, *)
(* FirstRunDialog.cpp, SettingsDialog.cpp, main.cpp).                      *)
(*                                                                         *)
(* A document is what a JSON text or the fields of the form say: a function*)
(* from the keys it has.  A document without a key is as good as one with  *)
(* the default, which is what FromJson is about.  Texts that are not       *)
(* base64 or not JSON leave everything as it was and are left out.         *)
(*                                                                         *)
(* The wizard works on the Config of the running program itself.           *)
(***************************************************************************)
EXTENDS Naturals, FiniteSets

CONSTANTS
  Documents,    \* invites and forms the user may hand to the wizard
  DefaultStun,  \* the stun_url of a document that has none
  NoFile, Torn, \* contents of a file that is not there, or not whole
  MaxFaults(_)  \* bound: how many faults may strike, when these do

Fields == {"user_id", "signaling_url", "stun_url"}
Configs ==
  [Fields -> (UNION {{d[k] : k \in DOMAIN d} : d \in Documents}) \cup {"", DefaultStun}]

ASSUME ConfigAssumption ==
  /\ \A d \in Documents : DOMAIN d \subseteq Fields
  /\ NoFile # Torn
  /\ NoFile \notin Configs /\ Torn \notin Configs

VARIABLES
  phase,     \* where the program is: not running, a step of its start, running
  dialog,    \* the modal dialog over the main window
  conf,      \* MainWindow::m_config
  confFile,  \* config.json
  rejected,  \* the wizard has changed conf and not saved it
  faults     \* the faults that have struck, each with its place

program == <<phase, dialog, conf, confFile, rejected>>
configVars == <<program, faults>>

\* fromJsonObject assigns every field, whatever it returns.
FromJson(d) ==
  [k \in Fields |-> IF k \in DOMAIN d THEN d[k]
                    ELSE IF k = "stun_url" THEN DefaultStun ELSE ""]

\* What fromJsonObject returns, and what the form is checked for.
Valid(c) == c["user_id"] # "" /\ c["signaling_url"] # ""

\* load: a file that is there, is JSON, and is valid.
Loads(file) == file \notin {NoFile, Torn} /\ Valid(FromJson(file))

\* toJsonObject writes every key.
ToJson(c) == [k \in Fields |-> c[k]]

Blank == [k \in Fields |-> ""]

Strike(fault) ==
  /\ faults' = faults \cup {fault}
  /\ Cardinality(faults') <= MaxFaults(faults')

\* The process is gone, and with it what it had in memory.
Die == phase' = "off" /\ dialog' = "none" /\ conf' = Blank /\ rejected' = FALSE

ConfigInit ==
  /\ phase = "off" /\ dialog = "none" /\ conf = Blank /\ rejected = FALSE
  /\ confFile = NoFile
  /\ faults = {}

\* main, ensureConfigured: without a file the wizard; a file that does not load
\* gets a message box, and the program ends.
EnsureConfigured ==
  /\ phase = "off"
  /\ \/ /\ confFile = NoFile
        /\ phase' = "wizard"
        /\ UNCHANGED conf
     \/ /\ Loads(confFile)
        /\ phase' = "key"
        /\ conf' = FromJson(confFile)
  /\ UNCHANGED <<dialog, confFile, rejected, faults>>

WizardIsOpen == phase = "wizard" \/ dialog = "invite"

\* accept(): start() follows the first wizard, the settings the later ones.
WizardDone ==
  /\ phase' = IF phase = "wizard" THEN "key" ELSE phase
  /\ dialog' = IF phase = "wizard" THEN dialog ELSE "settings"

\* Config::save truncates config.json and writes over it.  The result of the
\* write is not looked at; a file that cannot be opened keeps the wizard open.
Save(c) ==
  \/ confFile' = ToJson(c) /\ conf' = c /\ rejected' = FALSE /\ WizardDone
     /\ UNCHANGED faults
  \/ Strike(<<"io", "config write">>) /\ confFile' = Torn /\ conf' = c
     /\ rejected' = FALSE /\ WizardDone
  \/ Strike(<<"io", "config open">>) /\ conf' = c /\ rejected' = TRUE
     /\ UNCHANGED <<confFile, phase, dialog>>
  \/ Strike(<<"crash", "config write">>) /\ confFile' = Torn /\ Die

\* Mutation: the file is written before the fields are checked.
OnAccept_SavesFirst(d) == WizardIsOpen /\ Save(FromJson(d))

\* Mutation: the settings apply an invite without saving it.
OnAccept_NotSaved(d) ==
  LET c == FromJson(d) IN
  /\ WizardIsOpen
  /\ IF phase = "wizard" THEN Valid(c) /\ Save(c)
     ELSE /\ conf' = c /\ UNCHANGED <<confFile, faults>>
          /\ IF Valid(c) THEN WizardDone /\ UNCHANGED rejected
             ELSE rejected' = TRUE /\ UNCHANGED <<phase, dialog>>

\* FirstRunDialog::onAccept: conf is filled before it is known to be valid.
OnAccept(d) ==
  LET c == FromJson(d) IN
  /\ WizardIsOpen
  /\ IF Valid(c) THEN Save(c)
     ELSE /\ conf' = c /\ rejected' = TRUE
          /\ UNCHANGED <<phase, dialog, confFile, faults>>

\* The wizard is cancelled: the program ends, or goes on with conf as it is.
CancelWizard ==
  \/ phase = "wizard" /\ Die /\ UNCHANGED <<confFile, faults>>
  \/ /\ dialog = "invite" /\ dialog' = "settings"
     /\ UNCHANGED <<phase, conf, confFile, rejected, faults>>

\* onOpenSettings, onReapplyInvite, and the settings closed again.
SwitchDialog ==
  /\ phase = "run"
  /\ \/ dialog = "none" /\ dialog' = "settings"
     \/ dialog = "settings" /\ dialog' \in {"invite", "none"}
  /\ UNCHANGED <<phase, conf, confFile, rejected, faults>>

\* The window is closed, or the process killed while nothing is being written.
Quit ==
  /\ phase \in {"wizard", "run"}
  /\ Die
  /\ UNCHANGED <<confFile, faults>>

ConfigStep ==
  \/ EnsureConfigured \/ CancelWizard \/ SwitchDialog \/ Quit
  \/ \E d \in Documents : OnAccept(d)

----------------------------------------------------------------------------
(* Properties.                                                             *)

\* A client that was configured once starts again: config.json always loads,
\* unless a write of it was cut short (Config.cpp:49-60, 21-47).
ConfigFileLoads ==
  \/ confFile = NoFile \/ Loads(confFile)
  \/ confFile = Torn /\ \E k \in {"io", "crash"} : <<k, "config write">> \in faults

\* A program works with the configuration its next start will load, unless the
\* wizard changed the live one and was left without saving it
\* (SettingsDialog.cpp:92, Config.cpp:77).
LiveConfigIsSaved ==
  phase \notin {"off", "wizard"} /\ confFile # Torn /\ ~rejected =>
    conf = FromJson(confFile)
=============================================================================
