------------------------------ MODULE Dashboard ------------------------------
(***************************************************************************)
(* config/settings_store.py and frontend/app.py: the YAML settings file    *)
(* and the browser sessions of the Streamlit control panel that share it.  *)
(* A session keeps its own copy of the settings.  Each interaction runs    *)
(* the whole script: the sidebar, then the tabs in order; a tab writes its *)
(* widgets' values into the copy and may save the file and run a job.      *)
(* saved_snapshot, which only decides whether a warning is shown, is left  *)
(* out.                                                                    *)
(*                                                                         *)
(* Settings are functions on the leaf keys of the two-level dict.  A file  *)
(* is a partial function: what it leaves out the defaults supply, so the   *)
(* missing file and the truncated one are both the empty function.         *)
(* Sections written as an explicit null are left out.                      *)
(***************************************************************************)
EXTENDS Naturals, Sequences, FiniteSets

CONSTANTS Sessions,         \* browser sessions of one server process
          Keys,             \* the leaf keys that are tracked
          Values,           \* what a key can hold
          DEFAULTS,         \* key -> its default
          EnvOff,           \* keys the SKIP_* variables force off
          Off,              \* False, for a forced key; "backtest" for the mode
          Files,            \* contents the file may have at first
          Garbled,          \* what overlapping writes may leave
          Clicks,           \* the buttons that get clicked, None for no click
          MaxInteractions,  \* bound on the interactions of all sessions
          None

ASSUME DashboardAssumption ==
    /\ DEFAULTS \in [Keys -> Values] /\ Off \in Values /\ EnvOff \subseteq Keys
    /\ Files \subseteq UNION {[K -> Values] : K \in SUBSET Keys}
    /\ MaxInteractions \in Nat
    /\ Garbled \notin UNION {[K -> Values] : K \in SUBSET Keys}
    /\ None \notin Sessions /\ None \notin [Keys -> Values]

VARIABLES file,         \* settings.yaml
          owner,        \* the session whose settings it holds, or None (history)
          pc,           \* session -> where its script stands
          tab,          \* session -> the tab to be rendered next
          settings,     \* session -> st.session_state.settings
          edits,        \* session -> widget values no tab has read yet
          button,       \* session -> the button that was clicked
          saved,        \* session -> what it last saved (history)
          interactions   \* so far

vars == <<file, owner, pc, tab, settings, edits, button, saved, interactions>>

Settings == [Keys -> Values]
Contents == UNION {[K -> Values] : K \in SUBSET Keys}
Empty == [k \in {} |-> Off]

\* dict.update on leaf keys
Over(f, g) == [k \in DOMAIN f \cup DOMAIN g |-> IF k \in DOMAIN f THEN f[k] ELSE g[k]]
Without(f, K) == [k \in DOMAIN f \ K |-> f[k]]

-----------------------------------------------------------------------------
(* settings_store *)

DeepMerge_DefaultsWin(base, override) == Over(base, override)
DeepMerge(base, override) == Over(override, base)

ApplyEnvOverrides(s) == [k \in Keys |-> IF k \in EnvOff THEN Off ELSE s[k]]

LoadSettings(raw) == ApplyEnvOverrides(DeepMerge(DEFAULTS, raw))

-----------------------------------------------------------------------------
(* The tabs, in the order they are rendered: the keys their widgets write   *)
(* and the buttons whose handler they run.                                  *)

TabUniverseData == [keys |-> {"universe", "data"}, buttons |-> {"sync_data"}]
TabStrategies == [keys |-> {"strategies"}, buttons |-> {"preview_strategies"}]
TabFeatures == [keys |-> {"features", "include_macro", "include_sentiment"}, buttons |-> {}]
TabXlstm == [keys |-> {"xlstm", "embedding_dim"}, buttons |-> {"train_xlstm"}]
TabPpo == [keys |-> {"ppo"}, buttons |-> {"train_ppo"}]
TabRl == [keys |-> {"rl", "risk", "walk_forward"}, buttons |-> {}]
TabExecution == [keys |-> {"execution"}, buttons |-> {}]
TabWalkForwardPreview == [keys |-> {"smoke_n_steps"}, buttons |-> {}]
TabBacktest == [keys |-> {"backtest"}, buttons |-> {"run_backtest"}]
TabPhase3Ops == [keys |-> {}, buttons |-> {"run_wf_report", "run_paper_loop"}]
TabDiagnostics == [keys |-> {"diagnostics"}, buttons |-> {"run_audit", "run_smoke"}]

Tabs == <<TabUniverseData, TabStrategies, TabFeatures, TabXlstm, TabPpo, TabRl,
          TabExecution, TabWalkForwardPreview, TabBacktest, TabPhase3Ops,
          TabDiagnostics>>

Widgets == UNION {Tabs[t].keys : t \in DOMAIN Tabs}
Sidebar == {"Save", "Reload", "Reset defaults"}
Buttons == Sidebar \cup UNION {Tabs[t].buttons : t \in DOMAIN Tabs}

ASSUME ClicksAssumption == Clicks \subseteq Buttons \cup {None}

\* The handlers that do not begin with save_settings.
NoSave == {"run_audit", "run_smoke"}

-----------------------------------------------------------------------------

Init ==
    /\ file \in Files /\ owner = None
    /\ pc = [s \in Sessions |-> "closed"] /\ tab = [s \in Sessions |-> 1]
    /\ settings = [s \in Sessions |-> DEFAULTS]
    /\ edits = [s \in Sessions |-> Empty] /\ button = [s \in Sessions |-> None]
    /\ saved = [s \in Sessions |-> None]
    /\ interactions = 0

Goto(s, where) == pc' = [pc EXCEPT ![s] = where]

(* init_state, and the first script run, in which no widget was touched yet. *)
Open(s) ==
    /\ pc[s] = "closed" /\ file # Garbled
    /\ settings' = [settings EXCEPT ![s] = LoadSettings(file)]
    /\ Goto(s, "idle")
    /\ UNCHANGED <<file, owner, tab, edits, button, saved, interactions>>

\* The browser sends one changed widget, one click, or both in one message.
Interact(s, changed, clicked) ==
    /\ pc[s] \in {"idle", "error"} /\ interactions < MaxInteractions
    /\ \A k \in DOMAIN changed : changed[k] # settings[s][k]
    /\ interactions' = interactions + 1
    /\ edits' = [edits EXCEPT ![s] = Over(changed, edits[s])]
    /\ button' = [button EXCEPT ![s] = clicked] /\ tab' = [tab EXCEPT ![s] = 1]
    /\ Goto(s, "sidebar")
    /\ UNCHANGED <<file, owner, settings, saved>>

-----------------------------------------------------------------------------
(* render_sidebar *)

\* st.rerun(): the script starts over, and the click is spent.
ButtonOnRerun_Kept(s) == button[s]
ButtonOnRerun(s) == None

Rerun(s) ==
    /\ Goto(s, "sidebar")
    /\ button' = [button EXCEPT ![s] = ButtonOnRerun(s)]

PassSidebar(s) ==
    /\ pc[s] = "sidebar" /\ button[s] \notin Sidebar
    /\ Goto(s, "tab")
    /\ UNCHANGED <<file, owner, tab, settings, edits, button, saved,
                   interactions>>

ClickSave(s) ==
    /\ pc[s] = "sidebar" /\ button[s] = "Save"
    /\ Goto(s, "save")
    /\ UNCHANGED <<file, owner, tab, settings, edits, button, saved,
                   interactions>>

\* A widget whose default has changed with the settings is a new widget, so
\* any of the values not read yet may be gone.
ClickReload(s) ==
    /\ pc[s] = "sidebar" /\ button[s] = "Reload" /\ file # Garbled
    /\ settings' = [settings EXCEPT ![s] = LoadSettings(file)]
    /\ \E gone \in SUBSET DOMAIN edits[s] :
          edits' = [edits EXCEPT ![s] = Without(edits[s], gone)]
    /\ Rerun(s)
    /\ UNCHANGED <<file, owner, tab, saved, interactions>>

\* yaml.safe_load raises out of main(): the run ends in a traceback.
ReloadRaises(s) ==
    /\ pc[s] = "sidebar" /\ button[s] = "Reload" /\ file = Garbled
    /\ Goto(s, "error")
    /\ UNCHANGED <<file, owner, tab, settings, edits, button, saved,
                   interactions>>

ClickReset(s) ==
    /\ pc[s] = "sidebar" /\ button[s] = "Reset defaults"
    /\ settings' = [settings EXCEPT ![s] = DEFAULTS]
    /\ \E gone \in SUBSET DOMAIN edits[s] :
          edits' = [edits EXCEPT ![s] = Without(edits[s], gone)]
    /\ Rerun(s)
    /\ UNCHANGED <<file, owner, tab, saved, interactions>>

-----------------------------------------------------------------------------
(* The tabs *)

\* The tab whose button was clicked, if it is still to come; else the last.
StopsAt(s) ==
    LET mine == {t \in tab[s] .. Len(Tabs) : button[s] \in Tabs[t].buttons} IN
    IF mine = {} THEN Len(Tabs) ELSE CHOOSE t \in mine : TRUE

\* Tab after tab, the widgets' values go into the session's own settings, up
\* to and including the tab whose button is clicked; its handler comes after
\* its widgets, and before the widgets of the tabs that follow.
RenderTabs(s) ==
    /\ pc[s] = "tab"
    /\ LET passed == UNION {Tabs[t].keys : t \in tab[s] .. StopsAt(s)}
           read == [k \in DOMAIN edits[s] \cap passed |-> edits[s][k]] IN
       /\ settings' = [settings EXCEPT ![s] = Over(read, settings[s])]
       /\ edits' = [edits EXCEPT ![s] = Without(edits[s], passed)]
    /\ tab' = [tab EXCEPT ![s] = StopsAt(s) + 1]
    /\ IF tab[s] <= Len(Tabs) /\ button[s] \in Tabs[StopsAt(s)].buttons
       THEN /\ Goto(s, IF button[s] \in NoSave THEN "job" ELSE "save")
            /\ UNCHANGED button
       ELSE /\ Goto(s, "idle")
            /\ button' = [button EXCEPT ![s] = None]
    /\ UNCHANGED <<file, owner, saved, interactions>>

(* save_settings: open(..., "w") truncates the file, yaml.safe_dump writes it *)
(* from the start when the handle is closed.  If another session has written  *)
(* in between, the longer of the two texts may stick out at the end.          *)
OpenFile(s) ==
    /\ pc[s] = "save"
    /\ file' = Empty /\ owner' = None
    /\ Goto(s, "write")
    /\ UNCHANGED <<tab, settings, edits, button, saved, interactions>>

Written(s) == IF file = Empty THEN {settings[s]} ELSE {settings[s], Garbled}

Flush(s) ==
    /\ pc[s] = "write"
    /\ file' \in Written(s)
    /\ owner' = IF file' = Garbled THEN None ELSE s
    /\ saved' = [saved EXCEPT ![s] = settings[s]]
    /\ IF button[s] = "Save" THEN Rerun(s) ELSE Goto(s, "job") /\ UNCHANGED button
    /\ UNCHANGED <<tab, settings, edits, interactions>>

\* What the job leaves in the session's dict: run_paper_loop(dry_run=True)
\* sets execution.mode, the others write nothing that is not there.
AfterJob(s) ==
    IF button[s] = "run_paper_loop" /\ "mode" \in Keys
    THEN [settings[s] EXCEPT !["mode"] = Off] ELSE settings[s]

JobReturns(s) ==
    /\ pc[s] = "job"
    /\ settings' = [settings EXCEPT ![s] = AfterJob(s)]
    /\ Goto(s, "tab")
    /\ UNCHANGED <<file, owner, tab, edits, button, saved, interactions>>

\* `except Exception: st.error(...); return` leaves the tab, not main(); the
\* two diagnostics have no such handler, and their exception ends the run.
AfterRaise_Main(s) == "idle"
AfterRaise(s) == "tab"

JobRaises(s) ==
    /\ pc[s] = "job"
    /\ settings' = [settings EXCEPT ![s] = AfterJob(s)]
    /\ Goto(s, IF button[s] \in NoSave THEN "error" ELSE AfterRaise(s))
    /\ UNCHANGED <<file, owner, tab, edits, button, saved, interactions>>

\* The server process dies; a write in progress leaves the truncated file.
Crash ==
    /\ \E s \in Sessions : pc[s] # "closed"
    /\ interactions < MaxInteractions /\ interactions' = interactions + 1
    /\ pc' = [s \in Sessions |-> "closed"] /\ tab' = [s \in Sessions |-> 1]
    /\ settings' = [s \in Sessions |-> DEFAULTS]
    /\ edits' = [s \in Sessions |-> Empty] /\ button' = [s \in Sessions |-> None]
    /\ UNCHANGED <<file, owner, saved>>

-----------------------------------------------------------------------------

ScriptStep(s) ==
    \/ PassSidebar(s) \/ ClickSave(s) \/ ClickReload(s) \/ ReloadRaises(s)
    \/ ClickReset(s) \/ RenderTabs(s) \/ OpenFile(s) \/ Flush(s)
    \/ JobReturns(s) \/ JobRaises(s)

\* What one message from the browser can hold.
Changes == {Empty} \cup UNION {[{w} -> Values] : w \in Keys \cap Widgets}

Next ==
    \/ \E s \in Sessions :
          \/ Open(s)
          \/ \E c \in Changes, b \in Clicks : Interact(s, c, b)
          \/ ScriptStep(s)
    \/ Crash

\* A started script run goes on, and every job returns or raises.
Spec == Init /\ [][Next]_vars /\ \A s \in Sessions : WF_vars(ScriptStep(s))

-----------------------------------------------------------------------------
(* Properties *)

Running == {"sidebar", "tab", "save", "write", "job"}

TypeOK ==
    /\ file \in Contents \cup {Garbled} /\ owner \in Sessions \cup {None}
    /\ pc \in [Sessions -> {"closed", "idle", "error"} \cup Running]
    /\ tab \in [Sessions -> 1 .. Len(Tabs) + 1]
    /\ settings \in [Sessions -> Settings]
    /\ edits \in [Sessions -> Contents]
    /\ button \in [Sessions -> Buttons \cup {None}]
    /\ saved \in [Sessions -> Settings \cup {None}]
    /\ interactions \in 0 .. MaxInteractions

(***************************************************************************)
(* A script run that comes to its end has read every widget the user       *)
(* changed, also when the job of a tab in the middle raised: the handlers  *)
(* return from their tab and main() renders the rest (lines 126-130 of     *)
(* app.py and the like), and st.rerun() starts over without losing what    *)
(* was typed with the click.                                               *)
(***************************************************************************)
EditsReachSettings == \A s \in Sessions : pc[s] = "idle" => edits[s] = Empty

(***************************************************************************)
(* While the file is the one a session saved, loading it gives back every  *)
(* value of that session, except the features the environment switches     *)
(* off: "Load settings YAML, fill missing keys from DEFAULTS, apply env    *)
(* overrides" (settings_store.py:205).                                     *)
(***************************************************************************)
SavedIsLoaded ==
    owner # None =>
        \A k \in Keys : LoadSettings(file)[k] = IF k \in EnvOff THEN Off
                                                ELSE saved[owner][k]

(***************************************************************************)
(* Every script run ends: the reruns of Save, Reload and Reset do not      *)
(* start themselves again.                                                 *)
(***************************************************************************)
RunsEnd == \A s \in Sessions : pc[s] \in Running ~> pc[s] \notin Running
=============================================================================
