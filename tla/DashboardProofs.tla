--------------------------- MODULE DashboardProofs ---------------------------
(***************************************************************************)
(* Theorems about Dashboard: no edit is lost and what is saved is what is  *)
(* loaded, for any number of sessions sharing the file, any keys and       *)
(* values, and any clicks.                                                 *)
(***************************************************************************)
EXTENDS Dashboard, TLAPS

\* The keys of the tabs from t on.
Remaining(t) == UNION {Tabs[u].keys : u \in t .. Len(Tabs)}

\* What has not been read yet belongs to a tab that is still to come.
EditsInv ==
    \A s \in Sessions :
        /\ DOMAIN edits[s] \subseteq Remaining(tab[s])
        /\ pc[s] \in {"closed", "idle"} => edits[s] = Empty

\* The file of an owner is what the owner saved.
FileInv ==
    owner # None => owner \in Sessions /\ saved[owner] \in Settings /\ file = saved[owner]

DashInv == TypeOK /\ EditsInv /\ FileInv

-----------------------------------------------------------------------------
(* Partial dicts *)

LEMMA ContentsType ==
    ASSUME NEW f
    PROVE  f \in Contents <=> DOMAIN f \in SUBSET Keys /\ f \in [DOMAIN f -> Values]
BY DEF Contents

LEMMA EmptyType == Empty \in Contents /\ DOMAIN Empty = {}
BY ContentsType DEF Empty

LEMMA OverType ==
    ASSUME NEW f \in Contents, NEW g \in Contents
    PROVE  /\ Over(f, g) \in Contents /\ DOMAIN Over(f, g) = DOMAIN f \cup DOMAIN g
           /\ \A k \in DOMAIN f : Over(f, g)[k] = f[k]
<1>1. /\ DOMAIN f \in SUBSET Keys /\ \A k \in DOMAIN f : f[k] \in Values
      /\ DOMAIN g \in SUBSET Keys /\ \A k \in DOMAIN g : g[k] \in Values
  BY ContentsType
<1>2. Over(f, g) \in [DOMAIN f \cup DOMAIN g -> Values]
  BY <1>1 DEF Over
<1> QED
  BY <1>1, <1>2, ContentsType DEF Over

LEMMA WithoutType ==
    ASSUME NEW f \in Contents, NEW K
    PROVE  Without(f, K) \in Contents /\ DOMAIN Without(f, K) = DOMAIN f \ K
<1>1. DOMAIN f \in SUBSET Keys /\ \A k \in DOMAIN f : f[k] \in Values
  BY ContentsType
<1>2. Without(f, K) \in [DOMAIN f \ K -> Values]
  BY <1>1 DEF Without
<1> QED
  BY <1>1, <1>2, ContentsType DEF Without

LEMMA SettingsAreContents ==
    /\ Settings \in SUBSET Contents
    /\ \A f \in Contents : DOMAIN f = Keys => f \in Settings
BY ContentsType DEF Settings, Contents

\* What is loaded is complete, and has the value of the file where the file
\* has one that the environment does not force off.
LEMMA LoadSettingsType ==
    ASSUME NEW raw \in Contents
    PROVE  /\ LoadSettings(raw) \in Settings
           /\ \A k \in DOMAIN raw :
                 LoadSettings(raw)[k] = IF k \in EnvOff THEN Off ELSE raw[k]
<1> DEFINE merged == DeepMerge(DEFAULTS, raw)
<1>1. DEFAULTS \in Contents /\ DOMAIN DEFAULTS = Keys /\ DOMAIN raw \in SUBSET Keys
  BY DashboardAssumption, ContentsType
<1>2. /\ merged \in Contents /\ DOMAIN merged = Keys
      /\ \A k \in DOMAIN raw : merged[k] = raw[k]
  <2>1. DOMAIN raw \cup DOMAIN DEFAULTS = Keys
    BY <1>1
  <2> QED
    BY <1>1, <2>1, OverType DEF DeepMerge
<1>3. merged \in [Keys -> Values]
  BY <1>2, ContentsType
<1> HIDE DEF merged
<1>4. ApplyEnvOverrides(merged) \in [Keys -> Values]
  BY <1>3, DashboardAssumption DEF ApplyEnvOverrides
<1>5. \A k \in Keys : ApplyEnvOverrides(merged)[k] = IF k \in EnvOff THEN Off ELSE merged[k]
  BY DEF ApplyEnvOverrides
<1> QED
  BY <1>1, <1>2, <1>4, <1>5 DEF LoadSettings, merged, Settings

-----------------------------------------------------------------------------
(* Tabs *)

LEMMA TabsLength == Len(Tabs) = 11 /\ DOMAIN Tabs = 1 .. 11
BY DEF Tabs

LEMMA StopsAtType ==
    ASSUME NEW s \in Sessions, tab[s] \in 1 .. Len(Tabs) + 1
    PROVE  /\ StopsAt(s) \in 1 .. Len(Tabs)
           /\ tab[s] <= Len(Tabs) => tab[s] <= StopsAt(s)
           /\ (tab[s] <= Len(Tabs) /\ button[s] \in Tabs[StopsAt(s)].buttons)
                 \/ tab[s] = Len(Tabs) + 1 \/ StopsAt(s) = Len(Tabs)
<1> DEFINE n == Len(Tabs)
           mine == {t \in tab[s] .. n : button[s] \in Tabs[t].buttons}
<1>1. n = 11
  BY TabsLength
<1>2. CASE mine = {}
  <2>1. StopsAt(s) = n
    BY <1>2 DEF StopsAt
  <2> QED
    BY <1>1, <2>1
<1>3. CASE mine # {}
  <2>1. StopsAt(s) \in mine
    BY <1>3 DEF StopsAt
  <2> HIDE DEF n
  <2>2. StopsAt(s) \in tab[s] .. n /\ button[s] \in Tabs[StopsAt(s)].buttons
    BY <2>1
  <2> QED
    BY <1>1, <2>2 DEF n
<1> QED
  BY <1>2, <1>3

\* A tab writes the keys of its widgets and the tabs after it remain.
LEMMA RemainingAfter ==
    ASSUME NEW t \in 1 .. Len(Tabs) + 1, NEW u \in 1 .. Len(Tabs)
    PROVE  Remaining(t) \ UNION {Tabs[v].keys : v \in t .. u} \subseteq Remaining(u + 1)
<1>1. Len(Tabs) = 11
  BY TabsLength
<1>2. \A v \in t .. Len(Tabs) : v \in t .. u \/ v \in u + 1 .. Len(Tabs)
  BY <1>1
<1> QED
  BY <1>2 DEF Remaining

-----------------------------------------------------------------------------
(* Steps *)

LEMMA DashInit == Init => DashInv
<1> SUFFICES ASSUME Init PROVE DashInv
  OBVIOUS
<1>1. DEFAULTS \in Settings /\ 1 \in 1 .. Len(Tabs) + 1
  BY DashboardAssumption, TabsLength DEF Settings
<1>2. TypeOK
  <2>1. /\ file \in Contents /\ 0 \in 0 .. MaxInteractions /\ interactions = 0
        /\ Empty \in Contents /\ owner = None
    <3>1. Files \subseteq Contents /\ MaxInteractions \in Nat
      BY DashboardAssumption DEF Contents
    <3>2. 0 \in 0 .. MaxInteractions
      BY <3>1
    <3> QED
      BY <3>1, <3>2, EmptyType DEF Init
  <2>2. /\ pc \in [Sessions -> {"closed", "idle", "error"} \cup Running]
        /\ tab \in [Sessions -> 1 .. Len(Tabs) + 1] /\ settings \in [Sessions -> Settings]
        /\ button \in [Sessions -> Buttons \cup {None}]
        /\ saved \in [Sessions -> Settings \cup {None}]
    BY <1>1 DEF Init
  <2>3. edits \in [Sessions -> Contents]
    BY <2>1 DEF Init
  <2> QED
    BY <2>1, <2>2, <2>3 DEF TypeOK
<1> QED
  BY <1>2, EmptyType DEF Init, DashInv, EditsInv, FileInv

LEMMA OpenStep ==
    ASSUME DashInv, NEW s \in Sessions, Open(s)
    PROVE  DashInv'
<1>1. LoadSettings(file) \in Settings
  BY LoadSettingsType DEF DashInv, TypeOK, Open
<1>2. TypeOK'
  BY <1>1 DEF DashInv, TypeOK, Open, Goto
<1> QED
  BY <1>2 DEF DashInv, TypeOK, Open, Goto, EditsInv, FileInv

LEMMA InteractStep ==
    ASSUME DashInv, NEW s \in Sessions, NEW c \in Changes, NEW b \in Clicks, Interact(s, c, b)
    PROVE  DashInv'
<1>1. c \in Contents /\ DOMAIN c \subseteq Widgets
  <2>1. CASE c = Empty
    BY <2>1, EmptyType
  <2>2. ASSUME NEW w \in Keys \cap Widgets, c \in [{w} -> Values]
        PROVE  c \in Contents /\ DOMAIN c \subseteq Widgets
    <3>1. DOMAIN c = {w} /\ {w} \in SUBSET Keys
      BY <2>2
    <3> QED
      BY <2>2, <3>1, ContentsType
  <2> QED
    BY <2>1, <2>2 DEF Changes
<1>2. Remaining(1) = Widgets /\ \A t \in 1 .. Len(Tabs) + 1 : Remaining(t) \subseteq Widgets
  BY TabsLength DEF Remaining, Widgets
<1>3. /\ Over(c, edits[s]) \in Contents
      /\ DOMAIN Over(c, edits[s]) \subseteq Remaining(1)
  <2>1. /\ edits[s] \in Contents /\ tab[s] \in 1 .. Len(Tabs) + 1
        /\ DOMAIN edits[s] \subseteq Remaining(tab[s])
    BY DEF DashInv, TypeOK, EditsInv
  <2>2. /\ Over(c, edits[s]) \in Contents
        /\ DOMAIN Over(c, edits[s]) = DOMAIN c \cup DOMAIN edits[s]
    BY <1>1, <2>1, OverType
  <2>3. Remaining(tab[s]) \subseteq Remaining(1)
    BY <1>2, <2>1
  <2> QED
    BY <1>1, <1>2, <2>1, <2>2, <2>3
<1>4. b \in Buttons \cup {None}
  BY ClicksAssumption
<1>5. interactions' \in 0 .. MaxInteractions /\ 1 \in 1 .. Len(Tabs) + 1
  BY DashboardAssumption, TabsLength DEF DashInv, TypeOK, Interact
<1>6. TypeOK'
  BY <1>3, <1>4, <1>5 DEF DashInv, TypeOK, Interact, Goto, Running
<1> QED
  BY <1>3, <1>6 DEF DashInv, TypeOK, Interact, Goto, EditsInv, FileInv

LEMMA SidebarStep ==
    ASSUME DashInv, NEW s \in Sessions,
           PassSidebar(s) \/ ClickSave(s) \/ ClickReload(s) \/ ReloadRaises(s) \/ ClickReset(s)
    PROVE  DashInv'
<1>1. CASE PassSidebar(s) \/ ClickSave(s) \/ ReloadRaises(s)
  <2>1. TypeOK'
    BY <1>1 DEF DashInv, TypeOK, PassSidebar, ClickSave, ReloadRaises, Goto, Running
  <2> QED
    BY <1>1, <2>1 DEF DashInv, TypeOK, PassSidebar, ClickSave, ReloadRaises, Goto, EditsInv, FileInv
<1>2. ASSUME NEW new \in Settings, settings' = [settings EXCEPT ![s] = new],
             \E gone \in SUBSET DOMAIN edits[s] :
                 edits' = [edits EXCEPT ![s] = Without(edits[s], gone)],
             Rerun(s), UNCHANGED <<file, owner, tab, saved, interactions>>
      PROVE  DashInv'
  <2>1. PICK gone \in SUBSET DOMAIN edits[s] :
            edits' = [edits EXCEPT ![s] = Without(edits[s], gone)]
    BY <1>2
  <2>2. /\ Without(edits[s], gone) \in Contents
        /\ DOMAIN Without(edits[s], gone) \subseteq DOMAIN edits[s]
    <3>1. edits[s] \in Contents
      BY DEF DashInv, TypeOK
    <3> QED
      BY <3>1, WithoutType
  <2>3. TypeOK'
    BY <1>2, <2>1, <2>2 DEF DashInv, TypeOK, Rerun, ButtonOnRerun, Goto, Running
  <2> QED
    BY <1>2, <2>1, <2>2, <2>3 DEF DashInv, TypeOK, Rerun, ButtonOnRerun, Goto, EditsInv, FileInv
<1>3. CASE ClickReload(s)
  <2>1. LoadSettings(file) \in Settings
    BY <1>3, LoadSettingsType DEF DashInv, TypeOK, ClickReload
  <2> QED
    BY <1>2, <1>3, <2>1 DEF ClickReload
<1>4. CASE ClickReset(s)
  BY <1>2, <1>4, DashboardAssumption DEF ClickReset, Settings
<1> QED
  BY <1>1, <1>3, <1>4

\* The run goes on after the tab it stops at, and ends only when nothing that
\* was typed remains.
LEMMA RenderStep ==
    ASSUME DashInv, NEW s \in Sessions, RenderTabs(s)
    PROVE  DashInv'
<1> DEFINE passed == UNION {Tabs[t].keys : t \in tab[s] .. StopsAt(s)}
           read == [k \in DOMAIN edits[s] \cap passed |-> edits[s][k]]
           rest == Without(edits[s], passed)
<1>1. /\ settings' = [settings EXCEPT ![s] = Over(read, settings[s])]
      /\ edits' = [edits EXCEPT ![s] = rest]
      /\ tab' = [tab EXCEPT ![s] = StopsAt(s) + 1]
      /\ UNCHANGED <<file, owner, saved, interactions>>
  BY DEF RenderTabs
<1>2. /\ edits[s] \in Contents /\ settings[s] \in Contents /\ DOMAIN settings[s] = Keys
      /\ tab[s] \in 1 .. Len(Tabs) + 1 /\ DOMAIN edits[s] \subseteq Remaining(tab[s])
  BY SettingsAreContents DEF DashInv, TypeOK, EditsInv, Settings
<1>3. StopsAt(s) \in 1 .. Len(Tabs) /\ StopsAt(s) + 1 \in 1 .. Len(Tabs) + 1
  BY <1>2, StopsAtType, TabsLength
<1>4. Over(read, settings[s]) \in Settings
  <2>1. read \in Contents /\ DOMAIN read \in SUBSET Keys
    BY <1>2, ContentsType
  <2> HIDE DEF read
  <2>2. DOMAIN read \cup DOMAIN settings[s] = Keys
    BY <1>2, <2>1
  <2> QED
    BY <1>2, <2>1, <2>2, OverType, SettingsAreContents
<1>5. rest \in Contents /\ DOMAIN rest \subseteq Remaining(StopsAt(s) + 1)
  <2>1. rest \in Contents /\ DOMAIN rest = DOMAIN edits[s] \ passed
    BY <1>2, WithoutType
  <2>2. Remaining(tab[s]) \ passed \subseteq Remaining(StopsAt(s) + 1)
    BY <1>2, <1>3, RemainingAfter
  <2> QED
    BY <1>2, <2>1, <2>2
<1> HIDE DEF passed, read, rest
<1>6. CASE tab[s] <= Len(Tabs) /\ button[s] \in Tabs[StopsAt(s)].buttons
  <2>1. /\ pc' = [pc EXCEPT ![s] = IF button[s] \in NoSave THEN "job" ELSE "save"]
        /\ button' = button
    BY <1>6 DEF RenderTabs, Goto
  <2>2. TypeOK'
    BY <1>1, <1>3, <1>4, <1>5, <2>1 DEF DashInv, TypeOK, Running
  <2>3. EditsInv' /\ FileInv'
    BY <1>1, <1>3, <1>5, <2>1 DEF DashInv, TypeOK, EditsInv, FileInv
  <2> QED
    BY <2>2, <2>3 DEF DashInv
<1>7. CASE ~ (tab[s] <= Len(Tabs) /\ button[s] \in Tabs[StopsAt(s)].buttons)
  <2>1. pc' = [pc EXCEPT ![s] = "idle"] /\ button' = [button EXCEPT ![s] = None]
    BY <1>7 DEF RenderTabs, Goto
  <2>2. rest = Empty
    <3>1. tab[s] = Len(Tabs) + 1 \/ StopsAt(s) = Len(Tabs)
      BY <1>2, <1>7, StopsAtType
    <3>2. Remaining(Len(Tabs) + 1) = {}
      BY TabsLength DEF Remaining
    <3>3. DOMAIN rest = {}
      BY <1>2, <1>5, <3>1, <3>2, WithoutType DEF rest
    <3> QED
      BY <3>3 DEF rest, Without, Empty
  <2>3. TypeOK'
    BY <1>1, <1>3, <1>4, <1>5, <2>1 DEF DashInv, TypeOK
  <2>4. EditsInv' /\ FileInv'
    BY <1>1, <1>3, <1>5, <2>1, <2>2 DEF DashInv, TypeOK, EditsInv, FileInv
  <2> QED
    BY <2>3, <2>4 DEF DashInv
<1> QED
  BY <1>6, <1>7

LEMMA OpenFileStep ==
    ASSUME DashInv, NEW s \in Sessions, OpenFile(s)
    PROVE  DashInv'
<1>1. TypeOK'
  BY EmptyType DEF DashInv, TypeOK, OpenFile, Goto, Running
<1> QED
  BY <1>1 DEF DashInv, TypeOK, OpenFile, Goto, EditsInv, FileInv

LEMMA FlushStep ==
    ASSUME DashInv, NEW s \in Sessions, Flush(s)
    PROVE  DashInv'
<1>1. /\ settings[s] \in Settings /\ settings[s] \in Contents /\ Garbled \notin Contents
      /\ file' \in {settings[s], Garbled}
  BY SettingsAreContents, DashboardAssumption
  DEF DashInv, TypeOK, Flush, Written, Contents
<1>2. /\ (file' = Garbled /\ owner' = None) \/ (file' = settings[s] /\ owner' = s)
      /\ saved' = [saved EXCEPT ![s] = settings[s]]
      /\ UNCHANGED <<tab, settings, edits, interactions>>
  BY <1>1 DEF Flush
<1>3. \/ pc' = [pc EXCEPT ![s] = "sidebar"] /\ button' = [button EXCEPT ![s] = None]
      \/ pc' = [pc EXCEPT ![s] = "job"] /\ button' = button
  BY DEF Flush, Rerun, ButtonOnRerun, Goto
<1>4. TypeOK'
  BY <1>1, <1>2, <1>3 DEF DashInv, TypeOK, Running
<1>5. FileInv'
  BY <1>1, <1>2, DashboardAssumption DEF DashInv, TypeOK, FileInv
<1> QED
  BY <1>2, <1>3, <1>4, <1>5 DEF DashInv, TypeOK, EditsInv

LEMMA JobStep ==
    ASSUME DashInv, NEW s \in Sessions, JobReturns(s) \/ JobRaises(s)
    PROVE  DashInv'
<1>1. AfterJob(s) \in Settings
  BY DashboardAssumption DEF DashInv, TypeOK, AfterJob, Settings
<1>2. /\ settings' = [settings EXCEPT ![s] = AfterJob(s)]
      /\ pc' = [pc EXCEPT ![s] = "tab"] \/ pc' = [pc EXCEPT ![s] = "error"]
      /\ UNCHANGED <<file, owner, tab, edits, button, saved, interactions>>
  BY DEF JobReturns, JobRaises, AfterRaise, Goto
<1>3. TypeOK'
  BY <1>1, <1>2 DEF DashInv, TypeOK, Running
<1> QED
  BY <1>2, <1>3 DEF DashInv, TypeOK, EditsInv, FileInv

LEMMA CrashStep ==
    ASSUME DashInv, Crash
    PROVE  DashInv'
<1>1. /\ DEFAULTS \in Settings /\ 1 \in 1 .. Len(Tabs) + 1 /\ interactions' \in 0 .. MaxInteractions
      /\ Empty \in Contents /\ DOMAIN Empty = {}
  BY DashboardAssumption, TabsLength, EmptyType DEF Settings, DashInv, TypeOK, Crash
<1>2. TypeOK'
  BY <1>1 DEF DashInv, TypeOK, Crash
<1> QED
  BY <1>1, <1>2 DEF DashInv, Crash, EditsInv, FileInv

LEMMA DashNext ==
    ASSUME DashInv, [Next]_vars
    PROVE  DashInv'
<1>1. CASE UNCHANGED vars
  BY <1>1 DEF vars, DashInv, TypeOK, EditsInv, FileInv
<1> QED
  BY <1>1, OpenStep, InteractStep, SidebarStep, RenderStep, OpenFileStep, FlushStep, JobStep,
     CrashStep DEF Next, ScriptStep

-----------------------------------------------------------------------------
(* Theorems *)

(***************************************************************************)
(* A session's settings always have every key and are never a mixture with *)
(* another session's; the file is a legal one or garbled.                  *)
(***************************************************************************)
THEOREM SettingsStayComplete == Spec => []TypeOK
<1>1. DashInv => TypeOK
  BY DEF DashInv
<1> QED
  BY <1>1, DashInit, DashNext, PTL DEF Spec

(***************************************************************************)
(* No edit is lost on the way through the eleven tabs, whichever button is *)
(* clicked and whether its job raises (app.py:646-).                       *)
(***************************************************************************)
THEOREM NoEditIsLost == Spec => []EditsReachSettings
<1>1. DashInv => EditsReachSettings
  BY DEF DashInv, EditsInv, EditsReachSettings
<1> QED
  BY <1>1, DashInit, DashNext, PTL DEF Spec

(***************************************************************************)
(* As long as nobody has opened the file since, loading it gives the       *)
(* session that saved it back every value the environment leaves alone     *)
(* (settings_store.py:204-222).                                            *)
(***************************************************************************)
THEOREM SavingThenLoading == Spec => []SavedIsLoaded
<1>1. DashInv => SavedIsLoaded
  <2> SUFFICES ASSUME DashInv, owner # None, NEW k \in Keys
               PROVE  LoadSettings(file)[k] = IF k \in EnvOff THEN Off ELSE saved[owner][k]
    BY DEF SavedIsLoaded
  <2>1. file = saved[owner] /\ file \in Contents /\ DOMAIN file = Keys
    BY SettingsAreContents DEF DashInv, FileInv, Settings
  <2> QED
    BY <2>1, LoadSettingsType
<1> QED
  BY <1>1, DashInit, DashNext, PTL DEF Spec
=============================================================================
