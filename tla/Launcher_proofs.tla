---------------------------- MODULE Launcher_proofs ----------------------------
(***************************************************************************)
(* Proofs about the launcher, for any files, folders, settings and command *)
(* lines.                                                                  *)
(***************************************************************************)
EXTENDS Launcher, WellFoundedInduction, TLAPS
------------------------------------------------------------------------------
(* Types *)

\* A scan finds a file, and one that is there.
LEMMA FirstIsThere ==
  ASSUME NEW S \in SUBSET Files
  PROVE  /\ FirstOf(S) \in S \union {None}
         /\ FirstOf(S) # None => FirstOf(S) \in There
<1>1. CASE \E f \in S : IsFirst(f, S)
  <2>1. /\ FirstOf(S) \in S /\ IsFirst(FirstOf(S), S)
    BY <1>1 DEF FirstOf
  <2>2. FirstOf(S) \in There
    BY <2>1 DEF IsFirst, There
  <2> QED
    BY <2>1, <2>2
<1>2. CASE ~\E f \in S : IsFirst(f, S)
  BY <1>2 DEF FirstOf
<1> QED
  BY <1>1, <1>2

\* A source that is found is a path, and it exists.
LEMMA SourceExists ==
  ASSUME NEW p \in Paths \union {None}, There \subseteq Files
  PROVE  /\ ResolveGameSource(p) \in Paths \union {None}
         /\ ResolveGameSource(p) # None => Exists(ResolveGameSource(p))
<1>1. \A f \in Files : /\ SourceOf(f) \in Paths
                       /\ f \in There => Exists(SourceOf(f))
  BY FoldersAssumption DEF SourceOf, Exists, Paths, Files
<1>2. CASE p \in Folders
  <2>1. /\ Reach[p] \intersect Bootable \in SUBSET Files
        /\ Reach[p] \intersect AddOns \in SUBSET Files
    BY FoldersAssumption DEF Files, Bootable
  <2>2. /\ FirstOf(Reach[p] \intersect Bootable) \in Files \union {None}
        /\ FirstOf(Reach[p] \intersect Bootable) # None =>
             FirstOf(Reach[p] \intersect Bootable) \in There
    BY <2>1, FirstIsThere
  <2>3. /\ FirstOf(Reach[p] \intersect AddOns) \in Files \union {None}
        /\ FirstOf(Reach[p] \intersect AddOns) # None =>
             FirstOf(Reach[p] \intersect AddOns) \in There
    BY <2>1, FirstIsThere
  <2> QED
    BY NoneAssumption, <1>1, <1>2, <2>2, <2>3 DEF ResolveGameSource, Exists, Paths
<1>3. CASE p \notin Folders
  <2>1. CASE p \in There \ Others
    BY NoneAssumption, <1>1, <1>3, <2>1 DEF ResolveGameSource
  <2>2. CASE p \notin There \ Others
    BY <1>3, <2>2 DEF ResolveGameSource
  <2> QED
    BY <2>1, <2>2
<1> QED
  BY <1>2, <1>3

\* What LoadConfig returns is a configuration, whatever is on the disk.
LEMMA ReadingsTyped ==
  ASSUME NEW file \in Contents, NEW c \in Readings(file)
  PROVE  c \in Configs
<1>1. NoConfig \in Configs
  BY DEF NoConfig, Configs, SettingsMap
<1>2. CASE file = None
  BY <1>1, <1>2 DEF Readings
<1>3. CASE file # None /\ file.whole
  <2>1. file.cfg \in Configs
    BY <1>3 DEF Contents
  <2> QED
    BY <1>3, <2>1 DEF Readings
<1>4. CASE file # None /\ ~file.whole
  <2>1. /\ file.cfg.game \in Paths \union {None}
        /\ file.cfg.settings \in SettingsMap
    BY <1>4 DEF Contents, Configs
  <2>2. \A S \in SUBSET Settings :
          [s \in Settings |-> IF s \in S THEN file.cfg.settings[s] ELSE None] \in SettingsMap
    BY <2>1 DEF SettingsMap
  <2> QED
    BY <1>1, <1>4, <2>1, <2>2 DEF Readings, Configs
<1> QED
  BY <1>2, <1>3, <1>4

\* A map of settings gives each a value or none.
LEMMA SettingIn ==
  ASSUME NEW m \in SettingsMap, NEW s \in Settings
  PROVE  m[s] \in Values \union {None}
BY DEF SettingsMap

\* The layers give every setting a value; what is recorded may leave one out.
LEMMA LayersTyped ==
  ASSUME NEW c \in Configs, cvars \in [Settings -> Values]
  PROVE  /\ Layered(c) \in [Settings -> Values]
         /\ Recorded(c) \in SettingsMap
<1>1. \A s \in Settings : /\ c.settings[s] \in Values \union {None}
                         /\ Default[s] \in Values \union {None}
                         /\ cvars[s] \in Values
  BY SettingIn, DefaultsAssumption DEF Configs
<1>2. ASSUME NEW s \in Settings
      PROVE  Layered(c)[s] \in Values
  <2>1. Layered(c)[s] = IF OnCli(s) THEN cvars[s]
                        ELSE IF c.settings[s] # None THEN c.settings[s]
                        ELSE IF Default[s] # None THEN Default[s] ELSE cvars[s]
    BY DEF Layered
  <2>2. CASE OnCli(s)
    BY <1>1, <2>1, <2>2
  <2>3. CASE ~OnCli(s)
    BY <1>1, <2>1, <2>3
  <2> QED
    BY <2>2, <2>3
<1>3. Layered(c) \in [Settings -> Values]
  BY <1>2 DEF Layered
<1>4. ASSUME NEW s \in Settings
      PROVE  Recorded(c)[s] \in Values \union {None}
  <2>1. Recorded(c)[s] = IF OnCli(s) THEN Layered(c)[s] ELSE c.settings[s]
    BY DEF Recorded
  <2> QED
    BY <1>1, <1>2, <2>1
<1>5. Recorded(c) \in SettingsMap
  BY <1>4 DEF Recorded, SettingsMap
<1> QED
  BY <1>3, <1>5

\* The empty memory of a process that begins or ends.
LEMMA NoMemoryTyped ==
  /\ NoConfig \in Configs
  /\ NoResult \in [path : Paths \union {None}, source : Paths \union {None}]
  /\ Engine \in [Settings -> Values]
BY DefaultsAssumption DEF NoConfig, NoResult, Configs, SettingsMap

\* A process that begins or ends leaves memory of the right types.
LEMMA NoMemoryStep ==
  ASSUME NoMemory
  PROVE  /\ cfg' \in Configs /\ text' \in Configs
         /\ found' \in Paths \union {None} /\ root' \in Paths \union {None}
         /\ box' \in Paths \union {None} /\ choice' \in Paths \union {None}
         /\ result' \in [path : Paths \union {None}, source : Paths \union {None}]
         /\ after' \in {"off", "decide", "playing"}
BY NoMemoryTyped DEF NoMemory

\* The game files remain a sequence of files, and only the user changes them,
\* while the launcher does not run.
LEMMA FilesStep ==
  ASSUME TypeOK, [Next]_vars
  PROVE  /\ files' \in Seq(Files)
         /\ pc # "off" => files' = files
<1>1. files \in Seq(Files)
  BY DEF TypeOK
<1>2. ASSUME NEW f \in Files, NEW i \in 0 .. Len(files), AddFile(f, i)
      PROVE  files' \in Seq(Files) /\ pc = "off"
  BY <1>1, <1>2 DEF AddFile
<1>3. ASSUME NEW i \in DOMAIN files, RemoveFile(i)
      PROVE  files' \in Seq(Files) /\ pc = "off"
  BY <1>1, <1>3 DEF RemoveFile
<1>4. CASE /\ ~\E f \in Files, i \in 0 .. Len(files) : AddFile(f, i)
           /\ ~\E i \in DOMAIN files : RemoveFile(i)
  <2>1. files' = files
    BY <1>4 DEF Next, Start, Answer, ResolveAndPersist, ExitEarly, LaunchNow, OpenWizard, EditPath,
         Frame, Play, ChangeSetting, OpenSettings, CloseSettings, Quit, Crash, Save, OpenTmp,
         WriteTmp, RemoveTarget, RenameTmp, OpenTarget, RewriteTarget, vars, diskVars
  <2> QED
    BY <1>1, <2>1
<1> QED
  BY <1>2, <1>3, <1>4

\* What files there are decides what a scan finds.
LEMMA ThereTyped ==
  ASSUME files \in Seq(Files)
  PROVE  There \subseteq Files
BY DEF There

\* The two history flags are Booleans: apart, since no backend mixes them well
\* with the rest.
DataOK ==
  /\ target \in Contents /\ tmp \in Contents
  /\ pc \in PCs /\ args \in Launches \union {NoLaunch}
  /\ cvars \in [Settings -> Values]
  /\ cfg \in Configs /\ found \in Paths \union {None} /\ root \in Paths \union {None}
  /\ box \in Paths \union {None}
  /\ result \in [path : Paths \union {None}, source : Paths \union {None}]
  /\ text \in Configs /\ after \in {"off", "decide", "playing"}
  /\ choice \in Paths \union {None} /\ saved \in Configs \union {None}
  /\ given \subseteq Settings

FlagsOK == hurt \in BOOLEAN /\ reviewed \in BOOLEAN

LEMMA TypeParts == TypeOK <=> files \in Seq(Files) /\ DataOK /\ FlagsOK
BY DEF TypeOK, DataOK, FlagsOK

LEMMA TypeInit == Init => TypeOK
<1> SUFFICES ASSUME Init PROVE TypeOK
  OBVIOUS
<1>1. /\ NoConfig \in Configs /\ cvars \in [Settings -> Values]
      /\ NoResult \in [path : Paths \union {None}, source : Paths \union {None}]
  BY NoMemoryTyped DEF Init
<1>2. DataOK /\ files \in Seq(Files)
  BY <1>1 DEF Init, DataOK, Contents, PCs
<1>3. FlagsOK
  BY Zenon DEF Init, FlagsOK
<1> QED
  BY <1>2, <1>3, TypeParts

\* The data through a save.
LEMMA SaveTyped ==
  ASSUME DataOK, Save
  PROVE  DataOK'
<1>1. NoConfig \in Configs
  BY NoMemoryTyped
<1>2. \A c \in Configs : Whole(c) \in Contents /\ Torn(c) \in Contents
  BY DEF Whole, Torn, Contents
<1>3. None \in Contents
  BY DEF Contents
<1>4. CASE OpenTmp
  BY <1>1, <1>2, <1>4 DEF DataOK, OpenTmp, SaveReturns, PCs, SavePCs, uiVars, runVars, ghosts
<1>5. CASE WriteTmp
  BY <1>1, <1>2, <1>5 DEF DataOK, WriteTmp, SaveReturns, PCs, SavePCs, uiVars, runVars, ghosts
<1>6. CASE RemoveTarget
  BY <1>3, <1>6 DEF DataOK, RemoveTarget, PCs, SavePCs, saveVars, uiVars, runVars, ghosts
<1>7. CASE RenameTmp
  BY <1>1, <1>3, <1>7 DEF DataOK, RenameTmp, SaveReturns, PCs, SavePCs, saveVars, uiVars, runVars, ghosts
<1>8. CASE OpenTarget
  BY <1>1, <1>2, <1>8 DEF DataOK, OpenTarget, SaveReturns, PCs, SavePCs, uiVars, runVars, ghosts
<1>9. CASE RewriteTarget
  BY <1>1, <1>2, <1>9 DEF DataOK, RewriteTarget, SaveReturns, PCs, SavePCs, uiVars, runVars, ghosts
<1> QED
  BY <1>4, <1>5, <1>6, <1>7, <1>8, <1>9 DEF Save

\* A launch: its command line sets settings to values.
LEMMA StartTyped ==
  ASSUME DataOK, NEW launch \in Launches, Start(launch)
  PROVE  DataOK'
<1>1. launch.set \in SettingsMap
  BY LaunchesAssumption
<1>2. \A s \in Settings : launch.set[s] \in Values \union {None} /\ Engine[s] \in Values
  BY <1>1, SettingIn, DefaultsAssumption
<1>3. cvars' \in [Settings -> Values]
  BY <1>2 DEF Start
<1>4. NoMemory
  BY DEF Start
<1>5. given' \subseteq Settings
  BY DEF Start, DataOK
<1> QED
  BY <1>3, <1>4, <1>5, NoMemoryStep DEF DataOK, Start, PCs, diskVars

\* An end.
LEMMA EndTyped ==
  ASSUME DataOK, Ends, target' = target, tmp' = tmp, saved' = saved, given' = given
  PROVE  DataOK'
<1>1. NoMemory
  BY DEF Ends
<1>2. cvars' \in [Settings -> Values]
  BY NoMemoryTyped DEF Ends
<1> QED
  BY <1>1, <1>2, NoMemoryStep DEF DataOK, Ends, PCs

\* The settings and the game are resolved.
LEMMA ResolveTyped ==
  ASSUME DataOK, files \in Seq(Files), ResolveAndPersist
  PROVE  DataOK'
<1> PICK c \in Readings(target) :
       LET raw == IF args.game # None THEN args.game ELSE c.game
           source == ResolveGameSource(raw)
       IN  /\ cfg' = c
           /\ cvars' = Layered(c)
           /\ choice' = raw
           /\ found' = source
           /\ root' = IF source # None THEN source ELSE args.game
           /\ IF source # None
              THEN BeginSave([game |-> source, settings |-> Recorded(c)], "decide")
              ELSE pc' = "decide" /\ UNCHANGED <<text, after>>
  BY DEF ResolveAndPersist
<1> DEFINE raw == IF args.game # None THEN args.game ELSE c.game
           source == ResolveGameSource(raw)
<1>1. c \in Configs
  BY ReadingsTyped DEF DataOK
<1>2. args.game \in Paths \union {None}
  BY LaunchesAssumption DEF DataOK, NoLaunch
<1>3. raw \in Paths \union {None}
  BY <1>1, <1>2 DEF Configs
<1>4. source \in Paths \union {None}
  BY <1>3, SourceExists, ThereTyped
<1>5. Layered(c) \in [Settings -> Values] /\ Recorded(c) \in SettingsMap
  BY <1>1, LayersTyped DEF DataOK
<1> HIDE DEF raw, source
<1>6. cfg' \in Configs /\ cvars' \in [Settings -> Values]
  BY <1>1, <1>5
<1>7. choice' \in Paths \union {None} /\ found' \in Paths \union {None} /\ root' \in Paths \union {None}
  BY <1>2, <1>3, <1>4 DEF raw, source
<1>8. /\ text' \in Configs /\ after' \in {"off", "decide", "playing"}
      /\ pc' \in PCs
  <2>1. CASE source # None
    <3>1. [game |-> source, settings |-> Recorded(c)] \in Configs
      BY <1>4, <1>5 DEF Configs
    <3> QED
      BY <2>1, <3>1 DEF raw, source, BeginSave, PCs, SavePCs
  <2>2. CASE source = None
    BY <2>2 DEF raw, source, DataOK, PCs
  <2> QED
    BY <2>1, <2>2
<1> QED
  BY <1>6, <1>7, <1>8 DEF DataOK, ResolveAndPersist, diskVars, uiVars

\* What the wizard opens with, and what its frames keep.
LEMMA WizardTyped ==
  ASSUME DataOK, files \in Seq(Files)
  PROVE  /\ AutoDetectGameNearExe \in Paths \union {None}
         /\ Revalidated \in [path : Paths \union {None}, source : Paths \union {None}]
<1>1. There \subseteq Files
  BY ThereTyped
<1>2. ExeFolder \in Paths \union {None}
  BY FoldersAssumption DEF Paths
<1>3. AutoDetectGameNearExe \in Paths \union {None}
  BY <1>1, <1>2, SourceExists DEF AutoDetectGameNearExe
<1>4. box \in Paths \union {None} /\ result \in [path : Paths \union {None}, source : Paths \union {None}]
  BY DEF DataOK
<1>5. ResolveGameSource(box) \in Paths \union {None}
  BY <1>1, <1>4, SourceExists
<1> QED
  BY <1>3, <1>4, <1>5 DEF Revalidated, Validate

\* What is saved is a configuration when its game is a path.
LEMMA SavedTyped ==
  ASSUME cvars \in [Settings -> Values], NEW game \in Paths \union {None}
  PROVE  [game |-> game, settings |-> cvars] \in Configs
BY DEF Configs, SettingsMap

LEMMA DataStep ==
  ASSUME TypeOK, [Next]_vars
  PROVE  DataOK'
<1> USE TypeParts
<1>1. CASE Save
  BY <1>1, SaveTyped
<1>2. ASSUME NEW launch \in Launches, Start(launch) PROVE DataOK'
  BY <1>2, StartTyped
<1>3. CASE Answer \/ ExitEarly \/ Quit \/ Crash
  <2>1. /\ Ends /\ target' = target /\ tmp' = tmp /\ saved' = saved /\ given' = given
    BY <1>3 DEF Answer, ExitEarly, Quit, Crash, diskVars
  <2> QED
    BY <2>1, EndTyped
<1>4. CASE ResolveAndPersist
  BY <1>4, ResolveTyped
<1>5. CASE LaunchNow \/ OpenSettings
  BY <1>5, NoMemoryTyped
     DEF LaunchNow, OpenSettings, DataOK, PCs, diskVars, saveVars, uiVars, runVars, ghosts
<1>6. CASE OpenWizard
  <2>1. box' \in Paths \union {None}
    BY <1>6, WizardTyped DEF OpenWizard, DataOK
  <2> QED
    BY <1>6, <2>1, NoMemoryTyped DEF OpenWizard, DataOK, PCs, diskVars, saveVars, ghosts
<1>7. ASSUME NEW p \in UserPaths, EditPath(p) PROVE DataOK'
  BY <1>7, UserPathsAssumption
     DEF EditPath, DataOK, diskVars, saveVars, runVars, ghosts
<1>8. ASSUME NEW pick \in UserPaths \union {box}, Frame(pick) PROVE DataOK'
  BY <1>8, UserPathsAssumption, WizardTyped
     DEF Frame, DataOK, diskVars, saveVars, runVars, ghosts
<1>9. ASSUME NEW pick \in UserPaths \union {box}, Play(pick) PROVE DataOK'
  <2>1. pick \in Paths \union {None}
    BY UserPathsAssumption DEF DataOK
  <2>2. Revalidated.source \in Paths \union {None}
    BY WizardTyped
  <2>3. [game |-> Revalidated.source, settings |-> cvars] \in Configs
    BY <2>2, SavedTyped DEF DataOK
  <2> QED
    BY <1>9, <2>1, <2>2, <2>3, NoMemoryTyped
       DEF Play, SaveGameAndSettings, BeginSave, DataOK, PCs, SavePCs, diskVars
<1>10. ASSUME NEW s \in Settings, NEW v \in Values, ChangeSetting(s, v) PROVE DataOK'
  <2>1. cvars' \in [Settings -> Values]
    BY <1>10 DEF ChangeSetting, DataOK
  <2> QED
    BY <1>10, <2>1 DEF ChangeSetting, DataOK, diskVars, saveVars, uiVars, ghosts
<1>11. CASE CloseSettings
  <2>1. [game |-> root, settings |-> cvars] \in Configs
    BY SavedTyped DEF DataOK
  <2> QED
    BY <1>11, <2>1
       DEF CloseSettings, SaveGameAndSettings, BeginSave, DataOK, PCs, SavePCs, diskVars, uiVars, runVars
<1>12. ASSUME NEW f \in Files, NEW i \in 0 .. Len(files), AddFile(f, i) PROVE DataOK'
  BY <1>12 DEF AddFile, DataOK, saveVars, uiVars, runVars, ghosts
<1>13. ASSUME NEW i \in DOMAIN files, RemoveFile(i) PROVE DataOK'
  BY <1>13 DEF RemoveFile, DataOK, saveVars, uiVars, runVars, ghosts
<1>14. CASE UNCHANGED vars
  BY <1>14 DEF DataOK, vars, diskVars, saveVars, uiVars, runVars, ghosts
<1> QED
  BY <1>1, <1>2, <1>3, <1>4, <1>5, <1>6, <1>7, <1>8, <1>9, <1>10, <1>11, <1>12, <1>13, <1>14
     DEF Next

LEMMA FlagsStep ==
  ASSUME TypeOK, [Next]_vars
  PROVE  FlagsOK'
<1>1. FlagsOK
  BY TypeParts
<1>2. tmp.whole \in BOOLEAN \/ tmp = None
  BY DEF TypeOK, Contents
<1>3. hurt' \in BOOLEAN
  BY <1>1, Zenon
     DEF FlagsOK, Next, AddFile, RemoveFile, Start, Answer, ResolveAndPersist, ExitEarly, LaunchNow,
     OpenWizard, EditPath, Frame, Play, ChangeSetting, OpenSettings, CloseSettings, Quit, Crash, Save,
     OpenTmp, WriteTmp, RemoveTarget, RenameTmp, OpenTarget, RewriteTarget, vars, saveVars
<1>4. reviewed' \in BOOLEAN
  BY <1>1, Zenon
     DEF FlagsOK, Next, AddFile, RemoveFile, Start, Answer, ResolveAndPersist, ExitEarly, LaunchNow,
     OpenWizard, EditPath, Frame, Play, ChangeSetting, OpenSettings, CloseSettings, Quit, Crash, Save,
     OpenTmp, WriteTmp, RemoveTarget, RenameTmp, OpenTarget, RewriteTarget, vars, ghosts
<1> QED
  BY <1>3, <1>4 DEF FlagsOK

\* Every variable keeps its type.
THEOREM TypeCorrect == Spec => []TypeOK
<1>1. ASSUME TypeOK, [Next]_vars PROVE TypeOK'
  BY <1>1, FilesStep, DataStep, FlagsStep, TypeParts DEF TypeOK, DataOK, FlagsOK
<1> QED
  BY <1>1, TypeInit, PTL DEF Spec

------------------------------------------------------------------------------
(* Saves *)

\* What SavedIsKept rests on: the temporary file holds what is being saved, or
\* a part of it, until it takes the place of launcher.toml.
SaveInv ==
  /\ pc = "write" => tmp = Torn(text)
  /\ pc \in {"remove", "rename"} => tmp \in {Whole(text), Torn(text)}

\* After SaveConfig its caller goes on: nothing of the save is left.
LEMMA Returns ==
  ASSUME TypeOK, SaveReturns
  PROVE  pc' \notin SavePCs
BY DEF TypeOK, SaveReturns, SavePCs

LEMMA SaveInvStep ==
  ASSUME TypeOK, SaveInv, [Next]_vars
  PROVE  SaveInv'
<1>1. CASE OpenTmp
  BY <1>1, Returns DEF OpenTmp, SaveInv, SavePCs
<1>2. CASE WriteTmp
  BY <1>2, Returns DEF WriteTmp, SaveInv, SavePCs
<1>3. CASE RemoveTarget
  BY <1>3 DEF RemoveTarget, SaveInv, saveVars
<1>4. CASE RenameTmp \/ OpenTarget \/ RewriteTarget
  BY <1>4, Returns DEF RenameTmp, OpenTarget, RewriteTarget, SaveInv, SavePCs
<1>5. CASE ResolveAndPersist
  <2>1. pc' \in {"open", "decide"}
    BY <1>5 DEF ResolveAndPersist, BeginSave
  <2> QED
    BY <2>1 DEF SaveInv
<1>6. CASE Next /\ ~Save /\ ~ResolveAndPersist
  <2>1. \/ pc' \notin {"write", "remove", "rename"}
        \/ pc' = pc /\ tmp' = tmp /\ text' = text
    BY <1>6
       DEF Next, AddFile, RemoveFile, Start, Answer, ExitEarly, Ends, LaunchNow, OpenWizard, EditPath,
       Frame, Play, SaveGameAndSettings, BeginSave, ChangeSetting, OpenSettings, CloseSettings, Quit,
       Crash, diskVars, saveVars
  <2> QED
    BY <2>1 DEF SaveInv
<1>7. CASE UNCHANGED vars
  BY <1>7 DEF SaveInv, vars, diskVars, saveVars
<1> QED
  BY <1>1, <1>2, <1>3, <1>4, <1>5, <1>6, <1>7 DEF Save

\* A step that is no part of the end of a save keeps target and saved, and
\* does not undo a failure.
LEMMA SaveUntouched ==
  ASSUME TypeOK, [Next]_vars, ~RenameTmp, ~OpenTarget, ~RewriteTarget, ~RemoveTarget
  PROVE  /\ target' = target /\ saved' = saved
         /\ hurt => hurt'
         /\ pc \in {"rename", "fallback", "rewrite"} => pc' = pc \/ hurt'
<1>1. target' = target /\ saved' = saved
  BY DEF Next, AddFile, RemoveFile, Start, Answer, ResolveAndPersist, ExitEarly, LaunchNow,
     OpenWizard, EditPath, Frame, Play, ChangeSetting, OpenSettings, CloseSettings, Quit, Crash, Save,
     OpenTmp, WriteTmp, vars, diskVars, saveVars
<1>2. hurt => hurt'
  BY Zenon
     DEF Next, AddFile, RemoveFile, Start, Answer, ResolveAndPersist, ExitEarly, LaunchNow,
     OpenWizard, EditPath, Frame, Play, ChangeSetting, OpenSettings, CloseSettings, Quit, Crash, Save,
     OpenTmp, WriteTmp, vars, saveVars
<1>3. ASSUME pc \in {"rename", "fallback", "rewrite"} PROVE pc' = pc \/ hurt'
  <2>1. CASE Crash
    BY <1>3, <2>1, Zenon DEF Crash
  <2>2. CASE ~Crash
    BY <1>3, <2>2
       DEF Next, AddFile, RemoveFile, Start, Answer, ResolveAndPersist, ExitEarly, LaunchNow,
       OpenWizard, EditPath, Frame, Play, ChangeSetting, OpenSettings, CloseSettings, Quit, Save,
       OpenTmp, WriteTmp, vars
  <2> QED
    BY <2>1, <2>2
<1> QED
  BY <1>1, <1>2, <1>3

LEMMA SavedIsKeptStep ==
  ASSUME TypeOK, SaveInv, SavedIsKept, [Next]_vars
  PROVE  SavedIsKept'
<1> SUFFICES ASSUME ~hurt', pc' \notin {"rename", "fallback", "rewrite"}
             PROVE  Kept'
  BY DEF SavedIsKept
<1>1. text # None
  BY NoneAssumption DEF TypeOK
<1>2. CASE RenameTmp
  <2>1. /\ target' = tmp /\ saved' = text
    BY <1>2 DEF RenameTmp
  <2>2. tmp.whole
    BY <1>2, Zenon DEF RenameTmp
  <2>3. tmp = Whole(text)
    BY <1>2, <2>2 DEF RenameTmp, SaveInv, Torn
  <2> QED
    BY <1>1, <2>1, <2>3 DEF Kept
<1>3. CASE OpenTarget
  BY <1>3, Zenon DEF OpenTarget
<1>4. CASE RewriteTarget
  <2>1. target' = Whole(text) /\ saved' = text
    BY <1>4, Zenon DEF RewriteTarget
  <2> QED
    BY <1>1, <2>1 DEF Kept
<1>5. CASE RemoveTarget
  BY <1>5 DEF RemoveTarget
<1>6. CASE ~RenameTmp /\ ~OpenTarget /\ ~RewriteTarget /\ ~RemoveTarget
  <2>1. /\ target' = target /\ saved' = saved
        /\ ~hurt /\ pc \notin {"rename", "fallback", "rewrite"}
    BY <1>6, SaveUntouched
  <2> QED
    BY <2>1 DEF SavedIsKept, Kept
<1> QED
  BY <1>2, <1>3, <1>4, <1>5, <1>6

\* Unless a save fails where the code does not look or cannot recover, or is
\* cut off after the old file is removed, the next LoadConfig finds what was
\* saved last.
THEOREM SavedCorrect == Spec => []SavedIsKept
<1>1. Init => SaveInv /\ SavedIsKept
  BY DEF Init, SaveInv, SavedIsKept, Kept
<1>2. ASSUME TypeOK, TypeOK', SaveInv, SavedIsKept, [Next]_vars
      PROVE  SaveInv' /\ SavedIsKept'
  BY <1>2, SaveInvStep, SavedIsKeptStep
<1> QED
  BY <1>1, <1>2, TypeCorrect, PTL DEF Spec

------------------------------------------------------------------------------
(* The decision *)

\* Between ResolveAndPersist and the choice of game or wizard, a save included.
Deciding == pc = "decide" \/ (pc \in SavePCs /\ after = "decide")

\* What a step can do to a process that is, or comes to be, deciding: it
\* resolves, it goes on with its save, or it is left alone.
LEMMA DecidingStep ==
  ASSUME TypeOK, [Next]_vars, Deciding'
  PROVE  \/ ResolveAndPersist
         \/ Deciding /\ UNCHANGED <<runVars, files>>
<1>1. CASE Save
  <2>1. UNCHANGED <<runVars, files>>
    BY <1>1 DEF Save, OpenTmp, WriteTmp, RemoveTarget, RenameTmp, OpenTarget, RewriteTarget
  <2>2. pc \in SavePCs
    BY <1>1 DEF Save, OpenTmp, WriteTmp, RemoveTarget, RenameTmp, OpenTarget, RewriteTarget, SavePCs
  <2>3. after = "decide"
    <3>1. CASE SaveReturns
      BY <3>1, Returns DEF SaveReturns, Deciding
    <3>2. CASE ~SaveReturns
      <4>1. after' = after /\ pc' \in SavePCs
        BY <1>1, <3>2
           DEF Save, OpenTmp, WriteTmp, RemoveTarget, RenameTmp, OpenTarget, RewriteTarget, SavePCs, saveVars
      <4> QED
        BY <4>1 DEF Deciding, SavePCs
    <3> QED
      BY <3>1, <3>2
  <2> QED
    BY <2>1, <2>2, <2>3 DEF Deciding
<1>2. CASE UNCHANGED vars
  BY <1>2 DEF Deciding, vars, diskVars, saveVars
<1>3. CASE Next /\ ~Save /\ ~ResolveAndPersist
  BY <1>3
     DEF Next, Deciding, SavePCs, AddFile, RemoveFile, Start, Answer, ExitEarly, Ends, NoMemory,
     LaunchNow, OpenWizard, EditPath, Frame, Play, SaveGameAndSettings, BeginSave, ChangeSetting,
     OpenSettings, CloseSettings, Quit, Crash, saveVars
<1> QED
  BY <1>1, <1>2, <1>3

\* A source that was found is the root of the game data, and stays on the disk
\* while the launcher runs.
FoundInv == Deciding /\ found # None => root = found /\ Exists(root)

LEMMA FoundStep ==
  ASSUME TypeOK, FoundInv, [Next]_vars
  PROVE  FoundInv'
<1> SUFFICES ASSUME Deciding', found' # None
             PROVE  root' = found' /\ Exists(root)'
  BY DEF FoundInv
<1>1. CASE Deciding /\ UNCHANGED <<runVars, files>>
  BY <1>1 DEF FoundInv, Exists, There, runVars
<1>2. CASE ResolveAndPersist
  <2> PICK c \in Readings(target) :
         /\ root' = found'
         /\ found' = ResolveGameSource(IF args.game # None THEN args.game ELSE c.game)
    BY <1>2 DEF ResolveAndPersist
  <2>1. c \in Configs
    BY ReadingsTyped DEF TypeOK
  <2>2. args.game \in Paths \union {None}
    BY LaunchesAssumption DEF TypeOK, NoLaunch
  <2>3. (IF args.game # None THEN args.game ELSE c.game) \in Paths \union {None}
    BY <2>1, <2>2 DEF Configs
  <2>4. Exists(found')
    BY <2>3, SourceExists, ThereTyped DEF TypeOK
  <2>5. files' = files
    BY <1>2 DEF ResolveAndPersist, diskVars
  <2> QED
    BY <2>4, <2>5 DEF Exists, There
<1> QED
  BY <1>1, <1>2, DecidingStep

LEMMA EmbeddedStep ==
  ASSUME TypeOK, FoundInv, EmbeddedNeverAsks, [Next]_vars
  PROVE  EmbeddedNeverAsks'
<1> SUFFICES ASSUME pc' = "wizard"
             PROVE  (args.setup \/ ~args.embedded)'
  BY DEF EmbeddedNeverAsks
<1>1. CASE OpenWizard
  <2>1. args' = args /\ pc = "decide"
    BY <1>1 DEF OpenWizard
  <2>2. CASE found = None
    BY <1>1, <2>1, <2>2, Zenon DEF OpenWizard, Exits
  <2>3. CASE found # None
    <3>1. root # None /\ Exists(root)
      BY <2>1, <2>3 DEF FoundInv, Deciding
    <3>2. args.setup
      BY <1>1, <3>1, Zenon DEF OpenWizard, Launchable
    <3> QED
      BY <2>1, <3>2
  <2> QED
    BY <2>2, <2>3
<1>2. CASE ~OpenWizard
  <2>1. pc = "wizard" /\ args' = args
    <3>1. CASE Save
      <4>1. CASE SaveReturns
        BY <4>1 DEF SaveReturns, TypeOK
      <4>2. CASE ~SaveReturns
        BY <3>1, <4>2 DEF Save, OpenTmp, WriteTmp, RemoveTarget, RenameTmp, OpenTarget, RewriteTarget
      <4> QED
        BY <4>1, <4>2
    <3>2. CASE ~Save
      BY <1>2, <3>2
         DEF Next, AddFile, RemoveFile, Start, Answer, ResolveAndPersist, ExitEarly, Ends, LaunchNow,
         EditPath, Frame, Play, SaveGameAndSettings, BeginSave, ChangeSetting, OpenSettings,
         CloseSettings, Quit, Crash, vars, runVars
    <3> QED
      BY <3>1, <3>2
  <2> QED
    BY <2>1 DEF EmbeddedNeverAsks
<1> QED
  BY <1>1, <1>2

\* A frontend that passes --no_setup never gets the wizard, with whatever game
\* path, saved file and disk contents.
THEOREM EmbeddedCorrect == Spec => []EmbeddedNeverAsks
<1>1. Init => FoundInv /\ EmbeddedNeverAsks
  BY DEF Init, FoundInv, Deciding, SavePCs, EmbeddedNeverAsks
<1>2. ASSUME TypeOK, TypeOK', FoundInv, EmbeddedNeverAsks, [Next]_vars
      PROVE  FoundInv' /\ EmbeddedNeverAsks'
  BY <1>2, FoundStep, EmbeddedStep
<1> QED
  BY <1>1, <1>2, TypeCorrect, PTL DEF Spec

------------------------------------------------------------------------------
(* Settings *)

\* Before ResolveAndPersist the settings are those of the engine and of the
\* command line; after it, until the game or the wizard, they are layered.
LayersInv ==
  /\ pc = "bootstrap" =>
       \A s \in Settings : cvars[s] = IF OnCli(s) THEN args.set[s] ELSE Engine[s]
  /\ Deciding =>
       \A s \in Settings :
         /\ args.set[s] # None => cvars[s] = args.set[s]
         /\ args.set[s] = None /\ cfg.settings[s] # None => cvars[s] = cfg.settings[s]
         /\ args.set[s] = None /\ cfg.settings[s] = None =>
              cvars[s] = IF Default[s] # None THEN Default[s] ELSE Engine[s]

LEMMA LayersStep ==
  ASSUME TypeOK, LayersInv, [Next]_vars
  PROVE  LayersInv'
<1>1. ASSUME pc' = "bootstrap", NEW s \in Settings
      PROVE  cvars'[s] = IF OnCli(s)' THEN args'.set[s] ELSE Engine[s]
  <2>1. CASE \E launch \in Launches : Start(launch)
    BY <2>1 DEF Start, OnCli
  <2>2. CASE ~\E launch \in Launches : Start(launch)
    <3>1. pc = "bootstrap" /\ args' = args /\ cvars' = cvars
      <4>1. CASE Save
        BY <1>1, <4>1, Returns
           DEF Save, OpenTmp, WriteTmp, RemoveTarget, RenameTmp, OpenTarget, RewriteTarget,
           SaveReturns, TypeOK
      <4>2. CASE ~Save
        BY <1>1, <2>2, <4>2
           DEF Next, AddFile, RemoveFile, Answer, ResolveAndPersist, ExitEarly, Ends, LaunchNow,
           OpenWizard, EditPath, Frame, Play, SaveGameAndSettings, BeginSave, ChangeSetting,
           OpenSettings, CloseSettings, Quit, Crash, vars, runVars
      <4> QED
        BY <4>1, <4>2
    <3> QED
      BY <3>1 DEF LayersInv, OnCli
  <2> QED
    BY <2>1, <2>2
<1>2. ASSUME Deciding', NEW s \in Settings
      PROVE  /\ args'.set[s] # None => cvars'[s] = args'.set[s]
             /\ args'.set[s] = None /\ cfg'.settings[s] # None => cvars'[s] = cfg'.settings[s]
             /\ args'.set[s] = None /\ cfg'.settings[s] = None =>
                  cvars'[s] = IF Default[s] # None THEN Default[s] ELSE Engine[s]
  <2>1. CASE ResolveAndPersist
    <3>1. cvars' = Layered(cfg') /\ args' = args /\ pc = "bootstrap"
      BY <2>1 DEF ResolveAndPersist
    <3>2. cvars'[s] = IF OnCli(s) THEN cvars[s]
                      ELSE IF cfg'.settings[s] # None THEN cfg'.settings[s]
                      ELSE IF Default[s] # None THEN Default[s] ELSE cvars[s]
      BY <3>1 DEF Layered
    <3>3. cvars[s] = IF OnCli(s) THEN args.set[s] ELSE Engine[s]
      BY <3>1 DEF LayersInv
    <3> QED
      BY <3>1, <3>2, <3>3 DEF OnCli
  <2>2. CASE Deciding /\ UNCHANGED <<runVars, files>>
    BY <2>2 DEF LayersInv, runVars
  <2> QED
    BY <1>2, <2>1, <2>2, DecidingStep
<1> QED
  BY <1>1, <1>2 DEF LayersInv

\* Command line over saved settings over defaults, for every setting.
THEOREM PriorityCorrect == Spec => []Priority
<1>1. Init => LayersInv
  BY DEF Init, LayersInv, Deciding, SavePCs
<1>2. ASSUME TypeOK, LayersInv, [Next]_vars
      PROVE  LayersInv'
  BY <1>2, LayersStep
<1>3. LayersInv => Priority
  BY DEF LayersInv, Priority, Deciding
<1> QED
  BY <1>1, <1>2, <1>3, TypeCorrect, PTL DEF Spec

\* What a configuration records of the settings was given on a command line.
Given(c) == \A s \in Settings : c.settings[s] # None => s \in given

\* What DefaultsNotFrozen rests on: nothing else is read back, kept in memory
\* or on its way into the file.
FrozenInv ==
  /\ \A s \in Settings : args.set[s] # None => s \in given
  /\ ~reviewed =>
       /\ Given(text)
       /\ target # None => Given(target.cfg)
       /\ tmp # None => Given(tmp.cfg)

\* What LoadConfig returns records no more than the file.
LEMMA ReadingsGiven ==
  ASSUME NEW file, file # None => Given(file.cfg), NEW c \in Readings(file)
  PROVE  Given(c)
<1>1. Given(NoConfig)
  BY DEF Given, NoConfig
<1> QED
  BY <1>1 DEF Readings, Given

\* ResolveAndPersist adds what is on its command line.
LEMMA RecordedGiven ==
  ASSUME NEW c, Given(c), \A s \in Settings : args.set[s] # None => s \in given, NEW game
  PROVE  Given([game |-> game, settings |-> Recorded(c)])
BY DEF Given, Recorded, OnCli

LEMMA FrozenStep ==
  ASSUME TypeOK, FrozenInv, [Next]_vars
  PROVE  FrozenInv'
<1>1. Given(NoConfig)' /\ Given(NoConfig)
  BY DEF Given, NoConfig
<1>2. \A s \in Settings : NoLaunch.set[s] = None
  BY DEF NoLaunch
<1>3. ASSUME NEW launch \in Launches, Start(launch) PROVE FrozenInv'
  BY <1>1, <1>3 DEF FrozenInv, Given, Start, NoMemory, diskVars
<1>4. CASE Answer \/ ExitEarly \/ Quit \/ Crash
  <2>1. /\ args' = NoLaunch /\ text' = NoConfig
        /\ target' = target /\ tmp' = tmp /\ given' = given /\ reviewed' = reviewed
    BY <1>4 DEF Answer, ExitEarly, Quit, Crash, Ends, NoMemory, diskVars
  <2> QED
    BY <1>1, <1>2, <2>1 DEF FrozenInv, Given
<1>5. CASE Save
  <2>1. /\ args' = args /\ given' = given /\ reviewed' = reviewed
        /\ text' \in {text, NoConfig}
        /\ target' \in {None, target, tmp, Torn(text), Whole(text)}
        /\ tmp' \in {None, tmp, Torn(text), Whole(text)}
    BY <1>5
       DEF Save, OpenTmp, WriteTmp, RemoveTarget, RenameTmp, OpenTarget, RewriteTarget,
       SaveReturns, saveVars, runVars, ghosts
  <2>2. Torn(text).cfg = text /\ Whole(text).cfg = text
    BY DEF Torn, Whole
  <2>3. \A s \in Settings : args'.set[s] # None => s \in given'
    BY <2>1 DEF FrozenInv
  <2>4. ASSUME ~reviewed' PROVE Given(text)'
    BY <1>1, <2>1, <2>4 DEF FrozenInv, Given
  <2>5. ASSUME ~reviewed', target' # None PROVE Given(target.cfg)'
    BY <2>1, <2>2, <2>5 DEF FrozenInv, Given
  <2>6. ASSUME ~reviewed', tmp' # None PROVE Given(tmp.cfg)'
    BY <2>1, <2>2, <2>6 DEF FrozenInv, Given
  <2> QED
    BY <2>3, <2>4, <2>5, <2>6 DEF FrozenInv
<1>6. CASE ResolveAndPersist
  <2> PICK c \in Readings(target) :
        text' = text \/ \E game : text' = [game |-> game, settings |-> Recorded(c)]
    BY <1>6 DEF ResolveAndPersist, BeginSave
  <2>1. UNCHANGED <<args, given, reviewed, target, tmp>>
    BY <1>6 DEF ResolveAndPersist, diskVars
  <2>2. ASSUME ~reviewed PROVE Given(text')
    BY <2>2, ReadingsGiven, RecordedGiven DEF FrozenInv
  <2> QED
    BY <2>1, <2>2 DEF FrozenInv, Given
<1>7. CASE CloseSettings \/ \E pick \in UserPaths \union {box} : Play(pick)
  <2>1. reviewed' = TRUE /\ UNCHANGED <<args, given>>
    BY <1>7 DEF CloseSettings, Play, runVars
  <2> QED
    BY <2>1 DEF FrozenInv
<1>8. CASE \/ LaunchNow \/ OpenWizard \/ OpenSettings
           \/ \E p \in UserPaths : EditPath(p)
           \/ \E pick \in UserPaths \union {box} : Frame(pick)
           \/ \E s \in Settings, v \in Values : ChangeSetting(s, v)
           \/ \E f \in Files, i \in 0 .. Len(files) : AddFile(f, i)
           \/ \E i \in DOMAIN files : RemoveFile(i)
           \/ UNCHANGED vars
  <2>1. UNCHANGED <<args, given, reviewed, target, tmp, text>>
    BY <1>8
       DEF LaunchNow, OpenWizard, OpenSettings, EditPath, Frame, ChangeSetting, AddFile, RemoveFile,
       vars, diskVars, saveVars, runVars, ghosts
  <2> QED
    BY <2>1 DEF FrozenInv, Given
<1> QED
  BY <1>3, <1>4, <1>5, <1>6, <1>7, <1>8 DEF Next

\* Until the user saves from a dialog, the file holds no setting that was never
\* on a command line, so a later default still takes effect.
THEOREM DefaultsCorrect == Spec => []DefaultsNotFrozen
<1>1. Init => FrozenInv
  BY DEF Init, FrozenInv, Given, NoConfig, NoLaunch
<1>2. ASSUME TypeOK, FrozenInv, [Next]_vars
      PROVE  FrozenInv'
  BY <1>2, FrozenStep
<1>3. FrozenInv => DefaultsNotFrozen
  BY DEF FrozenInv, Given, DefaultsNotFrozen
<1> QED
  BY <1>1, <1>2, <1>3, TypeCorrect, PTL DEF Spec
------------------------------------------------------------------------------
(* The chosen game *)

\* Of a set of numbers that is not empty one is the smallest.
LEMMA SmallestIn ==
  ASSUME NEW T \in SUBSET Nat, T # {}
  PROVE  \E n \in T : \A m \in T : n <= m
<1>1. PICK n \in T : \A m \in T : <<m, n>> \notin OpToRel(<, Nat)
  BY WFMin, NatLessThanWellFounded, Zenon
<1>2. \A m \in T : ~(m < n)
  BY <1>1, Zenon DEF OpToRel
<1> QED
  BY <1>2

\* A scan finds something exactly when something of the kind is there.
LEMMA ScanFinds ==
  ASSUME NEW S \in SUBSET Files, files \in Seq(Files)
  PROVE  /\ FirstOf(S) = None <=> S \intersect There = {}
         /\ FirstOf(S) # None => FirstOf(S) \in S \intersect There
<1> DEFINE T == {i \in DOMAIN files : files[i] \in S}
<1>1. DOMAIN files = 1 .. Len(files) /\ Len(files) \in Nat
  OBVIOUS
<1>2. None \notin S
  BY NoneAssumption DEF Paths
<1>3. ASSUME S \intersect There # {} PROVE FirstOf(S) # None
  <2>1. T # {} /\ T \in SUBSET Nat
    BY <1>1, <1>3 DEF There
  <2>2. PICK i \in T : \A j \in T : i <= j
    BY <2>1, SmallestIn
  <2>3. \A j \in 1 .. (i - 1) : files[j] \notin S
    BY <1>1, <2>1, <2>2
  <2>4. IsFirst(files[i], S)
    BY <2>3 DEF IsFirst
  <2> QED
    BY <1>2, <2>4 DEF FirstOf
<1>4. FirstOf(S) # None => FirstOf(S) \in S \intersect There
  BY FirstIsThere
<1> QED
  BY <1>3, <1>4

\* What a path resolves to is one of its sources, and when it resolves to
\* nothing it has none.
LEMMA ResolvesToSource ==
  ASSUME files \in Seq(Files), NEW p \in Paths \union {None}
  PROVE  /\ ResolveGameSource(p) # None => ResolveGameSource(p) \in Sources(p)
         /\ ResolveGameSource(p) = None => Sources(p) = {}
<1> DEFINE held == {Home[x] : x \in Xexes \intersect There}
           seen == There \intersect Reach[p]
           game == FirstOf(Reach[p] \intersect Bootable)
           addon == FirstOf(Reach[p] \intersect AddOns)
<1>1. /\ There \subseteq Files /\ Folders \intersect Files = {}
      /\ held \subseteq Folders /\ None \notin Paths
  BY ThereTyped, FilesAssumption, FoldersAssumption, NoneAssumption
<1>2. \A f \in Files : SourceOf(f) # None
  BY FoldersAssumption, NoneAssumption DEF SourceOf, Paths
<1>3. CASE p \in held
  <2>1. ResolveGameSource(p) = p
    BY <1>1, <1>3 DEF ResolveGameSource
  <2>2. Sources(p) = {p}
    BY <1>1, <1>3 DEF Sources
  <2> QED
    BY <1>1, <1>3, <2>1, <2>2 DEF Paths
<1>4. CASE p \in Folders \ held
  <2>1. ResolveGameSource(p) = IF game # None THEN SourceOf(game) ELSE addon
    BY <1>4 DEF ResolveGameSource
  <2>2. Sources(p) = IF seen \intersect Bootable # {}
                     THEN {SourceOf(f) : f \in seen \intersect Bootable}
                     ELSE seen \intersect AddOns
    BY <1>1, <1>4 DEF Sources
  <2>3. /\ Reach[p] \intersect Bootable \in SUBSET Files
        /\ Reach[p] \intersect AddOns \in SUBSET Files
    BY <1>4, FoldersAssumption
  <2>4. /\ game = None <=> seen \intersect Bootable = {}
        /\ game # None => game \in seen \intersect Bootable
        /\ addon = None <=> seen \intersect AddOns = {}
        /\ addon # None => addon \in seen \intersect AddOns
    BY <2>3, ScanFinds
  <2>5. game # None => SourceOf(game) # None
    BY <1>1, <1>2, <2>4
  <2> HIDE DEF game, addon, seen
  <2> QED
    BY <2>1, <2>2, <2>4, <2>5
<1>5. CASE p \in There \ Others
  <2>1. ResolveGameSource(p) = SourceOf(p)
    BY <1>1, <1>5 DEF ResolveGameSource
  <2>2. Sources(p) = {SourceOf(p)}
    BY <1>1, <1>5 DEF Sources
  <2> QED
    BY <1>1, <1>2, <1>5, <2>1, <2>2
<1>6. CASE p \notin Folders /\ p \notin There \ Others
  <2>1. ResolveGameSource(p) = None
    BY <1>6 DEF ResolveGameSource
  <2>2. Sources(p) = {}
    BY <1>1, <1>6 DEF Sources
  <2> QED
    BY <2>1, <2>2
<1> QED
  BY <1>3, <1>4, <1>5, <1>6

\* Only the wizard has a result of Validate, and it is that of a path.
ResultInv ==
  /\ pc # "wizard" => result = NoResult
  /\ result.source = Validate(result.path)

LEMMA ResultStep ==
  ASSUME TypeOK, ResultInv, [Next]_vars
  PROVE  ResultInv'
<1>0. Validate(None) = None /\ Validate(None)' = None
  BY DEF Validate
<1>1. CASE UNCHANGED <<result, files>> /\ (pc' # "wizard" => pc # "wizard")
  BY <1>1 DEF ResultInv, Validate, Exists, There, ResolveGameSource, IsFirst, FirstOf
<1>2. CASE result' = NoResult
  BY <1>0, <1>2 DEF ResultInv, NoResult
<1>3. ASSUME NEW pick \in UserPaths \union {box}, Frame(pick) PROVE ResultInv'
  <2>1. pc' = "wizard" /\ files' = files /\ result' = Revalidated
    BY <1>3 DEF Frame, diskVars
  <2>2. result'.source = Validate(result'.path)
    BY <2>1 DEF ResultInv, Revalidated
  <2>3. QED
    BY <2>1, <2>2 DEF ResultInv, Validate, Exists, There, ResolveGameSource, IsFirst, FirstOf
<1>4. CASE Save
  <2>1. UNCHANGED <<result, files>> /\ pc # "wizard"
    BY <1>4 DEF Save, OpenTmp, WriteTmp, RemoveTarget, RenameTmp, OpenTarget, RewriteTarget,
                uiVars
  <2>2. QED
    BY <1>1, <2>1
<1>5. ASSUME pc = "off", UNCHANGED result PROVE result' = NoResult
  BY <1>5 DEF ResultInv
<1>6. CASE Next /\ ~Save /\ ~\E pick \in UserPaths \union {box} : Frame(pick)
  BY <1>1, <1>2, <1>5, <1>6
     DEF Next, AddFile, RemoveFile, Start, Answer, ResolveAndPersist, ExitEarly, Ends, NoMemory,
     LaunchNow, OpenWizard, EditPath, Play, ChangeSetting, OpenSettings, CloseSettings, Quit,
     Crash, SaveGameAndSettings, BeginSave, uiVars, diskVars
<1>7. CASE UNCHANGED vars
  BY <1>1, <1>7 DEF vars, uiVars, diskVars
<1> QED
  BY <1>3, <1>4, <1>6, <1>7

\* The game is running, or its settings are being saved.
Playing == pc \in {"playing", "settings"} \/ (pc \in SavePCs /\ after = "playing")

\* How the game comes to run: from a command line or a file, or from the wizard.
LEMMA PlayingStep ==
  ASSUME TypeOK, [Next]_vars, Playing'
  PROVE  \/ LaunchNow
         \/ \E pick \in UserPaths \union {box} : Play(pick)
         \/ Playing /\ UNCHANGED <<root, choice, files>>
<1>1. CASE Save
  <2>1. UNCHANGED <<root, choice, files>> /\ pc \in SavePCs
    BY <1>1 DEF Save, OpenTmp, WriteTmp, RemoveTarget, RenameTmp, OpenTarget, RewriteTarget,
                SavePCs, runVars, ghosts
  <2>2. after = "playing"
    <3>1. CASE SaveReturns
      BY <3>1, Returns DEF SaveReturns, Playing, TypeOK
    <3>2. CASE ~SaveReturns
      <4>1. after' = after /\ pc' \in SavePCs
        BY <1>1, <3>2
           DEF Save, OpenTmp, WriteTmp, RemoveTarget, RenameTmp, OpenTarget, RewriteTarget,
               SavePCs, saveVars
      <4> QED
        BY <4>1 DEF Playing, SavePCs
    <3> QED
      BY <3>1, <3>2
  <2> QED
    BY <2>1, <2>2 DEF Playing
<1>2. CASE UNCHANGED vars
  BY <1>2 DEF Playing, vars, diskVars, saveVars, runVars, ghosts
<1>3. CASE ResolveAndPersist
  BY <1>3 DEF ResolveAndPersist, BeginSave, Playing, SavePCs
<1>4. CASE /\ Next /\ ~Save /\ ~ResolveAndPersist /\ ~LaunchNow
           /\ ~\E pick \in UserPaths \union {box} : Play(pick)
  BY <1>4
     DEF Next, Playing, SavePCs, AddFile, RemoveFile, Start, Answer, ExitEarly, Ends, NoMemory,
     OpenWizard, EditPath, Frame, SaveGameAndSettings, BeginSave, ChangeSetting,
     OpenSettings, CloseSettings, Quit, Crash, saveVars, runVars, diskVars, ghosts
<1> QED
  BY <1>1, <1>2, <1>3, <1>4

\* While the launcher decides, a source that was found is one of the path it
\* resolved, and a root that was not found is the path of the command line;
\* from the decision on the root is a source of the chosen path.
ChosenInv ==
  /\ Deciding =>
       IF found # None THEN root \in Sources(choice)
       ELSE root = args.game /\ (root # None => ResolveGameSource(root) = None)
  /\ Playing => root \in Sources(choice)

\* What there is on the disk decides what paths stand for.
LEMMA SourcesKept ==
  ASSUME UNCHANGED <<files, root, choice>>
  PROVE  /\ Sources(choice)' = Sources(choice)
         /\ ResolveGameSource(root)' = ResolveGameSource(root)
BY DEF Sources, ResolveGameSource, There, IsFirst, FirstOf

\* The command lines that name a folder, or a file that is no game, are those of
\* frontends or ask for the wizard: OnFinalizePaths would launch such a path as
\* it is.
GamesOnCommandLine ==
  \A launch \in Launches :
    launch.game \in Folders \union Others =>
      launch.setup \/ launch.embedded \/ launch.ends = "printed"

\* One input per frame.
OneInput == ~Simultaneous

LEMMA ChosenStep ==
  ASSUME TypeOK, OneInput, GamesOnCommandLine, ResultInv, ChosenInv, [Next]_vars
  PROVE  ChosenInv'
<1>0. /\ files \in Seq(Files) /\ There \subseteq Files
      /\ args.game \in Paths \union {None}
  BY ThereTyped, LaunchesAssumption DEF TypeOK, NoLaunch
<1>1. ASSUME Deciding', found' # None PROVE root' \in Sources(choice)'
  <2>1. CASE ResolveAndPersist
    <3> PICK c \in Readings(target) :
          LET raw == IF args.game # None THEN args.game ELSE c.game
          IN  /\ choice' = raw
              /\ found' = ResolveGameSource(raw)
              /\ root' = IF ResolveGameSource(raw) # None THEN ResolveGameSource(raw)
                         ELSE args.game
      BY <2>1 DEF ResolveAndPersist
    <3>1. choice' \in Paths \union {None}
      BY <1>0, ReadingsTyped DEF TypeOK, Configs
    <3>2. root' = ResolveGameSource(choice') /\ root' # None
      BY <1>1
    <3>3. root' \in Sources(choice')
      BY <1>0, <3>1, <3>2, ResolvesToSource
    <3>4. files' = files
      BY <2>1 DEF ResolveAndPersist, diskVars
    <3> QED
      BY <3>3, <3>4 DEF Sources, There
  <2>2. CASE ~ResolveAndPersist
    <3>1. Deciding /\ UNCHANGED <<runVars, files>>
      BY <1>1, <2>2, DecidingStep
    <3>2. UNCHANGED choice
      BY <1>1, <2>2, <3>1
         DEF Next, Deciding, SavePCs, AddFile, RemoveFile, Start, Answer, ExitEarly, Ends,
         LaunchNow, OpenWizard, EditPath, Frame, Play, ChangeSetting, OpenSettings,
         CloseSettings, Quit, Crash, Save, OpenTmp, WriteTmp, RemoveTarget, RenameTmp,
         OpenTarget, RewriteTarget, ghosts, vars
    <3> QED
      BY <1>1, <3>1, <3>2, SourcesKept DEF ChosenInv, runVars
  <2> QED
    BY <2>1, <2>2
<1>2. ASSUME Deciding', found' = None
      PROVE  root' = args'.game /\ (root' # None => ResolveGameSource(root)' = None)
  <2>1. CASE ResolveAndPersist
    <3> PICK c \in Readings(target) :
          LET raw == IF args.game # None THEN args.game ELSE c.game
          IN  /\ found' = ResolveGameSource(raw)
              /\ root' = IF ResolveGameSource(raw) # None THEN ResolveGameSource(raw)
                         ELSE args.game
      BY <2>1 DEF ResolveAndPersist
    <3>1. root' = args.game /\ (args.game # None => ResolveGameSource(root') = None)
      BY <1>2
    <3>2. files' = files /\ args' = args
      BY <2>1 DEF ResolveAndPersist, diskVars
    <3>3. ResolveGameSource(root)' = ResolveGameSource(root')
      BY <3>2, SMTT(20) DEF ResolveGameSource, There, IsFirst, FirstOf
    <3> QED
      BY <3>1, <3>2, <3>3
  <2>2. CASE Deciding /\ UNCHANGED <<runVars, files>>
    <3>1. root' = args'.game /\ (root # None => ResolveGameSource(root) = None)
      BY <1>2, <2>2 DEF ChosenInv, runVars
    <3> QED
      BY <2>2, <3>1 DEF ResolveGameSource, There, IsFirst, FirstOf, runVars
  <2> QED
    BY <1>2, <2>1, <2>2, DecidingStep
<1>3. ASSUME LaunchNow PROVE root' \in Sources(choice)'
  <2>1. /\ pc = "decide" /\ ~Exits /\ Launchable /\ UNCHANGED <<files, root, choice>>
    BY <1>3 DEF LaunchNow, diskVars, ghosts
  <2>2. found # None
    <3> SUFFICES ASSUME found = None PROVE FALSE
      OBVIOUS
    <3>1. root = args.game /\ root # None /\ ResolveGameSource(root) = None /\ Exists(root)
      BY <2>1, Zenon DEF ChosenInv, Deciding, Launchable
    <3>2. root \in Folders \union Others
      BY <1>0, <3>1, ResolvesToSource DEF Sources, Exists, Paths, SourceOf
    <3>3. args \in Launches
      <4>1. args # NoLaunch
        BY <3>1 DEF NoLaunch
      <4> QED
        BY <4>1 DEF TypeOK
    <3>4. args.setup \/ args.embedded \/ args.ends = "printed"
      BY <3>1, <3>2, <3>3 DEF GamesOnCommandLine
    <3> QED
      BY <2>1, <3>4, Zenon DEF Exits, Launchable
  <2>3. root \in Sources(choice)
    BY <2>1, <2>2 DEF ChosenInv, Deciding
  <2> QED
    BY <2>1, <2>3, SourcesKept
<1>4. ASSUME NEW pick \in UserPaths \union {box}, Play(pick)
      PROVE  root' \in Sources(choice)'
  <2>1. /\ pick = box /\ Revalidated.source # None /\ choice' = pick
        /\ root' = Revalidated.source /\ files' = files
    BY <1>4 DEF Play, OneInput, diskVars
  <2>2. Revalidated.source = Validate(box)
    BY DEF ResultInv, Revalidated
  <2>3. root' = ResolveGameSource(choice') /\ root' # None
    BY <2>1, <2>2 DEF Validate
  <2>4. choice' \in Paths \union {None}
    BY <2>1 DEF TypeOK
  <2>5. root' \in Sources(choice')
    BY <1>0, <2>3, <2>4, ResolvesToSource
  <2> QED
    BY <2>1, <2>5 DEF Sources, There
<1>5. ASSUME Playing' PROVE root' \in Sources(choice)'
  <2>1. CASE Playing /\ UNCHANGED <<root, choice, files>>
    BY <2>1, SourcesKept DEF ChosenInv
  <2> QED
    BY <1>3, <1>4, <1>5, <2>1, PlayingStep
<1> QED
  BY <1>1, <1>2, <1>5 DEF ChosenInv

\* What runs is a game source of the path the user chose, whatever changes on
\* the disk between the launches: with one input per frame, and without the
\* command lines that OnFinalizePaths takes as they are.
THEOREM ChosenCorrect ==
  ASSUME OneInput, GamesOnCommandLine
  PROVE  Spec => []PlaysTheChosenGame
<1>1. Init => ResultInv /\ ChosenInv
  BY DEF Init, ResultInv, ChosenInv, Deciding, Playing, SavePCs, NoResult, Validate
<1>2. TypeOK /\ ResultInv /\ ChosenInv /\ [Next]_vars => ResultInv' /\ ChosenInv'
  BY ResultStep, ChosenStep
<1>3. ChosenInv => PlaysTheChosenGame
  BY DEF ChosenInv, Playing, PlaysTheChosenGame
<1> QED
  BY <1>1, <1>2, <1>3, TypeCorrect, PTL DEF Spec

------------------------------------------------------------------------------
(* The choice is remembered *)

\* A decision without a source leads nowhere but to the wizard, the game or the
\* end.
LEMMA DecideStep ==
  ASSUME TypeOK, pc = "decide", [Next]_vars, Deciding'
  PROVE  UNCHANGED vars
BY DEF Next, Deciding, SavePCs, AddFile, RemoveFile, Start, Answer, ResolveAndPersist,
   ExitEarly, Ends, LaunchNow, OpenWizard, EditPath, Frame, Play, ChangeSetting, OpenSettings,
   CloseSettings, Quit, Crash, Save, OpenTmp, WriteTmp, RemoveTarget, RenameTmp, OpenTarget,
   RewriteTarget

\* The wizard stays open over the same files, command line and configuration.
LEMMA WizardStep ==
  ASSUME TypeOK, [Next]_vars, pc' = "wizard"
  PROVE  OpenWizard \/ (pc = "wizard" /\ UNCHANGED <<files, args, saved, hurt>>)
<1>1. CASE Save
  <2>1. CASE SaveReturns
    BY <2>1 DEF SaveReturns, TypeOK
  <2>2. CASE ~SaveReturns
    BY <1>1, <2>2 DEF Save, OpenTmp, WriteTmp, RemoveTarget, RenameTmp, OpenTarget, RewriteTarget
  <2> QED
    BY <2>1, <2>2
<1>2. CASE ~Save /\ ~OpenWizard /\ Next
  <2>1. pc = "wizard" /\ UNCHANGED <<files, args, saved>>
    BY <1>2
       DEF Next, AddFile, RemoveFile, Start, Answer, ResolveAndPersist, BeginSave, ExitEarly,
       Ends, LaunchNow, EditPath, Frame, Play, SaveGameAndSettings, ChangeSetting, OpenSettings,
       CloseSettings, Quit, Crash, diskVars, saveVars, runVars
  <2>2. UNCHANGED hurt
    BY <1>2, Zenon
       DEF Next, AddFile, RemoveFile, Start, Answer, ResolveAndPersist, BeginSave, ExitEarly,
       Ends, LaunchNow, EditPath, Frame, Play, SaveGameAndSettings, ChangeSetting, OpenSettings,
       CloseSettings, Quit, Crash, saveVars
  <2> QED
    BY <2>1, <2>2
<1>3. CASE UNCHANGED vars
  BY <1>3 DEF vars, diskVars, saveVars, runVars
<1> QED
  BY <1>1, <1>2, <1>3, Zenon

\* A launch without a path that found no source knows of no saved path that
\* leads to a game, unless a save was hurt.
Forgotten == ~hurt => saved = None \/ Sources(saved.game) = {}

RememberInv ==
  /\ Deciding /\ found = None => pc = "decide" /\ (args.game = None => Forgotten)
  /\ ChoiceIsRemembered

\* A configuration that was saved has a path or none.
LEMMA SavedHasPath ==
  ASSUME TypeOK, saved # None
  PROVE  saved.game \in Paths \union {None}
BY DEF TypeOK, Configs

LEMMA ForgottenKept ==
  ASSUME UNCHANGED <<files, saved, hurt>>, Forgotten
  PROVE  Forgotten'
BY DEF Forgotten, Sources, There

\* ResolveAndPersist without a path on the command line looks at the one that
\* was saved last.
LEMMA ResolveRemembers ==
  ASSUME TypeOK, SavedIsKept, ResolveAndPersist, found' = None, args.game = None
  PROVE  Forgotten
<1> SUFFICES ASSUME ~hurt, saved # None PROVE Sources(saved.game) = {}
  BY DEF Forgotten
<1>1. pc = "bootstrap"
  BY DEF ResolveAndPersist
<1>2. target = Whole(saved)
  BY <1>1 DEF SavedIsKept, Kept
<1>3. Readings(target) = {saved}
  <2>1. Whole(saved) # None
    <3>1. saved \in Configs
      BY DEF TypeOK
    <3>2. [whole |-> TRUE, cfg |-> saved] \in [whole : BOOLEAN, cfg : Configs]
      BY <3>1
    <3> QED
      BY <3>2, NoneAssumption DEF Whole
  <2> QED
    BY <1>2, <2>1 DEF Readings, Whole
<1>4. ResolveGameSource(saved.game) = None
  BY <1>3 DEF ResolveAndPersist
<1> QED
  BY <1>4, SavedHasPath, ResolvesToSource DEF TypeOK

LEMMA RememberStep ==
  ASSUME TypeOK, FoundInv, SavedIsKept, RememberInv, [Next]_vars
  PROVE  RememberInv'
<1>1. ASSUME Deciding', found' = None
      PROVE  pc' = "decide" /\ (args'.game = None => Forgotten')
  <2>1. CASE ResolveAndPersist
    <3>1. pc' = "decide" /\ UNCHANGED <<args, files, saved, hurt>>
      BY <1>1, <2>1 DEF ResolveAndPersist, diskVars
    <3> QED
      BY <1>1, <2>1, <3>1, ResolveRemembers, ForgottenKept
  <2>2. CASE Deciding /\ UNCHANGED <<runVars, files>>
    <3>1. pc = "decide" /\ (args.game = None => Forgotten)
      BY <1>1, <2>2 DEF RememberInv, runVars
    <3>2. UNCHANGED vars
      BY <1>1, <3>1, DecideStep
    <3> QED
      BY <3>1, <3>2, ForgottenKept DEF vars, diskVars, saveVars, runVars
  <2> QED
    BY <1>1, <2>1, <2>2, DecidingStep
<1>2. ASSUME pc' = "wizard", ~args'.setup, args'.game = None PROVE Forgotten'
  <2>1. CASE OpenWizard
    <3>1. /\ pc = "decide" /\ UNCHANGED <<args, files, saved, hurt>>
      BY <2>1 DEF OpenWizard, diskVars, saveVars
    <3>2. found = None
      <4> SUFFICES ASSUME found # None PROVE FALSE
        OBVIOUS
      <4>1. root # None /\ Exists(root)
        BY <3>1 DEF FoundInv, Deciding
      <4> QED
        BY <1>2, <2>1, <3>1, <4>1, Zenon DEF OpenWizard, Launchable
    <3> QED
      BY <1>2, <3>1, <3>2, ForgottenKept DEF RememberInv, Deciding
  <2>2. CASE pc = "wizard" /\ UNCHANGED <<files, args, saved, hurt>>
    <3>1. Forgotten
      BY <1>2, <2>2, Zenon DEF RememberInv, ChoiceIsRemembered, Forgotten
    <3> QED
      BY <2>2, <3>1, ForgottenKept
  <2> QED
    BY <1>2, <2>1, <2>2, WizardStep
<1>3. ChoiceIsRemembered'
  <2> SUFFICES ASSUME pc' = "wizard", ~args'.setup, args'.game = None, ~hurt'
               PROVE  (saved = None \/ Sources(saved.game) = {})'
    BY Zenon DEF ChoiceIsRemembered
  <2> QED
    BY <1>2 DEF Forgotten
<1> QED
  BY <1>1, <1>3 DEF RememberInv

\* The next launch goes straight into the game: the wizard opens without being
\* asked for only when the path that was saved last leads to no game any more,
\* or a save was hurt.
THEOREM RememberedCorrect == Spec => []ChoiceIsRemembered
<1>1. Init => FoundInv /\ RememberInv
  BY DEF Init, FoundInv, RememberInv, ChoiceIsRemembered, Deciding, SavePCs
<1>2. TypeOK /\ FoundInv /\ [Next]_vars => FoundInv'
  BY FoundStep
<1>3. TypeOK /\ FoundInv /\ SavedIsKept /\ RememberInv /\ [Next]_vars => RememberInv'
  BY RememberStep
<1>4. RememberInv => ChoiceIsRemembered
  BY DEF RememberInv
<1> QED
  BY <1>1, <1>2, <1>3, <1>4, TypeCorrect, SavedCorrect, PTL DEF Spec
==============================================================================
