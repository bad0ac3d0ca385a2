------------------------------- MODULE Launcher -------------------------------
(***************************************************************************)
(* The launcher of the RexGlue shell (src/launcher, south_park_td_app.h)   *)
(* over many launches: how it finds the game and the settings (command     *)
(* line, then launcher.toml, then defaults), the wizard, the in-game       *)
(* settings, and how it saves.  The process may crash and a file operation *)
(* may fail at any point of a save.                                        *)
(*                                                                         *)
(* A path is a model value: a file or a folder.  What a scan of a folder   *)
(* gets to, within its limits of depth, entries and file size, is          *)
(* Reach[folder]; the order of the scan is the order of `files`.           *)
(***************************************************************************)
EXTENDS Naturals, Sequences

CONSTANTS
  Xexes, Titles, AddOns, Others,  \* files: a default.xex, a package with a
                                  \* title, another package, anything else
  Folders,                        \* folders; they always exist
  Home,                           \* default.xex -> the folder it is in
  Reach,                          \* folder -> the files a scan of it gets to
  ExeFolder,                      \* the folder of the launcher itself
  Settings,                       \* the managed settings
  Values,                         \* their values
  Engine, Default,                \* setting -> engine default, launcher default
  Launches,                       \* the command lines in use
  UserPaths,                      \* what the user types, drops or picks
  Simultaneous,                   \* a pick and Play may fall into one frame
  None                            \* no path, no value, no file

Files == Xexes \union Titles \union AddOns \union Others
Paths == Files \union Folders
Bootable == Xexes \union Titles

SettingsMap == [Settings -> Values \union {None}]
Configs == [game : Paths \union {None}, settings : SettingsMap]

ASSUME NoneAssumption ==
  None \notin Paths \union Values \union Configs \union [whole : BOOLEAN, cfg : Configs]
ASSUME FilesAssumption ==
  /\ Folders \intersect Files = {}
  /\ Others \intersect (Bootable \union AddOns) = {}
  /\ AddOns \intersect Bootable = {}
ASSUME FoldersAssumption ==
  Home \in [Xexes -> Folders] /\ Reach \in [Folders -> SUBSET Files] /\ ExeFolder \in Folders
ASSUME DefaultsAssumption == Engine \in [Settings -> Values] /\ Default \in SettingsMap
\* `ends` is "first" with --validate or --version, "printed" with --print_config.
ASSUME LaunchesAssumption ==
  Launches \subseteq [game : Paths \union {None}, set : SettingsMap, setup : BOOLEAN,
                      embedded : BOOLEAN, ends : {"no", "first", "printed"}]
ASSUME UserPathsAssumption == UserPaths \subseteq Paths \union {None}
ASSUME SimultaneousAssumption == Simultaneous \in BOOLEAN

VARIABLES
  files,    \* the game files that exist, as directory iterators list them
  target,   \* launcher.toml: None, or [whole, cfg] (torn: a prefix of cfg)
  tmp,      \* launcher.toml.tmp
  pc,       \* where the process is, see PCs
  args,     \* its command line
  cvars,    \* setting -> current value
  cfg,      \* ResolveAndPersist: the configuration that was loaded
  found,    \* BootstrapResult::game_path
  root,     \* PathConfig::game_data_root
  box,      \* the wizard's path_buf_
  result,   \* its last Validate: validated_path_ and what that resolved to
  text,     \* SaveConfig: what is being saved
  after,    \* where SaveConfig returns to
  \* History: the path the user gave or showed last, the configuration of the
  \* last save that reported success, whether a save was cut off or failed
  \* where it cannot recover, the settings ever given on a command line,
  \* whether the settings were ever saved from a dialog.
  choice, saved, hurt, given, reviewed

diskVars == <<files, target, tmp>>
saveVars == <<text, after, saved, hurt>>
uiVars   == <<box, result>>
runVars  == <<args, cvars, cfg, found, root>>
ghosts   == <<choice, given, reviewed>>
vars == <<diskVars, pc, saveVars, uiVars, runVars, ghosts>>

\* "off", "bootstrap" in Bootstrap, "decide" the game is resolved,
\* "wizard" the onboarding dialog, "playing", "settings" in-game dialog;
\* SaveConfig: "open" .tmp, "write" it, "remove" the target, "rename",
\* "fallback" rename failed, "rewrite" the target directly
SavePCs == {"open", "write", "remove", "rename", "fallback", "rewrite"}
PCs == {"off", "bootstrap", "decide", "wizard", "playing", "settings"} \union SavePCs

NoConfig == [game |-> None, settings |-> [s \in Settings |-> None]]
NoLaunch == [game |-> None, set |-> [s \in Settings |-> None], setup |-> FALSE,
             embedded |-> FALSE, ends |-> "no"]
NoResult == [path |-> None, source |-> None]

\* A process begins, and ends, with nothing in memory.
NoMemory ==
  /\ cfg' = NoConfig /\ found' = None /\ root' = None
  /\ box' = None /\ result' = NoResult
  /\ text' = NoConfig /\ after' = "off" /\ choice' = None

Ends == pc' = "off" /\ args' = NoLaunch /\ cvars' = Engine /\ NoMemory

\* First launch; what game files there are is up to the user.
Init ==
  /\ files = <<>> /\ target = None /\ tmp = None
  /\ pc = "off" /\ args = NoLaunch /\ cvars = Engine
  /\ cfg = NoConfig /\ found = None /\ root = None
  /\ box = None /\ result = NoResult
  /\ text = NoConfig /\ after = "off"
  /\ choice = None /\ saved = None /\ hurt = FALSE
  /\ given = {} /\ reviewed = FALSE
------------------------------------------------------------------------------
(* Game sources *)

There == {files[i] : i \in DOMAIN files}
Exists(p) == p \in Folders \union There

\* A default.xex stands for its folder.
SourceOf(f) == IF f \in Xexes THEN Home[f] ELSE f

\* f is the first file of S the scan comes to.
IsFirst(f, S) ==
  \E i \in DOMAIN files : files[i] = f /\ f \in S /\ \A j \in 1 .. (i - 1) : files[j] \notin S

FirstOf(S) == IF \E f \in S : IsFirst(f, S) THEN CHOOSE f \in S : IsFirst(f, S) ELSE None

\* Mutation: the first package of any kind is taken.
ResolveGameSource_FirstPackage(p) ==
  IF p \in Folders
  THEN IF \E x \in Xexes : x \in There /\ Home[x] = p THEN p
       ELSE LET any == FirstOf(Reach[p] \ Others)
            IN  IF any = None THEN None ELSE SourceOf(any)
  ELSE IF p \in There \ Others THEN SourceOf(p) ELSE None

\* ResolveGameSource: a file is taken as it is; a folder with a default.xex of
\* its own is the game; else the scan stops at the first bootable game and falls
\* back to the first other package.
ResolveGameSource(p) ==
  IF p \in Folders
  THEN IF \E x \in Xexes : x \in There /\ Home[x] = p THEN p
       ELSE LET game == FirstOf(Reach[p] \intersect Bootable)
            IN  IF game # None THEN SourceOf(game) ELSE FirstOf(Reach[p] \intersect AddOns)
  ELSE IF p \in There \ Others THEN SourceOf(p) ELSE None

AutoDetectGameNearExe == ResolveGameSource(ExeFolder)

\* Validate: what a path resolves to; a path that is empty or does not exist
\* resolves to nothing.
Validate(p) ==
  IF p = None \/ ~Exists(p) THEN None ELSE ResolveGameSource(p)

\* Between launches the user adds and removes game files.
AddFile(f, i) ==
  /\ pc = "off" /\ f \notin There
  /\ files' = SubSeq(files, 1, i) \o <<f>> \o SubSeq(files, i + 1, Len(files))
  /\ UNCHANGED <<target, tmp, pc, saveVars, uiVars, runVars, ghosts>>

RemoveFile(i) ==
  /\ pc = "off"
  /\ files' = SubSeq(files, 1, i - 1) \o SubSeq(files, i + 1, Len(files))
  /\ UNCHANGED <<target, tmp, pc, saveVars, uiVars, runVars, ghosts>>
------------------------------------------------------------------------------
(* SaveConfig.  Callers ignore its result. *)

Whole(c) == [whole |-> TRUE, cfg |-> c]
Torn(c) == [whole |-> FALSE, cfg |-> c]

\* Mutation: the game path is not read back.
Readings_NoGame(file) ==
  IF file = None THEN {NoConfig} ELSE {[file.cfg EXCEPT !.game = None]}

\* LoadConfig: a file that does not parse counts as none; a torn file may
\* parse, and then ends after the game path or some of the settings.
Readings(file) ==
  IF file = None THEN {NoConfig}
  ELSE IF file.whole THEN {file.cfg}
  ELSE {NoConfig} \union
       {[game |-> file.cfg.game,
         settings |-> [s \in Settings |-> IF s \in S THEN file.cfg.settings[s] ELSE None]] :
          S \in SUBSET Settings}

BeginSave(c, next) == text' = c /\ after' = next /\ pc' = "open"
SaveReturns == pc' = after /\ text' = NoConfig /\ after' = "off"

\* Mutation: the target itself is opened and truncated.
OpenTmp_Target ==
  /\ pc = "open"
  /\ target' = Torn(text) /\ pc' = "write"
  /\ UNCHANGED <<files, tmp, saveVars, uiVars, runVars, ghosts>>

\* ofstream out(tmp, trunc), which may fail.
OpenTmp ==
  /\ pc = "open"
  /\ \/ tmp' = Torn(text) /\ pc' = "write" /\ UNCHANGED <<text, after>>
     \/ UNCHANGED tmp /\ SaveReturns
  /\ UNCHANGED <<files, target, saved, hurt, uiVars, runVars, ghosts>>

\* out << text.  A failure is noticed unless it comes when the buffer is
\* flushed, which is after the last look at the stream.
WriteTmp ==
  /\ pc = "write"
  /\ \/ tmp' = Whole(text) /\ pc' = "remove" /\ UNCHANGED <<hurt, text, after>>
     \/ UNCHANGED <<tmp, hurt>> /\ SaveReturns
     \/ hurt' = TRUE /\ pc' = "remove" /\ UNCHANGED <<tmp, text, after>>
  /\ UNCHANGED <<files, target, saved, uiVars, runVars, ghosts>>

\* remove(target); an error is ignored.
RemoveTarget ==
  /\ pc = "remove"
  /\ target' \in {None, target}
  /\ pc' = "rename"
  /\ UNCHANGED <<files, tmp, saveVars, uiVars, runVars, ghosts>>

\* rename(tmp, target), which may fail.
RenameTmp ==
  /\ pc = "rename"
  /\ \/ /\ target' = tmp /\ tmp' = None
        /\ saved' = text /\ hurt' = ~tmp.whole
        /\ SaveReturns
     \/ pc' = "fallback" /\ UNCHANGED <<target, tmp, saveVars>>
  /\ UNCHANGED <<files, uiVars, runVars, ghosts>>

\* The fallback opens the target, which may fail ...
OpenTarget ==
  /\ pc = "fallback"
  /\ \/ target' = Torn(text) /\ pc' = "rewrite" /\ UNCHANGED <<hurt, text, after>>
     \/ hurt' = TRUE /\ SaveReturns /\ UNCHANGED target
  /\ UNCHANGED <<files, tmp, saved, uiVars, runVars, ghosts>>

\* ... and writes it; again a late failure is reported as success.
RewriteTarget ==
  /\ pc = "rewrite" /\ SaveReturns
  /\ \/ target' = Whole(text) /\ saved' = text /\ hurt' = FALSE
     \/ UNCHANGED target /\ saved' \in {saved, text} /\ hurt' = TRUE
  /\ UNCHANGED <<files, tmp, uiVars, runVars, ghosts>>
------------------------------------------------------------------------------
(* Bootstrap *)

\* The process starts; cvar::Init parses the command line.
Start(launch) ==
  /\ pc = "off" /\ pc' = "bootstrap"
  /\ args' = launch
  /\ cvars' = [s \in Settings |-> IF launch.set[s] # None THEN launch.set[s] ELSE Engine[s]]
  /\ NoMemory
  /\ given' = given \union {s \in Settings : launch.set[s] # None}
  /\ UNCHANGED <<diskVars, saved, hurt, reviewed>>

OnCli(s) == args.set[s] # None

\* Mutation: the saved configuration overwrites the command line.
Layered_ConfigWins(c) ==
  [s \in Settings |-> CASE c.settings[s] # None -> c.settings[s]
                        [] OnCli(s) -> cvars[s]
                        [] Default[s] # None -> Default[s]
                        [] OTHER -> cvars[s]]

\* The launcher's defaults, over them the saved settings, each only where the
\* command line does not have the flag.
Layered(c) ==
  [s \in Settings |-> IF OnCli(s) THEN cvars[s]
                      ELSE IF c.settings[s] # None THEN c.settings[s]
                      ELSE IF Default[s] # None THEN Default[s] ELSE cvars[s]]

\* Mutation: all managed settings are saved, as the wizard does.
Recorded_All(c) == Layered(c)

\* What ResolveAndPersist saves: the settings saved before, and those of this
\* command line.
Recorded(c) == [s \in Settings |-> IF OnCli(s) THEN Layered(c)[s] ELSE c.settings[s]]

\* --validate and --version answer and exit, nothing is read or saved.
Answer ==
  /\ pc = "bootstrap" /\ args.ends = "first"
  /\ Ends
  /\ UNCHANGED <<diskVars, saved, hurt, given, reviewed>>

\* ResolveAndPersist, then OnConfigurePaths: a source that was found replaces
\* the path of the command line.
ResolveAndPersist ==
  /\ pc = "bootstrap" /\ args.ends # "first"
  /\ \E c \in Readings(target) :
       LET raw == IF args.game # None THEN args.game ELSE c.game
           source == ResolveGameSource(raw)
       IN  /\ cfg' = c
           /\ cvars' = Layered(c)
           /\ choice' = raw
           /\ found' = source
           /\ root' = IF source # None THEN source ELSE args.game
           /\ IF source # None
              THEN BeginSave([game |-> source, settings |-> Recorded(c)], "decide")
              ELSE pc' = "decide" /\ UNCHANGED <<text, after>>
  /\ UNCHANGED <<diskVars, saved, hurt, uiVars, args, given, reviewed>>

\* --print_config, and --no_setup or --embedded without a game, exit here.
Exits == args.ends = "printed" \/ (~args.setup /\ found = None /\ args.embedded)

ExitEarly ==
  /\ pc = "decide" /\ Exits
  /\ Ends
  /\ UNCHANGED <<diskVars, saved, hurt, given, reviewed>>

\* OnFinalizePaths: a path that exists is launched unless --setup is given.
Launchable == ~args.setup /\ root # None /\ Exists(root)

LaunchNow ==
  /\ pc = "decide" /\ ~Exits /\ Launchable
  /\ pc' = "playing" /\ cfg' = NoConfig
  /\ UNCHANGED <<diskVars, saveVars, uiVars, args, cvars, found, root, ghosts>>

\* Otherwise the wizard opens, with that path or with what is found near the
\* executable.
OpenWizard ==
  /\ pc = "decide" /\ ~Exits /\ ~Launchable
  /\ pc' = "wizard"
  /\ box' = IF root # None THEN root ELSE AutoDetectGameNearExe
  /\ result' = NoResult /\ cfg' = NoConfig
  /\ UNCHANGED <<diskVars, saveVars, args, cvars, found, root, ghosts>>
------------------------------------------------------------------------------
(* The wizard, the game, the in-game settings *)

\* The path is typed, or a file is dropped onto the window.
EditPath(p) ==
  /\ pc = "wizard" /\ box' = p
  /\ UNCHANGED <<diskVars, pc, saveVars, result, runVars, ghosts>>

\* Revalidate: Validate runs again when the path is another one.
Revalidated ==
  IF result.path = box THEN result ELSE [path |-> box, source |-> Validate(box)]

\* A frame: Revalidate, then the browser, in which a path may be picked.
Frame(pick) ==
  /\ pc = "wizard"
  /\ result' = Revalidated /\ box' = pick
  /\ UNCHANGED <<diskVars, pc, saveVars, runVars, ghosts>>

\* A control of DrawSettingsControls.
ChangeSetting(s, v) ==
  /\ pc \in {"wizard", "settings"}
  /\ cvars' = [cvars EXCEPT ![s] = v]
  /\ UNCHANGED <<diskVars, pc, saveVars, uiVars, args, cfg, found, root, ghosts>>

\* SaveGameAndSettings, which loads the file to keep what it does not manage.
SaveGameAndSettings(game) == BeginSave([game |-> game, settings |-> cvars], "playing")

\* A frame in which Play, Start or Enter is pressed: Confirm.  The game that
\* is launched is the one Revalidate resolved earlier in the frame.
\* Contract without Simultaneous: one input per frame.
Play(pick) ==
  /\ pc = "wizard" /\ (Simultaneous \/ pick = box)
  /\ Revalidated.source # None
  /\ result' = NoResult /\ box' = None
  /\ choice' = pick
  /\ root' = Revalidated.source
  /\ SaveGameAndSettings(Revalidated.source)
  /\ reviewed' = TRUE
  /\ UNCHANGED <<diskVars, saved, hurt, args, cvars, cfg, found, given>>

\* F5 opens the settings over the game; closing them saves.
OpenSettings ==
  /\ pc = "playing" /\ pc' = "settings"
  /\ UNCHANGED <<diskVars, saveVars, uiVars, runVars, ghosts>>

CloseSettings ==
  /\ pc = "settings"
  /\ SaveGameAndSettings(root)
  /\ reviewed' = TRUE
  /\ UNCHANGED <<diskVars, saved, hurt, uiVars, runVars, choice, given>>

\* The wizard or the game is left.
Quit ==
  /\ pc \in {"wizard", "playing"}
  /\ Ends
  /\ UNCHANGED <<diskVars, saved, hurt, given, reviewed>>

\* The process dies.
Crash ==
  /\ pc # "off" /\ Ends
  /\ hurt' = (hurt \/ pc \in {"rename", "fallback", "rewrite"})
  /\ UNCHANGED <<diskVars, saved, given, reviewed>>

Save == OpenTmp \/ WriteTmp \/ RemoveTarget \/ RenameTmp \/ OpenTarget \/ RewriteTarget

Next ==
  \/ \E f \in Files, i \in 0 .. Len(files) : AddFile(f, i)
  \/ \E i \in DOMAIN files : RemoveFile(i)
  \/ \E launch \in Launches : Start(launch)
  \/ Answer \/ ResolveAndPersist \/ ExitEarly \/ LaunchNow \/ OpenWizard
  \/ \E p \in UserPaths : EditPath(p)
  \/ \E pick \in UserPaths \union {box} : Frame(pick) \/ Play(pick)
  \/ \E s \in Settings, v \in Values : ChangeSetting(s, v)
  \/ OpenSettings \/ CloseSettings \/ Quit
  \/ Save \/ Crash

Spec == Init /\ [][Next]_vars
------------------------------------------------------------------------------
(* Properties *)

Contents == {None} \union [whole : BOOLEAN, cfg : Configs]

TypeOK ==
  /\ files \in Seq(Files) /\ target \in Contents /\ tmp \in Contents
  /\ pc \in PCs /\ args \in Launches \union {NoLaunch}
  /\ cvars \in [Settings -> Values]
  /\ cfg \in Configs /\ found \in Paths \union {None} /\ root \in Paths \union {None}
  /\ box \in Paths \union {None}
  /\ result \in [path : Paths \union {None}, source : Paths \union {None}]
  /\ text \in Configs /\ after \in {"off", "decide", "playing"}
  /\ choice \in Paths \union {None} /\ saved \in Configs \union {None}
  /\ hurt \in BOOLEAN /\ given \subseteq Settings /\ reviewed \in BOOLEAN

\* What LoadConfig will find is what was saved last.
Kept == target = IF saved = None THEN None ELSE Whole(saved)

\* A save that fails where the code looks, and a crash before the old file is
\* removed, leave the last configuration as it was; a save that succeeds
\* replaces it as a whole (SaveConfig: "temp file then rename over the target").
SavedIsKept == ~hurt /\ pc \notin {"rename", "fallback", "rewrite"} => Kept

\* launcher.h: "Write atomically to ConfigFile()".  Whenever the process is
\* gone, there is a configuration to load if one was ever saved.
SaveIsAtomic == pc = "off" /\ saved # None => target # None

\* INTEGRATION.md: "CLI flag > saved config > built-in default".  Once Bootstrap
\* is done with them, every setting has the value of the first layer that has one.
Priority ==
  pc = "decide" => \A s \in Settings :
    /\ args.set[s] # None => cvars[s] = args.set[s]
    /\ args.set[s] = None /\ cfg.settings[s] # None => cvars[s] = cfg.settings[s]
    /\ args.set[s] = None /\ cfg.settings[s] = None =>
         cvars[s] = IF Default[s] # None THEN Default[s] ELSE Engine[s]

\* ResolveAndPersist: "defaults are NOT frozen".  A setting gets into the file
\* only from a command line, until the user has saved from a dialog.
DefaultsNotFrozen ==
  ~reviewed =>
    \A file \in {target, tmp} \ {None} :
      \A s \in Settings : file.cfg.settings[s] # None => s \in given

\* The game sources a path stands for: a package, the folder of a default.xex,
\* or any game in reach of a folder; an add-on only if there is no game.
Sources(p) ==
  LET seen == There \intersect Reach[p]
  IN  CASE p \in There \ Others -> {SourceOf(p)}
        [] p \in {Home[x] : x \in Xexes \intersect There} -> {p}
        [] p \in Folders \ {Home[x] : x \in Xexes \intersect There} ->
             IF seen \intersect Bootable # {} THEN {SourceOf(f) : f \in seen \intersect Bootable}
             ELSE seen \intersect AddOns
        [] OTHER -> {}

\* What runs is a game source of the path the user gave, on the command line, in
\* the file or in the wizard's path box at the moment of Play.
PlaysTheChosenGame == pc = "playing" => root \in Sources(choice)

\* INTEGRATION.md: "--no_setup guarantees the engine never pops its own wizard"
\* (unless --setup asks for it).
EmbeddedNeverAsks == pc = "wizard" => args.setup \/ ~args.embedded

\* INTEGRATION.md: "Your choice is remembered; next launch goes straight into
\* the game": no wizard while the saved path still leads to a game.
ChoiceIsRemembered ==
  pc = "wizard" /\ ~args.setup /\ args.game = None /\ ~hurt =>
    saved = None \/ Sources(saved.game) = {}
==============================================================================
