------------------------------- MODULE Config -------------------------------
(***************************************************************************)
(* The configuration of one launch (packages/config): command line flags   *)
(* over the environment over .env over settings.json over the defaults,    *)
(* validated as a whole, and the app's own write to settings.json between  *)
(* launches (main/bootstrap.ts).  One key of each kind stands for the      *)
(* twenty-four: "coach" may be set by the settings file alone, "vision" is *)
(* Boolean and so may be a bare flag, "port" needs a value.                *)
(***************************************************************************)
EXTENDS Naturals, Sequences, FiniteSets

CONSTANTS
    Argvs,    \* bound: command lines, sequences of arguments (see Switch and Word)
    DotEnvs,  \* bound: for each directory from the working one up, its .env or NoFile
    Envs,     \* bound: process environments, functions from some keys to text
    MaxSaves  \* bound on the writes of settings.json in a behaviour

ASSUME ConfigAssumption ==
    /\ \A argv \in Argvs : argv \in Seq({argv[i] : i \in DOMAIN argv})
    /\ \A dirs \in DotEnvs : Len(dirs) \in Nat /\ DOMAIN dirs = 1 .. Len(dirs)

ConfigKeys == {"coach", "vision", "port"}
EnvKeys    == ConfigKeys \ {"coach"}
BooleanKeys == {"vision"}
NoFile == <<>>   \* an .env that is there always holds somebody else's variable too

(* settings.json is JSON or it is not, and holds keys, "typo" being one the *)
(* program does not know; no file reads like an empty one.                  *)
File(json, keys) == [json |-> json, keys |-> keys]
NoConfig == <<>>

VARIABLES
    settings,  \* what settings.json holds
    launched,  \* the last launch: what it read, and its configuration
    chosen,    \* the coach the player chose, while nothing else wrote the file
    saves

configVars == <<settings, launched, chosen, saves>>

(* --name[=value], --no-name: the only arguments that are read; everything *)
(* else on the line is Electron's own.                                     *)
Switch(key, no, value) == [dash |-> TRUE, key |-> key, no |-> no, value |-> value]
Word(value) == [dash |-> FALSE, key |-> "", no |-> FALSE, value |-> value]

(* parseFlags: an argument that does not begin with -- is the value of the *)
(* bare flag before it, whatever kind of flag that is.                     *)
Takes(argv, i) == i < Len(argv) /\ ~argv[i + 1].dash
SaysOf(argv, i) ==
    LET a == argv[i] IN
    IF ~a.dash \/ a.key \notin EnvKeys THEN {} ELSE
    CASE a.no -> IF a.key \in BooleanKeys THEN {<<a.key, "off">>} ELSE {}
      [] ~a.no /\ a.value # "none" -> {<<a.key, a.value>>}
      [] ~a.no /\ a.value = "none" /\ Takes(argv, i) -> {<<a.key, argv[i + 1].value>>}
      [] OTHER -> IF a.key \in BooleanKeys THEN {<<a.key, "on">>} ELSE {}
ParseFlags(argv) ==
    LET said(k) == {i \in DOMAIN argv : \E v \in SaysOf(argv, i) : v[1] = k}
        last(k) == CHOOSE i \in said(k) : \A j \in said(k) : j <= i
    IN [k \in {k \in ConfigKeys : said(k) # {}} |->
            (CHOOSE v \in SaysOf(argv, last(k)) : TRUE)[2]]

(* findEnvFile: the nearest .env hides every one above it. *)
FindEnvFile(dirs) ==
    LET found == {i \in DOMAIN dirs : dirs[i] # NoFile}
    IN IF found = {} THEN <<>> ELSE dirs[CHOOSE i \in found : \A j \in found : i <= j]

(* What one layer says, and where it says nothing the one under it. *)
Layered(over, base) ==
    [k \in DOMAIN over \cup DOMAIN base |-> IF k \in DOMAIN over THEN over[k] ELSE base[k]]
Only(key, value) == [k \in {key} |-> value]

(* Mutant: an empty variable of the process hides the one of .env. *)
HidesByBlank(base, over) == Layered(over, base)

(* overlayEnv, then fromEnv: a variable the process sets to "" does not hide *)
(* the one of .env, and what is still blank says nothing.                    *)
OverlayEnv(base, over) == Layered([k \in {k \in DOMAIN over : over[k] # ""} |-> over[k]], base)
FromEnv(env) == [k \in {k \in DOMAIN env \cap EnvKeys : env[k] \notin {"", "blank"}} |-> env[k]]

(* readSettings and fromSettings: not JSON, or a key nobody knows, throws. *)
Readable(file) == file.json /\ DOMAIN file.keys \subseteq ConfigKeys

(* mergeLayers: the first layer with an opinion. *)
MergeLayers(flags, env, file) == Layered(flags, Layered(env, file))

(* SETTINGS_SCHEMA, by kind of key, and DEFAULTS. *)
Valid(k, v) == CASE k = "coach"  -> v \in {"static", "llm"}
                 [] k = "vision" -> v \in {"on", "off"}
                 [] k = "port"   -> v \in {"one", "two"}
Defaults == [k \in ConfigKeys |-> CASE k = "coach" -> "static" [] k = "vision" -> "off" [] OTHER -> "one"]

ResolveConfig(layer) ==
    LET raw == Layered(layer, Defaults)
    IN IF \A k \in ConfigKeys : Valid(k, raw[k]) THEN raw ELSE NoConfig

LoadConfig(argv, dirs, env, file) ==
    IF ~Readable(file) THEN NoConfig
    ELSE ResolveConfig(MergeLayers(ParseFlags(argv),
                                   FromEnv(OverlayEnv(FindEnvFile(dirs), env)),
                                   file.keys))

NotLaunched == [argv |-> <<>>, dirs |-> <<>>, env |-> <<>>, config |-> NoConfig]

ConfigInit ==
    /\ settings = File(TRUE, <<>>)
    /\ launched = NotLaunched
    /\ chosen = "none"
    /\ saves = 0

Launch == \E argv \in Argvs, dirs \in DotEnvs, env \in Envs :
    /\ launched' = [argv |-> argv, dirs |-> dirs, env |-> env,
                    config |-> LoadConfig(argv, dirs, env, settings)]
    /\ UNCHANGED <<settings, chosen, saves>>

(* saveSettings: the file as it could be read, with the patch over it; a     *)
(* write that fails is swallowed.                                            *)
LoadSettings(file) == IF file.json THEN file.keys ELSE <<>>
SaveSettings == \E mode \in {"static", "llm"} :
    /\ saves < MaxSaves
    /\ saves' = saves + 1
    /\ \/ settings' = File(TRUE, Layered(Only("coach", mode), LoadSettings(settings))) /\ chosen' = mode
       \/ UNCHANGED <<settings, chosen>>
    /\ launched' = NotLaunched

(* The player's own editor. *)
HandEdit ==
    /\ saves < MaxSaves
    /\ saves' = saves + 1
    /\ settings' \in {File(FALSE, <<>>), File(TRUE, Only("port", "two")), File(TRUE, Only("vision", "maybe")),
                      File(TRUE, [k \in {"typo", "vision"} |-> "on"])}
    /\ chosen' = "none"
    /\ launched' = NotLaunched

ConfigNext == Launch \/ SaveSettings \/ HandEdit

ConfigSpec == ConfigInit /\ [][ConfigNext]_configVars

-----------------------------------------------------------------------------
(* What the layers promise whoever launches the app. *)

Ran == launched # NotLaunched
Again(argv, dirs, env) == LoadConfig(argv, dirs, env, settings)

(* The coach the player chose is the one that runs, whatever a shell profile *)
(* or a shortcut says; a choice written over an unreadable file heals it.    *)
ChoiceSticks ==
    chosen # "none" /\ launched.config # NoConfig => launched.config["coach"] = chosen

(* A variable left empty decides nothing, at any level: the launch is the  *)
(* one of the same machine without that variable.                          *)
WithoutBlanks(env, blanks) == [k \in {k \in DOMAIN env : env[k] \notin blanks} |-> env[k]]
BlankIsSilent ==
    Ran => launched.config = Again(launched.argv,
        [i \in DOMAIN launched.dirs |-> IF launched.dirs[i] = NoFile THEN NoFile
                                        ELSE Layered(WithoutBlanks(launched.dirs[i], {"", "blank"}), Only("other", "x"))],
        WithoutBlanks(launched.env, {""}))

(* A switch of Chromium's, at either end of the line, changes nothing. *)
ForeignSwitch == Switch("inspect", FALSE, "none")
ForeignIsIgnored ==
    Ran => /\ launched.config = Again(<<ForeignSwitch>> \o launched.argv, launched.dirs, launched.env)
           /\ launched.config = Again(Append(launched.argv, ForeignSwitch), launched.dirs, launched.env)

(* ConfigAsSpoken: a launch runs on what was said and on nothing else -- the *)
(* coach is the player's choice, a blank variable is silent, a foreign       *)
(* switch is ignored.                                                        *)
ConfigAsSpoken == ChoiceSticks /\ BlankIsSilent /\ ForeignIsIgnored
=============================================================================
