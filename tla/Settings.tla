------------------------------ MODULE Settings ------------------------------
(***************************************************************************)
(* Where the settings of a gateway or an adapter come from (config.py of   *)
(* the engine and of the gateway), and what the gateway command makes of   *)
(* them (cli.py).                                                          *)
(*                                                                         *)
(* A source of settings is a function from the names it gives to their     *)
(* values.  A model is [names, fromOutside, defaults, required]: its       *)
(* fields, those that the environment and the flags may set, the defaults, *)
(* and the fields without one.                                             *)
(***************************************************************************)
EXTENDS FiniteSets, Functions

CONFIG == "config"
LOG_LEVELS == {"debug", "info"}
Lower(v) == IF v = "INFO" THEN "info" ELSE IF v = "DEBUG" THEN "debug" ELSE v

\* build_parser: the command line knows the flags of the names from outside and --config. A
\* level is lowered, and one that is none is refused before the settings are loaded.
ParsedFlags(model, flags) ==
    IF /\ DOMAIN flags \subseteq model.fromOutside \cup {CONFIG}
       /\ "log_level" \in DOMAIN flags => Lower(flags["log_level"]) \in LOG_LEVELS
    THEN {[n \in DOMAIN flags |-> IF n = "log_level" THEN Lower(flags[n]) ELSE flags[n]]}
    ELSE {}

\* The file to read: that of --config, else that of <PREFIX>CONFIG unless it is empty.
FileName(environ, flags) ==
    IF CONFIG \in DOMAIN flags THEN flags[CONFIG]
    ELSE IF CONFIG \in DOMAIN environ THEN environ[CONFIG] ELSE ""

\* _read_file: {its settings}, {} where ConfigError is raised. A file is [form, values]; an empty
\* one holds no settings.
ReadFile(file) ==
    IF file.form = "mapping" THEN {file.values} ELSE IF file.form = "empty" THEN {<<>>} ELSE {}

\* The settings of one source, with those of a stronger one in their place.
Under(weaker, stronger) ==
    [n \in DOMAIN weaker \cup DOMAIN stronger |->
        IF n \in DOMAIN stronger THEN stronger[n] ELSE weaker[n]]

\* A wrong Overridden: the environment wins over the flags.
OverriddenByEnvironment(file, environ, flags) == Under(file, Under(flags, environ))

\* Each source overrides the one before it.
Overridden(file, environ, flags) == Under(Under(file, environ), flags)

\* check_engine_id, and the validators of the fields.
ValidField(name, value) ==
    CASE name = "engine_id" -> value \notin {"", "a/b"}
      [] name = "log_level" -> Lower(value) \in LOG_LEVELS
      [] name \in {"host", "gateway_url"} -> value # ""
      [] name \in {"port", "child_timeout"} -> value \in {"8765", "10"}
      [] OTHER -> TRUE

\* model_validate: {the settings}, {} where it refuses them. Unknown names are refused.
Validated(model, values) ==
    LET all == Under(model.defaults, values)
    IN  IF /\ DOMAIN values \subseteq model.names
           /\ model.required \subseteq DOMAIN values
           /\ \A n \in DOMAIN all : ValidField(n, all[n])
        THEN {[n \in DOMAIN all |-> IF n = "log_level" THEN Lower(all[n]) ELSE all[n]]}
        ELSE {}

\* load_config: {the settings}, {} where ConfigError is raised.
LoadConfig(model, environ, files, flags) ==
    LET file == FileName(environ, flags)
        outside == Restrict(environ, DOMAIN environ \cap model.fromOutside)
        given == Restrict(flags, DOMAIN flags \ {CONFIG})
    IN  UNION {Validated(model, Overridden(content, outside, given)) :
                  content \in IF file = "" THEN {<<>>} ELSE ReadFile(files[file])}

\* load_adapter_config: the settings of an adapter, {} where it does not start.
LoadAdapterConfig(model, environ, files, flags) ==
    UNION {LoadConfig(model, environ, files, f) : f \in ParsedFlags(model, flags)}

\* main of the gateway command: its exit code, and the settings it ran with. argparse refuses a
\* command line with the code of a bad configuration; a port that is taken is a failure.
Main(model, environ, files, flags, taken) ==
    LET parsed == ParsedFlags(model, flags)
        settings == UNION {LoadConfig(model, environ, files, f) : f \in parsed}
    IN  CASE settings = {} -> [exit |-> "CONFIG", ran |-> {}]
          [] settings # {} /\ taken -> [exit |-> "FAILURE", ran |-> {}]
          [] OTHER -> [exit |-> "OK", ran |-> settings]
=============================================================================
