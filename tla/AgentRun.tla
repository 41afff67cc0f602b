------------------------------ MODULE AgentRun ------------------------------
(***************************************************************************)
(* The spire-agent run command (cmd/spire-agent/cli/run/run.go): flag    *)
(* parsing, the config file, mergeConfigs of file and flags over          *)
(* newDefaultConfig, validateConfig, the signal listener and the start of *)
(* the agent.                                                              *)
(*                                                                         *)
(* A field's value is abstracted to where it came from: "file", "cli" or  *)
(* Default (the value newDefaultConfig gives, nil or zero for the fields  *)
(* validateConfig requires).  An input field is Unset ("" or 0), Given, or *)
(* Bad: a server address LookupIP cannot resolve (or resolves to no IP),  *)
(* a trust bundle parseTrustBundle rejects, a log file NewLogger cannot   *)
(* open, a umask ParseInt rejects.                                         *)
(***************************************************************************)
EXTENDS Naturals, Sequences

CONSTANTS
    Unset, Given, Bad,   \* what an input field holds
    Default              \* the value of a field newDefaultConfig sets

(* The steps of mergeConfig, in code order; "log" sets both log fields.   *)
Steps == <<"server_address", "server_port", "trust_domain", "trust_bundle_path",
           "join_token", "socket_path", "data_dir", "plugin_dir", "log",
           "umask", "plugins">>

(* The steps that parse their input and return an error when it is Bad.   *)
Checked == {"server_address", "trust_bundle_path", "log", "umask"}

LogFields == {"log_level", "log_file"}

(* The fields of runConfig (agentConfig and PluginsConfigs) that reach the *)
(* agent.Config, and so the fields of the merged config.                  *)
Fields == ({Steps[i] : i \in 1..Len(Steps)} \ {"log"}) \cup LogFields

(* The step of mergeConfig that writes field f.                          *)
StepOf(f) == IF f \in LogFields THEN "log" ELSE f

(* The fields validateConfig requires.                                    *)
Required == {"server_address", "server_port", "trust_domain", "trust_bundle_path"}

(* Where an input field may be Bad: the fields a step parses.             *)
Parsed == {"server_address", "trust_bundle_path", "log_file", "umask"}

(* A runConfig as HCL decodes it from the file, or as parseFlags fills it *)
(* (no flag sets PluginsConfigs).                                          *)
RunConfigs ==
    {rc \in [Fields -> {Unset, Given, Bad}] : \A f \in Fields \ Parsed : rc[f] # Bad}
FlagConfigs == {rc \in RunConfigs : rc["plugins"] = Unset}

Configs == [Fields -> {Default, "file", "cli"}]

VARIABLES
    fileCfg,   \* the file's runConfig
    cliCfg,    \* the flags' runConfig
    flagsOk,   \* flags.Parse succeeds
    fileOk,    \* the config file exists, is read and decodes
    pc,        \* "start", "running" (agent.Run in progress) or "exited"
    cfg,       \* the agent.Config c
    mergeErr,  \* mergeConfigs returned an error
    validErr,  \* validateConfig returned an error
    cancelled, \* the context has been cancelled by the signal listener
    exitCode

vars == <<fileCfg, cliCfg, flagsOk, fileOk, pc, cfg, mergeErr, validErr,
          cancelled, exitCode>>

(* newDefaultConfig.                                                       *)
DefaultConfig == [f \in Fields |-> Default]

(* The step of mergeConfig named s returns an error for cmd.              *)
Fails(cmd, s) ==
    /\ s \in Checked
    /\ IF s = "log" THEN cmd["log_file"] = Bad ELSE cmd[s] = Bad

(* The step s has something to write: its field is set ("log": either of *)
(* the two log fields is).                                                 *)
Sets(cmd, s) ==
    IF s = "log" THEN cmd["log_file"] # Unset \/ cmd["log_level"] # Unset
                 ELSE cmd[s] # Unset

(* Step i runs to its end: no step up to it returned an error.            *)
Completes(cmd, i) == \A j \in 1..i : ~Fails(cmd, Steps[j])

(* The step of index i writes orig.                                       *)
Writes(cmd, i) == Completes(cmd, i) /\ Sets(cmd, Steps[i])

IndexOf(s) == CHOOSE i \in 1..Len(Steps) : Steps[i] = s

(* What the step writing f stores.  The log step builds a new logger from *)
(* cmd's level (defaultLogLevel when unset) and cmd's file (stdout when   *)
(* unset).                                                                 *)
NewVal(cmd, src, f) ==
    IF f \in LogFields /\ cmd[f] = Unset THEN Default ELSE src

(* mergeConfig(orig, cmd): the fields written, and whether it returned an *)
(* error; a failing step leaves the writes of the steps before it in orig. *)
MergeConfig(orig, cmd, src) ==
    [cfg |-> [f \in Fields |->
                 IF Writes(cmd, IndexOf(StepOf(f))) THEN NewVal(cmd, src, f)
                                                    ELSE orig[f]],
     err |-> \E i \in 1..Len(Steps) : Fails(cmd, Steps[i])]

(* mergeConfigs: the file first, then the flags unless the file failed.   *)
MergeConfigs(file, cli) ==
    LET r == MergeConfig(DefaultConfig, file, "file")
    IN  IF r.err THEN r ELSE MergeConfig(r.cfg, cli, "cli")

(* validateConfig succeeds.                                               *)
ValidateConfig(c) == \A f \in Required : c[f] # Default

Init ==
    /\ fileCfg \in RunConfigs
    /\ cliCfg \in FlagConfigs
    /\ flagsOk \in BOOLEAN
    /\ fileOk \in BOOLEAN
    /\ pc = "start"
    /\ cfg = DefaultConfig
    /\ mergeErr = FALSE
    /\ validErr = FALSE
    /\ cancelled = FALSE
    /\ exitCode = 0

(* Run returns 1 when parseFlags or parseFile fails.                      *)
ParseFail ==
    /\ pc = "start"
    /\ ~flagsOk \/ ~fileOk
    /\ pc' = "exited"
    /\ exitCode' = 1
    /\ UNCHANGED <<fileCfg, cliCfg, flagsOk, fileOk, cfg, mergeErr, validErr,
                   cancelled>>

(* The rest of Run up to agt.Run(): the errors of mergeConfigs and        *)
(* validateConfig are printed and the agent is started all the same.      *)
Start ==
    /\ pc = "start"
    /\ flagsOk /\ fileOk
    /\ LET r == MergeConfigs(fileCfg, cliCfg)
       IN  /\ cfg' = r.cfg
           /\ mergeErr' = r.err
           /\ validErr' = ~ValidateConfig(r.cfg)
    /\ pc' = "running"
    /\ UNCHANGED <<fileCfg, cliCfg, flagsOk, fileOk, cancelled, exitCode>>

(* signalListener's goroutine: SIGINT or SIGTERM cancels the context.     *)
Signal ==
    /\ pc = "running"
    /\ ~cancelled
    /\ cancelled' = TRUE
    /\ UNCHANGED <<fileCfg, cliCfg, flagsOk, fileOk, pc, cfg, mergeErr,
                   validErr, exitCode>>

(* agt.Run() returns, with an error or not, and Run returns 1 or 0.       *)
AgentReturns(err) ==
    /\ pc = "running"
    /\ pc' = "exited"
    /\ exitCode' = IF err THEN 1 ELSE 0
    /\ UNCHANGED <<fileCfg, cliCfg, flagsOk, fileOk, cfg, mergeErr, validErr,
                   cancelled>>

Next ==
    \/ ParseFail
    \/ Start
    \/ Signal
    \/ \E err \in BOOLEAN : AgentReturns(err)

Spec == Init /\ [][Next]_vars

-----------------------------------------------------------------------------
(* Properties *)

TypeOK ==
    /\ fileCfg \in RunConfigs
    /\ cliCfg \in FlagConfigs
    /\ flagsOk \in BOOLEAN /\ fileOk \in BOOLEAN
    /\ pc \in {"start", "running", "exited"}
    /\ cfg \in Configs
    /\ mergeErr \in BOOLEAN /\ validErr \in BOOLEAN /\ cancelled \in BOOLEAN
    /\ exitCode \in {0, 1}

(* The value "CLI > File" asks for: the flag when it is set, else the     *)
(* file's, else the default.                                               *)
Expected(f) ==
    IF cliCfg[f] # Unset THEN "cli"
    ELSE IF fileCfg[f] # Unset THEN "file" ELSE Default

(* mergeConfigs keeps its comment "CLI > File" field by field: once the   *)
(* agent runs on a config merged without error, each field other than the *)
(* log settings holds the flag's value if given, else the file's, else    *)
(* newDefaultConfig's.                                                     *)
ConfigPrecedence ==
    pc = "running" /\ ~mergeErr =>
        \A f \in Fields \ LogFields : cfg[f] = Expected(f)

(* The same for the log level and the log file: a flag overrides the file *)
(* for the setting it names and leaves the other one as the file set it.  *)
LogSettingsPerField ==
    pc = "running" /\ ~mergeErr =>
        \A f \in LogFields : cfg[f] = Expected(f)

=============================================================================
