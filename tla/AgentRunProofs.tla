--------------------------- MODULE AgentRunProofs ---------------------------
(***************************************************************************)
(* TLAPS proof that the agent run command honours "CLI > File" for every  *)
(* field but the log settings, whenever mergeConfigs returns no error.    *)
(*                                                                         *)
(* ConfigPrecedence is not inductive: it says nothing of how cfg relates  *)
(* to the inputs before Start.  The invariant MergedInv says that once    *)
(* the agent runs, cfg and mergeErr are what mergeConfigs computed from   *)
(* the inputs, which no step changes; the lemma MergeHonoursPrecedence    *)
(* then shows, for any inputs, that an error-free merge writes every      *)
(* non-log field from the flag when it is set, else from the file.        *)
(*                                                                         *)
(* The same invariant gives the error path Run ignores (run.go:84): when  *)
(* the file's merge fails, the agent runs on the file's half-merged       *)
(* config with no flag in it (FileErrorIgnoresFlags).                     *)
(***************************************************************************)
EXTENDS AgentRun, TLAPS

(* Once the agent runs, cfg and mergeErr are mergeConfigs' result.        *)
MergedInv ==
    /\ fileCfg \in RunConfigs
    /\ cliCfg \in FlagConfigs
    /\ pc = "running" =>
           /\ cfg = MergeConfigs(fileCfg, cliCfg).cfg
           /\ mergeErr = MergeConfigs(fileCfg, cliCfg).err

(* A field other than the log settings is written by its own step.       *)
LEMMA StepOfPlainField ==
    ASSUME NEW f \in Fields \ LogFields
    PROVE  /\ StepOf(f) = f
           /\ IndexOf(f) \in 1..Len(Steps)
           /\ Steps[IndexOf(f)] = f
           /\ f # "log"
<1>1. f \in {Steps[i] : i \in 1..Len(Steps)} /\ f # "log"
    BY DEF Fields, LogFields, Steps
<1>2. \E i \in 1..Len(Steps) : Steps[i] = f
    BY <1>1
<1>3. IndexOf(f) \in 1..Len(Steps) /\ Steps[IndexOf(f)] = f
    BY <1>2 DEF IndexOf
<1>4. QED
    BY <1>1, <1>3 DEF StepOf, LogFields

(* A merge of cmd with no error writes each non-log field that cmd sets,  *)
(* with src, and leaves the others as orig holds them.                    *)
LEMMA MergeWithoutError ==
    ASSUME NEW orig, NEW cmd, NEW src,
           ~MergeConfig(orig, cmd, src).err,
           NEW f \in Fields \ LogFields
    PROVE  MergeConfig(orig, cmd, src).cfg[f] =
               IF cmd[f] # Unset THEN src ELSE orig[f]
<1>1. /\ StepOf(f) = f /\ IndexOf(f) \in 1..Len(Steps)
      /\ Steps[IndexOf(f)] = f /\ f # "log"
    BY StepOfPlainField
<1>2. \A i \in 1..Len(Steps) : ~Fails(cmd, Steps[i])
    BY DEF MergeConfig
<1>3. Completes(cmd, IndexOf(f))
    <2>1. \A j \in 1..IndexOf(f) : j \in 1..Len(Steps)
        BY <1>1
    <2>2. QED
        BY <1>2, <2>1 DEF Completes
<1>4. Writes(cmd, IndexOf(f)) <=> cmd[f] # Unset
    BY <1>1, <1>3 DEF Writes, Sets
<1>5. NewVal(cmd, src, f) = src
    BY DEF NewVal
<1>6. QED
    BY <1>1, <1>4, <1>5 DEF MergeConfig

(* mergeConfigs without an error gives every non-log field its flag's     *)
(* value if set, else its file's, else the default.                        *)
LEMMA MergeHonoursPrecedence ==
    ASSUME NEW file, NEW cli, ~MergeConfigs(file, cli).err,
           NEW f \in Fields \ LogFields
    PROVE  MergeConfigs(file, cli).cfg[f] =
               IF cli[f] # Unset THEN "cli"
               ELSE IF file[f] # Unset THEN "file" ELSE Default
<1> DEFINE r == MergeConfig(DefaultConfig, file, "file")
<1>1. ~r.err
    BY DEF MergeConfigs
<1>2. MergeConfigs(file, cli) = MergeConfig(r.cfg, cli, "cli")
    BY <1>1 DEF MergeConfigs
<1>3. ~MergeConfig(r.cfg, cli, "cli").err
    BY <1>2
<1>4. r.cfg[f] = IF file[f] # Unset THEN "file" ELSE Default
    <2>1. r.cfg[f] = IF file[f] # Unset THEN "file" ELSE DefaultConfig[f]
        BY <1>1, MergeWithoutError
    <2>2. DefaultConfig[f] = Default
        BY DEF DefaultConfig
    <2>3. QED
        BY <2>1, <2>2
<1>5. MergeConfig(r.cfg, cli, "cli").cfg[f] =
          IF cli[f] # Unset THEN "cli" ELSE r.cfg[f]
    BY <1>3, MergeWithoutError
<1>6. QED
    BY <1>2, <1>4, <1>5

(* run.go:84: when a step of the file's merge fails, mergeConfigs returns *)
(* before the flags are merged and Run starts the agent all the same.  The *)
(* agent then runs without any flag's value, and each field whose step    *)
(* comes at or after the failing one keeps newDefaultConfig's value.      *)
FileErrorDropsFlags ==
    pc = "running" /\ MergeConfig(DefaultConfig, fileCfg, "file").err =>
        \A f \in Fields :
            /\ cfg[f] \in {Default, "file"}
            /\ ~Completes(fileCfg, IndexOf(StepOf(f))) => cfg[f] = Default

(* When the file's merge fails, mergeConfigs returns it as it stands: a  *)
(* field holds the file's value or the default, and the default when its *)
(* step does not complete.                                                 *)
LEMMA FileErrorResult ==
    ASSUME NEW file, NEW cli, MergeConfig(DefaultConfig, file, "file").err,
           NEW f \in Fields
    PROVE  /\ MergeConfigs(file, cli).cfg[f] \in {Default, "file"}
           /\ ~Completes(file, IndexOf(StepOf(f))) =>
                  MergeConfigs(file, cli).cfg[f] = Default
<1> DEFINE r == MergeConfig(DefaultConfig, file, "file")
<1>1. MergeConfigs(file, cli) = r
    BY DEF MergeConfigs
<1>2. r.cfg[f] = IF Writes(file, IndexOf(StepOf(f))) THEN NewVal(file, "file", f)
                                                     ELSE Default
    BY DEF MergeConfig, DefaultConfig
<1>3. NewVal(file, "file", f) \in {Default, "file"}
    BY DEF NewVal
<1>4. ~Completes(file, IndexOf(StepOf(f))) => ~Writes(file, IndexOf(StepOf(f)))
    BY DEF Writes
<1>5. QED
    BY <1>1, <1>2, <1>3, <1>4

LEMMA InitMerged == Init => MergedInv
BY DEF Init, MergedInv

LEMMA MergedStep == MergedInv /\ [Next]_vars => MergedInv'
<1> SUFFICES ASSUME MergedInv, [Next]_vars PROVE MergedInv'
    OBVIOUS
<1>1. CASE ParseFail
    BY <1>1 DEF ParseFail, MergedInv
<1>2. CASE Start
    BY <1>2 DEF Start, MergedInv
<1>3. CASE Signal
    BY <1>3 DEF Signal, MergedInv
<1>4. ASSUME NEW err \in BOOLEAN, AgentReturns(err) PROVE MergedInv'
    BY <1>4 DEF AgentReturns, MergedInv
<1>5. CASE UNCHANGED vars
    BY <1>5 DEF vars, MergedInv
<1>6. QED
    BY <1>1, <1>2, <1>3, <1>4, <1>5 DEF Next

LEMMA MergedPrecedence == MergedInv => ConfigPrecedence
<1> SUFFICES ASSUME MergedInv, pc = "running", ~mergeErr,
                    NEW f \in Fields \ LogFields
             PROVE  cfg[f] = Expected(f)
    BY DEF ConfigPrecedence
<1>1. cfg = MergeConfigs(fileCfg, cliCfg).cfg
      /\ ~MergeConfigs(fileCfg, cliCfg).err
    BY DEF MergedInv
<1>2. QED
    BY <1>1, MergeHonoursPrecedence DEF Expected

(* Run starts the agent, whatever the flags and the file say, on a config *)
(* in which each field but the log level and log file is the flag's value *)
(* when the flag is given, else the file's, else newDefaultConfig's,      *)
(* whenever mergeConfigs has returned no error.                            *)
THEOREM FlagsOverrideFile == Spec => []ConfigPrecedence
<1>1. Spec => []MergedInv
    BY InitMerged, MergedStep, PTL DEF Spec
<1>2. QED
    BY <1>1, MergedPrecedence, PTL


LEMMA MergedFileError == MergedInv => FileErrorDropsFlags
<1> SUFFICES ASSUME MergedInv, pc = "running",
                    MergeConfig(DefaultConfig, fileCfg, "file").err,
                    NEW f \in Fields
             PROVE  /\ cfg[f] \in {Default, "file"}
                    /\ ~Completes(fileCfg, IndexOf(StepOf(f))) => cfg[f] = Default
    BY DEF FileErrorDropsFlags
<1>1. cfg = MergeConfigs(fileCfg, cliCfg).cfg
    BY DEF MergedInv
<1>2. QED
    BY <1>1, FileErrorResult

(* run.go:84: Run ignores a failed merge of the config file and starts    *)
(* the agent on the half-merged config: no flag reaches it, and every     *)
(* field from the failing step on holds newDefaultConfig's value.          *)
THEOREM FileErrorIgnoresFlags == Spec => []FileErrorDropsFlags
<1>1. Spec => []MergedInv
    BY InitMerged, MergedStep, PTL DEF Spec
<1>2. QED
    BY <1>1, MergedFileError, PTL

=============================================================================
