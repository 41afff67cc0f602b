----------------------------- MODULE MCAgentRun -----------------------------
(* The agent run command with the file and the flags free to set, leave   *)
(* unset or give a bad value to the server address, the trust bundle and  *)
(* the log file, and to set the port and the log level; the other fields  *)
(* take the same path through mergeConfig and are left unset.             *)
EXTENDS AgentRun

MCVarying == {"server_address", "server_port", "trust_bundle_path",
              "log_file", "log_level"}

MCInputs ==
    {[f \in Fields |-> IF f \in MCVarying THEN v[f] ELSE Unset] :
        v \in {w \in [MCVarying -> {Unset, Given, Bad}] :
                  \A f \in MCVarying \ Parsed : w[f] # Bad}}

=============================================================================
