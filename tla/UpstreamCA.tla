----------------------------- MODULE UpstreamCA -----------------------------
(***************************************************************************)
(* The disk UpstreamAuthority plugin (src/unnamed/part_001): Configure,    *)
(* MintX509CAAndSubscribe with its reloadCA, and loadUpstreamCAAndCerts.   *)
(*                                                                         *)
(* The CA's key and certificate live in files that an operator may rewrite *)
(* at any time.  Configure loads them before it takes p.mtx and commits    *)
(* config, certs and upstreamCA under the lock.  Every Mint reloads the    *)
(* files under the lock and falls back to the cached CA when they do not   *)
(* load.  A file pair's contents is a record: the key file holds a key or  *)
(* is missing, the certificate file holds a certificate of some key, of    *)
(* some kind ("self" signed, "issued" by another CA, or a "chain" of       *)
(* several), or is missing.                                                *)
(***************************************************************************)
EXTENDS Naturals

CONSTANTS
    Keys,         \* CA key pairs (model values)
    Paths,        \* cert_file_path/key_file_path pairs an HCL config can name
    TrustDomains, \* trust domains the core configuration can carry
    NoFile,       \* a missing or unparsable PEM file
    BadHCL,       \* an HCL configuration that does not decode
    NoTD,         \* spiffeid.TrustDomain's zero value
    MaxWrites,    \* bound on operator rewrites of the CA files
    MaxConfigures \* bound on Configure calls

ASSUME UpstreamConstAssumption ==
    /\ Paths # {} /\ TrustDomains # {}
    /\ NoTD \notin TrustDomains /\ NoFile \notin Keys \cup Paths
    /\ BadHCL \notin Paths
    /\ MaxWrites \in Nat /\ MaxConfigures \in Nat

VARIABLES
    disk,        \* disk[p]: what the files of path pair p hold
    config,      \* p.config: NoConfig or [path, td]
    upstreamCA,  \* p.upstreamCA: NoCA or the CA (key, trust domain, origin)
    certs,       \* p.certs: the key whose self-signed certificate is cached
    cfgPc,       \* Configure's progress: "idle" or "loaded" (lock pending)
    cfgLocal,    \* Configure's locals between its load and its commit
    mintResult,  \* the CA the latest Mint signed with (NoCA: none, or error)
    writes,      \* operator rewrites so far
    configures   \* Configure calls so far

vars == <<disk, config, upstreamCA, certs, cfgPc, cfgLocal, mintResult,
          writes, configures>>

CertKinds == {"self", "issued", "chain"}
Certs == [of : Keys, kind : CertKinds]
Contents == [key : Keys \cup {NoFile}, cert : Certs \cup {NoFile}]
Configs == [path : Paths, td : TrustDomains \cup {NoTD}]
NoConfig == [path |-> NoFile, td |-> NoTD]
CAs == [key : Keys, td : TrustDomains \cup {NoTD}, path : Paths]
NoCA == [key |-> NoFile, td |-> NoTD, path |-> NoFile]

(* loadUpstreamCAAndCerts(config): the error returns in the order the code *)
(* meets them, then a CA built with config.trustDomain.                    *)
LoadFails(c) ==
    \/ c.key = NoFile                 \* LoadPrivateKey fails
    \/ c.cert = NoFile                \* LoadCertificates fails
    \/ c.cert.kind = "chain"          \* len(certs) != 1
    \/ c.cert.of # c.key              \* key does not match the certificate
    \/ c.cert.kind = "issued"         \* self-verification fails
LoadUpstreamCAAndCerts(cfg) ==
    IF LoadFails(disk[cfg.path]) THEN NoCA
    ELSE [key |-> disk[cfg.path].key, td |-> cfg.td, path |-> cfg.path]

(* The host calls Configure before any Mint; Configure runs once at a time. *)
Init ==
    /\ disk \in [Paths -> Contents]
    /\ config = NoConfig
    /\ upstreamCA = NoCA
    /\ certs = NoFile
    /\ cfgPc = "idle"
    /\ cfgLocal = [cfg |-> NoConfig, ca |-> NoCA, td |-> NoTD]
    /\ mintResult = NoCA
    /\ writes = 0
    /\ configures = 0

(* An operator rewrites one pair of CA files (not a code path).            *)
DiskWrite(p, c) ==
    /\ writes < MaxWrites
    /\ disk' = [disk EXCEPT ![p] = c]
    /\ writes' = writes + 1
    /\ UNCHANGED <<config, upstreamCA, certs, cfgPc, cfgLocal, mintResult,
                   configures>>

(* Mutant: Configure without its load-error return (line 206).            *)
ConfigureLoadIgnoreError(hcl, td) ==
    /\ cfgPc = "idle"
    /\ configures < MaxConfigures
    /\ configures' = configures + 1
    /\ IF hcl = BadHCL
         THEN UNCHANGED <<cfgPc, cfgLocal>>
         ELSE LET newConfig == [path |-> hcl, td |-> NoTD]
              IN  /\ cfgPc' = "loaded"
                  /\ cfgLocal' = [cfg |-> newConfig,
                                  ca |-> LoadUpstreamCAAndCerts(newConfig), td |-> td]
    /\ UNCHANGED <<disk, config, upstreamCA, certs, mintResult, writes>>

(* Configure up to p.mtx.Lock(): decode the HCL, then load the CA with the  *)
(* new config, whose trustDomain is still the zero value.  A decode or     *)
(* load error returns without touching the plugin.                         *)
ConfigureLoad(hcl, td) ==
    /\ cfgPc = "idle"
    /\ configures < MaxConfigures
    /\ configures' = configures + 1
    /\ IF hcl = BadHCL
         THEN UNCHANGED <<cfgPc, cfgLocal>>
         ELSE LET newConfig == [path |-> hcl, td |-> NoTD]
                  ca == LoadUpstreamCAAndCerts(newConfig)
              IN  IF ca = NoCA
                    THEN UNCHANGED <<cfgPc, cfgLocal>>
                    ELSE /\ cfgPc' = "loaded"
                         /\ cfgLocal' = [cfg |-> newConfig, ca |-> ca, td |-> td]
    /\ UNCHANGED <<disk, config, upstreamCA, certs, mintResult, writes>>

(* Mutant: Configure's commit without line 215, the trust domain.        *)
ConfigureCommitNoTD ==
    /\ cfgPc = "loaded"
    /\ config' = cfgLocal.cfg
    /\ certs' = cfgLocal.ca.key
    /\ upstreamCA' = cfgLocal.ca
    /\ cfgPc' = "idle"
    /\ UNCHANGED <<disk, cfgLocal, mintResult, writes, configures>>

(* Configure under p.mtx: commit the config, now with the core trust      *)
(* domain, and the certificates and CA loaded before the lock.            *)
ConfigureCommit ==
    /\ cfgPc = "loaded"
    /\ config' = [cfgLocal.cfg EXCEPT !.td = cfgLocal.td]
    /\ certs' = cfgLocal.ca.key
    /\ upstreamCA' = cfgLocal.ca
    /\ cfgPc' = "idle"
    /\ UNCHANGED <<disk, cfgLocal, mintResult, writes, configures>>

(* reloadCA, under p.mtx: a fresh load from p.config replaces the cache;  *)
(* a failed one leaves it and returns it (nil when nothing is cached).     *)
ReloadedCA ==
    IF LoadUpstreamCAAndCerts(config) # NoCA THEN LoadUpstreamCAAndCerts(config)
    ELSE upstreamCA
ReloadCA ==
    IF LoadUpstreamCAAndCerts(config) # NoCA
      THEN /\ upstreamCA' = LoadUpstreamCAAndCerts(config)
           /\ certs' = LoadUpstreamCAAndCerts(config).key
      ELSE UNCHANGED <<upstreamCA, certs>>

(* MintX509CAAndSubscribe: reloadCA holds p.mtx for the whole reload and   *)
(* fallback; signing the CSR with the CA it returns touches no plugin     *)
(* state, so the RPC is one step.  With nothing cached it fails.          *)
Mint ==
    /\ config # NoConfig
    /\ ReloadCA
    /\ mintResult' = ReloadedCA
    /\ UNCHANGED <<disk, config, cfgPc, cfgLocal, writes, configures>>

Next ==
    \/ \E p \in Paths, c \in Contents : DiskWrite(p, c)
    \/ \E hcl \in Paths \cup {BadHCL}, td \in TrustDomains : ConfigureLoad(hcl, td)
    \/ ConfigureCommit
    \/ Mint

Spec == Init /\ [][Next]_vars

-----------------------------------------------------------------------------
(* Every variable holds a value of its kind; a committed config always    *)
(* carries a real trust domain (Configure sets it from the core config).   *)
TypeOK ==
    /\ disk \in [Paths -> Contents]
    /\ config \in [path : Paths, td : TrustDomains] \cup {NoConfig}
    /\ upstreamCA \in CAs \cup {NoCA}
    /\ certs \in Keys \cup {NoFile}
    /\ cfgPc \in {"idle", "loaded"}
    /\ cfgLocal \in [cfg : Configs \cup {NoConfig}, ca : CAs \cup {NoCA},
                     td : TrustDomains \cup {NoTD}]
    /\ mintResult \in CAs \cup {NoCA}
    /\ writes \in 0..MaxWrites /\ configures \in 0..MaxConfigures

(* The cached CA is the fallback reloadCA serves when the files stop       *)
(* loading: once a Configure has succeeded there is always one, it was     *)
(* loaded from the files the current config names, and p.certs is its own  *)
(* certificate, however Configure's unlocked load, its commit, Mints and  *)
(* rewrites of the files interleave.                                      *)
CacheMatchesConfig ==
    /\ (config # NoConfig) <=> (upstreamCA # NoCA)
    /\ upstreamCA # NoCA => /\ upstreamCA.path = config.path
                            /\ certs = upstreamCA.key

(* Every CA a Mint signs with belongs to the trust domain of the plugin's  *)
(* configuration: the SPIFFE ID of the CA it mints is in that domain.      *)
MintUsesConfiguredTD ==
    [][Mint /\ mintResult' \in CAs => mintResult'.td = config.td]_vars

=============================================================================
