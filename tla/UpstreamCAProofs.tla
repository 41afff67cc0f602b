-------------------------- MODULE UpstreamCAProofs --------------------------
(***************************************************************************)
(* TLAPS proofs for the disk UpstreamAuthority plugin: TypeOK and          *)
(* CacheMatchesConfig hold in every reachable state, for any keys, file    *)
(* locations, trust domains and bounds.                                    *)
(***************************************************************************)
EXTENDS UpstreamCA, TLAPS

USE UpstreamConstAssumption

(* Between its unlocked load and its commit, Configure holds a CA that was *)
(* loaded from the files its new config names.                             *)
LoadedLocal ==
    cfgPc = "loaded" =>
        /\ cfgLocal.cfg \in Configs
        /\ cfgLocal.ca \in CAs
        /\ cfgLocal.ca.path = cfgLocal.cfg.path
        /\ cfgLocal.td \in TrustDomains

IInv == TypeOK /\ CacheMatchesConfig /\ LoadedLocal

(* What loadUpstreamCAAndCerts returns: nothing, or a CA of a real key,    *)
(* built from the files of the config it is given, with its trust domain.  *)
LEMMA LoadResult ==
    ASSUME TypeOK, NEW cfg, cfg.path \in Paths, cfg.td \in TrustDomains \cup {NoTD}
    PROVE  LET ca == LoadUpstreamCAAndCerts(cfg)
           IN  \/ ca = NoCA
               \/ /\ ca \in CAs
                  /\ ca.path = cfg.path
                  /\ ca.td = cfg.td
<1>1. disk[cfg.path] \in Contents
    BY DEF TypeOK
<1>2. CASE LoadFails(disk[cfg.path])
    BY <1>2 DEF LoadUpstreamCAAndCerts
<1>3. CASE ~LoadFails(disk[cfg.path])
    <2>1. disk[cfg.path].key \in Keys
        BY <1>1, <1>3 DEF LoadFails, Contents
    <2>2. QED
        BY <1>3, <2>1 DEF LoadUpstreamCAAndCerts, CAs
<1>4. QED
    BY <1>2, <1>3

LEMMA NoCANotCA == NoCA \notin CAs
BY DEF NoCA, CAs

LEMMA InitIInv == Init => IInv
BY DEF Init, IInv, TypeOK, CacheMatchesConfig, LoadedLocal, Contents, Configs,
       CAs, NoConfig, NoCA

LEMMA IInvStep == IInv /\ [Next]_vars => IInv'
<1> SUFFICES ASSUME IInv, [Next]_vars PROVE IInv'
    OBVIOUS
<1>1. ASSUME NEW p \in Paths, NEW c \in Contents, DiskWrite(p, c) PROVE IInv'
    BY <1>1 DEF DiskWrite, IInv, TypeOK, CacheMatchesConfig, LoadedLocal
<1>2. ASSUME NEW hcl \in Paths \cup {BadHCL}, NEW td \in TrustDomains,
             ConfigureLoad(hcl, td)
      PROVE  IInv'
    <2>1. CASE hcl = BadHCL
        BY <1>2, <2>1 DEF ConfigureLoad, IInv, TypeOK, CacheMatchesConfig, LoadedLocal
    <2>2. CASE hcl # BadHCL
        <3> DEFINE newConfig == [path |-> hcl, td |-> NoTD]
                   ca == LoadUpstreamCAAndCerts(newConfig)
        <3>1. hcl \in Paths
            BY <2>2
        <3>2. ca = NoCA \/ (ca \in CAs /\ ca.path = hcl)
            BY <3>1, LoadResult DEF IInv
        <3>3. CASE ca = NoCA
            BY <1>2, <2>2, <3>3 DEF ConfigureLoad, IInv, TypeOK, CacheMatchesConfig, LoadedLocal
        <3>4. CASE ca # NoCA
            <4>1. cfgPc' = "loaded" /\ cfgLocal' = [cfg |-> newConfig, ca |-> ca, td |-> td]
                BY <1>2, <2>2, <3>4 DEF ConfigureLoad
            <4>2. newConfig \in Configs
                BY <3>1 DEF Configs
            <4>3. QED
                BY <1>2, <3>2, <3>4, <4>1, <4>2, NoCANotCA
                DEF ConfigureLoad, IInv, TypeOK, CacheMatchesConfig, LoadedLocal
        <3>5. QED
            BY <3>3, <3>4
    <2>3. QED
        BY <2>1, <2>2
<1>3. CASE ConfigureCommit
    <2>1. cfgLocal.cfg \in Configs /\ cfgLocal.ca \in CAs
          /\ cfgLocal.ca.path = cfgLocal.cfg.path /\ cfgLocal.td \in TrustDomains
        BY <1>3 DEF ConfigureCommit, IInv, LoadedLocal
    <2>2. config' = [path |-> cfgLocal.cfg.path, td |-> cfgLocal.td]
        BY <1>3, <2>1 DEF ConfigureCommit, Configs
    <2>3. config' # NoConfig /\ upstreamCA' # NoCA
        BY <1>3, <2>1, <2>2, NoCANotCA DEF ConfigureCommit, NoConfig, Configs
    <2>4. QED
        BY <1>3, <2>1, <2>2, <2>3
        DEF ConfigureCommit, IInv, TypeOK, CacheMatchesConfig, LoadedLocal, CAs, Configs
<1>4. CASE Mint
    <2> DEFINE ca == LoadUpstreamCAAndCerts(config)
    <2>0. config # NoConfig
        BY <1>4 DEF Mint
    <2>1. config \in [path : Paths, td : TrustDomains]
        BY <2>0 DEF IInv, TypeOK
    <2>2. ca = NoCA \/ (ca \in CAs /\ ca.path = config.path)
        BY <2>1, LoadResult DEF IInv
    <2>3. CASE ca # NoCA
        <3>1. /\ upstreamCA' = ca /\ certs' = ca.key /\ mintResult' = ca
              /\ UNCHANGED <<disk, config, cfgPc, cfgLocal, writes, configures>>
            BY <1>4, <2>3 DEF Mint, ReloadCA, ReloadedCA
        <3>2. ca \in CAs /\ ca.path = config.path
            BY <2>2, <2>3
        <3>3. ca.key \in Keys
            BY <3>2 DEF CAs
        <3>4. QED
            BY <2>0, <3>1, <3>2, <3>3, NoCANotCA
            DEF IInv, TypeOK, CacheMatchesConfig, LoadedLocal
    <2>4. CASE ca = NoCA
        BY <1>4, <2>4 DEF Mint, ReloadCA, ReloadedCA, IInv, TypeOK, CacheMatchesConfig, LoadedLocal
    <2>5. QED
        BY <2>3, <2>4
<1>5. CASE UNCHANGED vars
    BY <1>5 DEF vars, IInv, TypeOK, CacheMatchesConfig, LoadedLocal
<1>6. QED
    BY <1>1, <1>2, <1>3, <1>4, <1>5 DEF Next

(* Configure's unlocked load, its commit, Mint's reload-or-fallback and    *)
(* rewrites of the CA files never leave the plugin configured without a    *)
(* cached CA, or with one loaded from other files or paired with another   *)
(* certificate (CacheMatchesConfig, checked by upstreamca_safety).         *)
THEOREM CacheMatchesConfigInvariant == Spec => []CacheMatchesConfig
<1>1. Spec => []IInv
    BY InitIInv, IInvStep, PTL DEF Spec
<1>2. QED
    BY <1>1, PTL DEF IInv

(* Every reachable plugin state is well typed; in particular a committed  *)
(* config always carries a real trust domain (TypeOK).                    *)
THEOREM UpstreamTypeCorrect == Spec => []TypeOK
<1>1. Spec => []IInv
    BY InitIInv, IInvStep, PTL DEF Spec
<1>2. QED
    BY <1>1, PTL DEF IInv

=============================================================================
