------------------------ MODULE ExpiryCacheProofs --------------------------
(***************************************************************************)
(* Proofs that the expiry cache implements its contract for all keys,     *)
(* values, clients, clock lengths and GC intervals.                        *)
(***************************************************************************)
EXTENDS ExpiryCache, TLAPS

USE CacheConstAssumption, GCAssumption

(* Set deletes the key from c.previous before storing it in c.current, so *)
(* no key is cached in both generations.                                   *)
Disjoint == \A k \in Keys : current[k] = NoEntry \/ previous[k] = NoEntry

Inv == TypeOK /\ Disjoint

-----------------------------------------------------------------------------
(* Facts about the data.                                                   *)

(* The zero valueWithExpiry is expired at every clock reading.             *)
LEMMA ZeroExpired ==
    ASSUME NEW t \in Time PROVE IsExpiredAt(NoEntry, t)
BY DEF IsExpiredAt, NoEntry, Time, ZeroTime

(* A stored entry is never the zero value.                                 *)
LEMMA EntryNotZero ==
    ASSUME NEW e \in Entries PROVE e # NoEntry
BY DEF Entries, NoEntry

(* A map that only loses entries is the old one with a set of keys dropped. *)
LEMMA DropWitness ==
    ASSUME NEW s, NEW t,
           s \in [Keys -> Entries \cup {NoEntry}],
           t \in [Keys -> Entries \cup {NoEntry}],
           \A j \in Keys : t[j] = s[j] \/ t[j] = NoEntry
    PROVE  \E drop \in SUBSET Keys :
              t = [j \in Keys |-> IF j \in drop THEN NoEntry ELSE s[j]]
<1> DEFINE drop == {j \in Keys : t[j] # s[j]}
<1>1. t = [j \in Keys |-> IF j \in drop THEN NoEntry ELSE s[j]]
    OBVIOUS
<1>2. QED
    BY <1>1

-----------------------------------------------------------------------------
(* The invariant.                                                          *)

LEMMA InitInv == Init => Inv
<1> SUFFICES ASSUME Init PROVE Inv
    OBVIOUS
<1>1. (CHOOSE k \in Keys : TRUE) \in Keys
    BY CacheConstAssumption
<1>2. /\ current \in [Keys -> Entries \cup {NoEntry}]
      /\ previous \in [Keys -> Entries \cup {NoEntry}]
      /\ Disjoint
    BY DEF Init, EmptyMap, Disjoint
<1>3. now \in Time /\ lastGC \in 1..now
    BY DEF Init, Time
<1>4. /\ pc \in [Clients -> {"idle", "locking"}]
      /\ gkey \in [Clients -> Keys]
      /\ result \in [Clients -> Results]
    BY <1>1 DEF Init, Results
<1>5. QED
    BY <1>2, <1>3, <1>4 DEF Inv, TypeOK

(* Under the write lock Get takes only two of its four branches: a live    *)
(* current entry is returned, anything else is deleted and missed.        *)
LEMMA GetLockedCases ==
    ASSUME TypeOK, NEW c \in Clients, GetLocked(c)
    PROVE  LET k == gkey[c] IN
           /\ pc[c] = "locking"
           /\ pc' = [pc EXCEPT ![c] = "idle"]
           /\ UNCHANGED <<now, gkey>>
           /\ \/ /\ current[k] # NoEntry /\ ~IsExpired(current[k])
                 /\ result' = [result EXCEPT ![c] = current[k].value]
                 /\ UNCHANGED <<current, previous, lastGC>>
              \/ /\ IsExpired(current[k])
                 /\ CollectGarbage(MapDelete(current, k), previous)
                 /\ result' = [result EXCEPT ![c] = "miss"]
<1> DEFINE k == gkey[c]
<1>1. k \in Keys /\ now \in Time
    BY DEF TypeOK
<1>2. ~(current[k] # NoEntry /\ ~IsExpired(current[k])) => IsExpired(current[k])
    BY <1>1, ZeroExpired DEF IsExpired
<1>3. QED
    BY <1>2 DEF GetLocked
(* Every step keeps the types and the disjointness of the generations.    *)
LEMMA InvStep == Inv /\ [Next]_vars => Inv'
<1> SUFFICES ASSUME Inv, [Next]_vars PROVE Inv'
    OBVIOUS
<1> USE DEF Inv, TypeOK, Disjoint
<1>1. CASE Tick
    BY <1>1 DEF Tick, Time
<1>2. ASSUME NEW c \in Clients, NEW k \in Keys, GetRLocked(c, k) PROVE Inv'
    BY <1>2 DEF GetRLocked, Results, Entries
<1>3. ASSUME NEW c \in Clients, GetLocked(c) PROVE Inv'
    <2> DEFINE k == gkey[c]
    <2>1. k \in Keys
        OBVIOUS
    <2>2. CASE /\ current[k] # NoEntry /\ ~IsExpired(current[k])
               /\ result' = [result EXCEPT ![c] = current[k].value]
               /\ UNCHANGED <<current, previous, lastGC>>
        <3>1. current[k] \in Entries
            BY <2>1, <2>2
        <3>2. QED
            BY <1>3, <2>2, <3>1, GetLockedCases DEF Results, Entries
    <2>3. CASE /\ CollectGarbage(MapDelete(current, k), previous)
               /\ result' = [result EXCEPT ![c] = "miss"]
        <3>1. MapDelete(current, k) \in [Keys -> Entries \cup {NoEntry}]
            BY <2>1 DEF MapDelete
        <3>2. \A j \in Keys : MapDelete(current, k)[j] = NoEntry \/ previous[j] = NoEntry
            BY <2>1 DEF MapDelete
        <3>3. /\ pc' = [pc EXCEPT ![c] = "idle"]
              /\ UNCHANGED <<now, gkey>>
            BY <1>3, GetLockedCases
        <3>4. CASE now - lastGC >= GCInterval
            <4>1. previous' = MapDelete(current, k) /\ current' = EmptyMap /\ lastGC' = now
                BY <2>3, <3>4 DEF CollectGarbage
            <4>2. QED
                BY <2>3, <3>1, <3>3, <4>1 DEF EmptyMap, Results, Time
        <3>5. CASE ~(now - lastGC >= GCInterval)
            <4>1. previous' = previous /\ current' = MapDelete(current, k) /\ lastGC' = lastGC
                BY <2>3, <3>5 DEF CollectGarbage
            <4>2. QED
                BY <2>3, <3>1, <3>2, <3>3, <4>1 DEF Results
        <3>6. QED
            BY <3>4, <3>5
    <2>4. QED
        BY <1>3, <2>2, <2>3, GetLockedCases
<1>4. ASSUME NEW k \in Keys, NEW v \in Values, NEW x \in Time, Set(k, v, x) PROVE Inv'
    BY <1>4 DEF Set, MapDelete, Entries
<1>5. ASSUME NEW k \in Keys, Delete(k) PROVE Inv'
    BY <1>5 DEF Delete, MapDelete
<1>6. CASE UNCHANGED vars
    BY <1>6 DEF vars
<1>7. QED
    BY <1>1, <1>2, <1>3, <1>4, <1>5, <1>6 DEF Next

(* The cache's states are all well typed and its generations disjoint.   *)
THEOREM InvInvariant == Spec => []Inv
BY InitInv, InvStep, PTL DEF Spec
-----------------------------------------------------------------------------
(* Refinement: every step of the cache is a step of its contract under    *)
(* the mapping store <- StoreView, or leaves the contract's state alone.  *)

(* StoreView is a map of entries.                                          *)
LEMMA StoreViewType ==
    ASSUME TypeOK PROVE StoreView \in [Keys -> Entries \cup {NoEntry}]
BY DEF TypeOK, StoreView

(* A hit on a live current entry, with the maps unchanged, is a contract   *)
(* Get that drops nothing.                                                 *)
LEMMA HitRefines ==
    ASSUME TypeOK, NEW c \in Clients, NEW k \in Keys,
           current[k] # NoEntry, ~IsExpired(current[k]),
           result' = [result EXCEPT ![c] = current[k].value],
           UNCHANGED <<current, previous, now>>
    PROVE  Contract!Get(c, k)
<1>1. /\ StoreView' = StoreView
      /\ StoreView \in [Keys -> Entries \cup {NoEntry}]
    BY StoreViewType DEF StoreView
<1>2. StoreView[k] = current[k]
    BY DEF StoreView
<1>3. \E drop \in SUBSET Keys :
         StoreView' = [j \in Keys |-> IF j \in drop THEN NoEntry ELSE StoreView[j]]
    BY <1>1, DropWitness
<1>4. /\ StoreView[k] # NoEntry
      /\ ~IsExpiredAt(StoreView[k], now)
      /\ result' = [result EXCEPT ![c] = StoreView[k].value]
    BY <1>2 DEF IsExpired
<1>5. Contract!NoEntry = NoEntry
    BY DEF Contract!NoEntry, NoEntry, Contract!ZeroTime, ZeroTime
<1>6. \A e, t : Contract!IsExpiredAt(e, t) <=> IsExpiredAt(e, t)
    BY DEF Contract!IsExpiredAt, IsExpiredAt
<1>7. QED
    BY <1>3, <1>4, <1>5, <1>6 DEF Contract!Get

(* A miss that deletes the key from c.current and may then collect       *)
(* garbage only drops entries from StoreView: it is a contract Get.       *)
LEMMA MissRefines ==
    ASSUME Inv, Inv', NEW c \in Clients, NEW k \in Keys,
           CollectGarbage(MapDelete(current, k), previous),
           result' = [result EXCEPT ![c] = "miss"],
           UNCHANGED now
    PROVE  Contract!Get(c, k)
<1>1. \A j \in Keys : StoreView'[j] = StoreView[j] \/ StoreView'[j] = NoEntry
    <2> SUFFICES ASSUME NEW j \in Keys
                 PROVE  StoreView'[j] = StoreView[j] \/ StoreView'[j] = NoEntry
        OBVIOUS
    <2>1. CASE now - lastGC >= GCInterval
        <3>1. previous' = MapDelete(current, k) /\ current' = EmptyMap
            BY <2>1 DEF CollectGarbage
        <3>2. QED
            BY <3>1 DEF StoreView, MapDelete, EmptyMap, Inv, TypeOK
    <2>2. CASE ~(now - lastGC >= GCInterval)
        <3>1. previous' = previous /\ current' = MapDelete(current, k)
            BY <2>2 DEF CollectGarbage
        <3>2. QED
            BY <3>1 DEF StoreView, MapDelete, Inv, TypeOK, Disjoint
    <2>3. QED
        BY <2>1, <2>2
<1>2. StoreView \in [Keys -> Entries \cup {NoEntry}]
      /\ StoreView' \in [Keys -> Entries \cup {NoEntry}]
    BY StoreViewType DEF StoreView, Inv, TypeOK
<1>3. \E drop \in SUBSET Keys :
         StoreView' = [j \in Keys |-> IF j \in drop THEN NoEntry ELSE StoreView[j]]
    BY <1>1, <1>2, DropWitness
<1>4. Contract!NoEntry = NoEntry
    BY DEF Contract!NoEntry, NoEntry, Contract!ZeroTime, ZeroTime
<1>5. QED
    BY <1>3, <1>4 DEF Contract!Get
(* The contract's variables as the cache implements them.                  *)
cvars == <<StoreView, now, result>>

LEMMA InitRefines == Init => Contract!Init
<1> SUFFICES ASSUME Init PROVE Contract!Init
    OBVIOUS
<1>1. StoreView = [k \in Keys |-> Contract!NoEntry]
    BY DEF Init, StoreView, EmptyMap, Contract!NoEntry, NoEntry, Contract!ZeroTime, ZeroTime
<1>2. now \in Contract!Time
    BY DEF Init, Contract!Time
<1>3. QED
    BY <1>1, <1>2 DEF Init, Contract!Init

(* Every step of the cache is a contract step or a contract stutter.      *)
LEMMA RefineStep == Inv /\ [Next]_vars => [Contract!Next]_cvars
<1> SUFFICES ASSUME Inv, [Next]_vars PROVE [Contract!Next]_cvars
    OBVIOUS
<1>0. Inv'
    BY InvStep
<1>1. CASE Tick
    BY <1>1 DEF Tick, Contract!Tick, Contract!Next, StoreView
<1>2. ASSUME NEW c \in Clients, NEW k \in Keys, GetRLocked(c, k)
      PROVE  [Contract!Next]_cvars
    <2>1. CASE current[k] # NoEntry /\ ~IsExpired(current[k])
        <3>1. Contract!Get(c, k)
            BY <1>2, <2>1, HitRefines DEF GetRLocked, Inv
        <3>2. QED
            BY <3>1 DEF Contract!Next
    <2>2. CASE ~(current[k] # NoEntry /\ ~IsExpired(current[k]))
        BY <1>2, <2>2 DEF GetRLocked, cvars, StoreView
    <2>3. QED
        BY <2>1, <2>2
<1>3. ASSUME NEW c \in Clients, GetLocked(c) PROVE [Contract!Next]_cvars
    <2> DEFINE k == gkey[c]
    <2>1. k \in Keys
        BY DEF Inv, TypeOK
    <2>2. Contract!Get(c, k)
        BY <1>0, <1>3, <2>1, GetLockedCases, HitRefines, MissRefines DEF Inv
    <2>3. QED
        BY <2>1, <2>2 DEF Contract!Next
<1>4. ASSUME NEW k \in Keys, NEW v \in Values, NEW x \in Time, Set(k, v, x)
      PROVE  [Contract!Next]_cvars
    <2>1. Contract!Set(k, v, x)
        BY <1>4 DEF Set, Contract!Set, StoreView, MapDelete, Inv, TypeOK, EntryNotZero
    <2>2. QED
        BY <2>1 DEF Contract!Next, Contract!Time, Time
<1>5. ASSUME NEW k \in Keys, Delete(k) PROVE [Contract!Next]_cvars
    <2>1. Contract!Delete(k)
        BY <1>5 DEF Delete, Contract!Delete, StoreView, MapDelete, Inv, TypeOK,
                    Contract!NoEntry, NoEntry, Contract!ZeroTime, ZeroTime
    <2>2. QED
        BY <2>1 DEF Contract!Next
<1>6. CASE UNCHANGED vars
    BY <1>6 DEF vars, cvars, StoreView
<1>7. QED
    BY <1>1, <1>2, <1>3, <1>4, <1>5, <1>6 DEF Next

(* The cache implements its contract: Get, Set and Delete, with Get's two *)
(* locked halves interleaved with all other operations and the clock,     *)
(* behave as atomic contract operations (this is ContractSpec, which the  *)
(* contract run checks on a small instance).                              *)
THEOREM Implementation == Spec => ContractSpec
<1>1. Spec => []Inv
    BY InvInvariant
<1>2. QED
    BY <1>1, InitRefines, RefineStep, PTL DEF Spec, ContractSpec, Contract!Spec, cvars
(* Every reachable cache state is well typed: both generations hold only  *)
(* real entries or the zero value, lastGC never runs ahead of the clock,   *)
(* and each Get's result is a value, a miss or none (TypeOK of the run).   *)
THEOREM CacheTypeCorrect == Spec => []TypeOK
<1>1. Inv => TypeOK
    BY DEF Inv
<1>2. QED
    BY <1>1, InvInvariant, PTL
=============================================================================
