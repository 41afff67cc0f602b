---------------------------- MODULE ExpiryCache ----------------------------
(***************************************************************************)
(* The generational expiry cache Cache[Key, Value] of package cache       *)
(* (src/cmd/spire-server/cli/wit/mint.go, lines 157-258).                  *)
(*                                                                         *)
(* Set, Delete and the second half of Get run under c.mtx.Lock(); the     *)
(* first half of Get runs under c.mtx.RLock().  Each critical section is *)
(* one step; a Get releases the read lock and takes the write lock in     *)
(* two steps, between which any other operation and the clock may run.   *)
(* The clock (clk) is a shared counter that any step may advance.         *)
(***************************************************************************)
EXTENDS ExpiryCacheBase

CONSTANTS
    Clients,      \* goroutines calling Get
    GCInterval    \* 10*time.Second, in clock ticks

ASSUME GCAssumption == GCInterval \in Nat \ {0}

VARIABLES
    current,    \* c.current: key -> entry, NoEntry when absent
    previous,   \* c.previous
    lastGC,     \* c.lastGC
    now,        \* clk.Now()
    pc,         \* client -> "idle" or "locking" (between RUnlock and Lock)
    gkey,       \* client -> the key of its Get
    result      \* client -> outcome of its last Get: a value, "miss" or "none"

vars == <<current, previous, lastGC, now, pc, gkey, result>>

Results == Values \cup {"miss", "none"}

(* An empty map.                                                           *)
EmptyMap == [k \in Keys |-> NoEntry]

(* Go's delete(m, k).                                                      *)
MapDelete(m, k) == [m EXCEPT ![k] = NoEntry]

(* val.IsExpired(c.clk) at the current clock reading.                      *)
IsExpired(e) == IsExpiredAt(e, now)

(* NewCache: both generations empty, lastGC the clock's first reading.    *)
Init ==
    /\ current = EmptyMap
    /\ previous = EmptyMap
    /\ now = 1
    /\ lastGC = now
    /\ pc = [c \in Clients |-> "idle"]
    /\ gkey = [c \in Clients |-> CHOOSE k \in Keys : TRUE]
    /\ result = [c \in Clients |-> "none"]

(* The clock advances.                                                     *)
Tick ==
    /\ now < MaxTime
    /\ now' = now + 1
    /\ UNCHANGED <<current, previous, lastGC, pc, gkey, result>>

(* Get under RLock: a live entry of the current generation is returned;  *)
(* otherwise RUnlock and go for the write lock.                           *)
GetRLocked(c, k) ==
    /\ pc[c] = "idle"
    /\ IF current[k] # NoEntry /\ ~IsExpired(current[k])
         THEN /\ result' = [result EXCEPT ![c] = current[k].value]
              /\ UNCHANGED <<pc, gkey>>
         ELSE /\ pc' = [pc EXCEPT ![c] = "locking"]
              /\ gkey' = [gkey EXCEPT ![c] = k]
              /\ UNCHANGED result
    /\ UNCHANGED <<current, previous, lastGC, now>>

(* The end of a missing Get, from the maps cur and prev it has left:     *)
(* once 10s have passed since lastGC, the current generation becomes the  *)
(* previous one and a new one starts.                                     *)
CollectGarbage(cur, prev) ==
    /\ IF now - lastGC >= GCInterval
         THEN /\ previous' = cur
              /\ current' = EmptyMap
              /\ lastGC' = now
         ELSE /\ previous' = prev
              /\ current' = cur
              /\ UNCHANGED lastGC

(* Mutant: the expired branch returns val.value, ok like the first one.  *)
GetLockedReturnsVal(c) ==
    LET k == gkey[c]
        val == current[k]
    IN
    /\ pc[c] = "locking"
    /\ pc' = [pc EXCEPT ![c] = "idle"]
    /\ IF val # NoEntry /\ ~IsExpired(val)
         THEN /\ result' = [result EXCEPT ![c] = val.value]
              /\ UNCHANGED <<current, previous, lastGC>>
         ELSE /\ CollectGarbage(MapDelete(current, k), previous)
              /\ result' = [result EXCEPT ![c] = val.value]
    /\ UNCHANGED <<now, gkey>>

(* Get under Lock.  val is re-read from c.current.  When the key is       *)
(* absent val is the zero valueWithExpiry, whose expiry time.Time{} is    *)
(* before every clock reading, so the "else if val.IsExpired" branch is   *)
(* taken and the last branch, which looks the key up in c.previous, is   *)
(* reached only if c.current holds a live entry, which the first branch  *)
(* has already returned.                                                  *)
GetLocked(c) ==
    LET k == gkey[c]
        val == current[k]
        pval == previous[k]
    IN
    /\ pc[c] = "locking"
    /\ pc' = [pc EXCEPT ![c] = "idle"]
    /\ IF val # NoEntry /\ ~IsExpired(val)
         THEN /\ result' = [result EXCEPT ![c] = val.value]
              /\ UNCHANGED <<current, previous, lastGC>>
       ELSE IF IsExpired(val)
         THEN /\ CollectGarbage(MapDelete(current, k), previous)
              /\ result' = [result EXCEPT ![c] = "miss"]
       ELSE IF pval # NoEntry /\ ~IsExpired(pval)
         THEN /\ current' = [current EXCEPT ![k] = pval]
              /\ previous' = MapDelete(previous, k)
              /\ result' = [result EXCEPT ![c] = pval.value]
              /\ UNCHANGED lastGC
       ELSE /\ CollectGarbage(current, MapDelete(previous, k))
            /\ result' = [result EXCEPT ![c] = "miss"]
    /\ UNCHANGED <<now, gkey>>

(* Mutant: Set does not drop the key from the previous generation.      *)
SetKeepPrevious(k, v, x) ==
    /\ current' = [current EXCEPT ![k] = [value |-> v, expiry |-> x]]
    /\ UNCHANGED <<previous, lastGC, now, pc, gkey, result>>

(* Set: drop the key from the previous generation, store it in the        *)
(* current one.                                                            *)
Set(k, v, x) ==
    /\ previous' = MapDelete(previous, k)
    /\ current' = [current EXCEPT ![k] = [value |-> v, expiry |-> x]]
    /\ UNCHANGED <<lastGC, now, pc, gkey, result>>

(* Delete: drop the key from both generations.                             *)
Delete(k) ==
    /\ current' = MapDelete(current, k)
    /\ previous' = MapDelete(previous, k)
    /\ UNCHANGED <<lastGC, now, pc, gkey, result>>

Next ==
    \/ Tick
    \/ \E c \in Clients, k \in Keys : GetRLocked(c, k)
    \/ \E c \in Clients : GetLocked(c)
    \/ \E k \in Keys, v \in Values, x \in Time : Set(k, v, x)
    \/ \E k \in Keys : Delete(k)

Spec == Init /\ [][Next]_vars

-----------------------------------------------------------------------------
(* Properties.                                                             *)

(* Every variable has its type; a client waiting for the write lock has  *)
(* a key, and lastGC is a reading the clock has passed.                   *)
TypeOK ==
    /\ current \in [Keys -> Entries \cup {NoEntry}]
    /\ previous \in [Keys -> Entries \cup {NoEntry}]
    /\ now \in Time
    /\ lastGC \in 1..now
    /\ pc \in [Clients -> {"idle", "locking"}]
    /\ gkey \in [Clients -> Keys]
    /\ result \in [Clients -> Results]

(* The entry Get may still answer with: the current generation's, else  *)
(* the previous generation's.                                              *)
StoreView == [k \in Keys |-> IF current[k] # NoEntry THEN current[k] ELSE previous[k]]

Contract == INSTANCE ExpiryCacheContract WITH store <- StoreView

(* Get, Set and Delete, with Get's read-locked and write-locked halves    *)
(* interleaved with everything else, behave as the contract's atomic      *)
(* operations: a hit is the last value Set for the key, not deleted, not *)
(* dropped by a GC and not expired, and no entry ever comes back.         *)
ContractSpec == Contract!Spec

(* The generational design: a Get whose key has a live entry only in the *)
(* previous generation promotes it and returns it (the c.previous branch *)
(* of Get).                                                                *)
PreviousGenerationServed ==
    [][\A c \in Clients :
          LET k == gkey[c] IN
          (/\ pc[c] = "locking" /\ pc'[c] = "idle"
           /\ current[k] = NoEntry
           /\ previous[k] # NoEntry /\ ~IsExpired(previous[k]))
              => result'[c] = previous[k].value]_vars

=============================================================================
