------------------------ MODULE ExpiryCacheContract ------------------------
(***************************************************************************)
(* What the cache promises its callers: a map from keys to the last value *)
(* Set with its expiry, from which Get returns the stored value of a key  *)
(* when it has not expired, or a miss.  A cache may drop entries, so Get *)
(* may miss and may drop any entries as it goes; it never returns a value *)
(* that was overwritten, deleted, dropped or has expired.                *)
(***************************************************************************)
EXTENDS ExpiryCacheBase

CONSTANT Clients    \* goroutines calling Get

VARIABLES
    store,     \* key -> the entry the cache may still answer with
    now,       \* the clock
    result     \* client -> outcome of its last Get: a value, "miss" or "none"

Results == Values \cup {"miss", "none"}

Init ==
    /\ store = [k \in Keys |-> NoEntry]
    /\ now \in Time
    /\ result = [c \in Clients |-> "none"]

Tick ==
    /\ now < MaxTime
    /\ now' = now + 1
    /\ UNCHANGED <<store, result>>

Set(k, v, x) ==
    /\ store' = [store EXCEPT ![k] = [value |-> v, expiry |-> x]]
    /\ UNCHANGED <<now, result>>

Delete(k) ==
    /\ store' = [store EXCEPT ![k] = NoEntry]
    /\ UNCHANGED <<now, result>>

(* Get(k) by c: the stored value if it is live, or a miss, dropping any  *)
(* set of entries.                                                        *)
Get(c, k) ==
    /\ \E drop \in SUBSET Keys :
          store' = [j \in Keys |-> IF j \in drop THEN NoEntry ELSE store[j]]
    /\ \/ result' = [result EXCEPT ![c] = "miss"]
       \/ /\ store[k] # NoEntry
          /\ ~IsExpiredAt(store[k], now)
          /\ result' = [result EXCEPT ![c] = store[k].value]
    /\ UNCHANGED now

Next ==
    \/ Tick
    \/ \E k \in Keys, v \in Values, x \in Time : Set(k, v, x)
    \/ \E k \in Keys : Delete(k)
    \/ \E c \in Clients, k \in Keys : Get(c, k)

Spec == Init /\ [][Next]_<<store, now, result>>

=============================================================================
