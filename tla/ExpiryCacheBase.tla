-------------------------- MODULE ExpiryCacheBase --------------------------
(***************************************************************************)
(* The data of the generational expiry cache of package cache (its source *)
(* is src/cmd/spire-server/cli/wit/mint.go, lines 157-258): keys, values, *)
(* the clock, and valueWithExpiry.                                         *)
(***************************************************************************)
EXTENDS Naturals

CONSTANTS
    Keys,       \* the Key type parameter
    Values,     \* the *Value pointers stored
    NoValue,    \* the nil *Value of a zero valueWithExpiry
    MaxTime     \* the last clock reading the model reaches

ASSUME CacheConstAssumption ==
    /\ Keys # {}
    /\ NoValue \notin Values
    /\ MaxTime \in Nat \ {0}

(* Clock readings.  0 stands for time.Time{}, which precedes every reading *)
(* of the clock, so readings start at 1.                                   *)
ZeroTime == 0
Time == 1..MaxTime

(* valueWithExpiry; NoEntry is its zero value, what a Go map lookup of an *)
(* absent key yields.  A stored entry always has a real expiry.           *)
Entries == [value : Values, expiry : Time]
NoEntry == [value |-> NoValue, expiry |-> ZeroTime]

(* valueWithExpiry.IsExpired: clk.Now().After(v.expiry).                   *)
IsExpiredAt(e, t) == t > e.expiry

=============================================================================
