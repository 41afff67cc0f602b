---------------------------- MODULE WitMintProofs ----------------------------
(***************************************************************************)
(* Proofs about the wit mint command (WitMint.tla).  The main lemma says   *)
(* what ttlToSeconds computes for every Duration of zero or more, for all  *)
(* widths with (TtlHalf + 2) * Second <= DurationHalf (in the code,        *)
(* (2^31 + 2) * 10^9 <= 2^63): the ceiling of the TTL in seconds when that *)
(* fits an int32, an error otherwise, including where the rounding sum    *)
(* ttl + Second - 1 wraps around.                                          *)
(***************************************************************************)
EXTENDS WitMint, FiniteSetTheorems, TLAPS

USE WitMintConstAssumption

(* Floor division by a positive number brackets its dividend.             *)
LEMMA DivBounds ==
    ASSUME NEW a \in Int, NEW b \in Nat \ {0}
    PROVE  /\ (a \div b) * b <= a
           /\ a < (a \div b) * b + b
           /\ a \div b \in Int
BY SMT

(* Multiplying by a positive number preserves strict order.               *)
LEMMA MulLess ==
    ASSUME NEW a \in Int, NEW b \in Int, NEW s \in Nat \ {0},
           a * s < b * s
    PROVE  a < b
BY SMT

(* The ceiling of d / Second is the one n with (n-1) seconds < d <= n     *)
(* seconds: CeilSeconds(d) is (d + Second - 1) \div Second.               *)
LEMMA CeilIs ==
    ASSUME NEW d \in 0 .. DurationHalf - 1
    PROVE  CeilSeconds(d) = (d + Second - 1) \div Second
<1> DEFINE c == (d + Second - 1) \div Second
<1>1. /\ c \in Int
      /\ c * Second <= d + Second - 1
      /\ d + Second - 1 < c * Second + Second
  BY DivBounds
<1>2. (c - 1) * Second < d /\ d <= c * Second
  BY <1>1, SMT
<1>3. c \in -DurationHalf .. DurationHalf
  <2>1. c >= 0
    <3>1. 0 * Second < c * Second + Second
      BY <1>1, SMT
    <3>2. -1 < c
      BY <3>1, MulLess, SMT
    <3> QED BY <3>2, <1>1, SMT
  <2>2. c <= DurationHalf
    <3>1. (c - 1) * Second < DurationHalf * Second
      BY <1>2, SMT
    <3>2. c - 1 < DurationHalf
      BY <3>1, <1>1, MulLess, SMT
    <3> QED BY <3>2, <1>1, SMT
  <2> QED BY <2>1, <2>2, <1>1, SMT
<1>4. ASSUME NEW n \in -DurationHalf .. DurationHalf,
             (n - 1) * Second < d, d <= n * Second
      PROVE  n = c
  <2>1. (n - 1) * Second < c * Second
    BY <1>2, <1>4, SMT
  <2>2. (c - 1) * Second < n * Second
    BY <1>2, <1>4, SMT
  <2>3. n - 1 < c /\ c - 1 < n
    BY <2>1, <2>2, <1>1, MulLess, SMT
  <2> QED BY <2>3, <1>1, SMT
<1> QED BY <1>2, <1>3, <1>4 DEF CeilSeconds

(* One second fits the Duration range with the int32 range to spare.      *)
LEMMA SecondFits ==
    /\ Second <= DurationHalf
    /\ (TtlHalf + 1) * Second + Second <= DurationHalf
BY SMT

(* ttlToSeconds of a Duration of zero or more is its ceiling in seconds  *)
(* when that fits an int32, and the CheckedCast error otherwise.  When    *)
(* the rounding sum wraps around, the quotient is a large negative        *)
(* number, which the cast rejects as the ceiling is out of range too.     *)
LEMMA TtlToSecondsNonNegative ==
    ASSUME NEW d \in 0 .. DurationHalf - 1
    PROVE  TtlToSeconds(d) = IF CeilSeconds(d) \in IntOf(TtlHalf)
                               THEN {CeilSeconds(d)} ELSE {}
<1> DEFINE x == d + Second - 1
           c == x \div Second
           w == Wrap(x, DurationHalf)
           q == GoDiv(w, Second)
<1>1. CeilSeconds(d) = c
  BY CeilIs
<1>2. /\ c \in Int
      /\ c * Second <= x
      /\ x < c * Second + Second
  BY DivBounds
<1>3. TtlToSeconds(d) = IF q \in IntOf(TtlHalf) THEN {q} ELSE {}
  BY DEF TtlToSeconds
<1>4. CASE x < DurationHalf
  <2>1. w = x
    BY <1>4 DEF Wrap
  <2>2. q = c
    BY <2>1 DEF GoDiv
  <2> QED BY <1>1, <1>3, <2>2
<1>5. CASE x >= DurationHalf
  <2>1. w = x - 2 * DurationHalf
    BY <1>5, SecondFits DEF Wrap
  <2> DEFINE m == 2 * DurationHalf - x
  <2>2. q = -(m \div Second)
    BY <2>1, SecondFits DEF GoDiv
  <2>3. (TtlHalf + 1) * Second <= m
    BY SecondFits, SMT
  <2>4. /\ m \div Second \in Int
        /\ m < (m \div Second) * Second + Second
    BY DivBounds, SMT
  <2>5. TtlHalf + 1 <= m \div Second
    <3>1. (TtlHalf + 1) * Second < (m \div Second + 1) * Second
      BY <2>3, <2>4, SMT
    <3>2. TtlHalf + 1 < m \div Second + 1
      BY <3>1, <2>4, MulLess
    <3> QED BY <3>2, <2>4, SMT
  <2>6. q \notin IntOf(TtlHalf)
    BY <2>2, <2>4, <2>5 DEF IntOf
  <2>7. c \notin IntOf(TtlHalf)
    <3>1. TtlHalf * Second < c * Second
      BY <1>2, <1>5, SecondFits, SMT
    <3>2. TtlHalf < c
      BY <3>1, <1>2, MulLess
    <3> QED BY <3>2 DEF IntOf
  <2> QED BY <1>1, <1>3, <2>6, <2>7
<1> QED BY <1>4, <1>5

(* Past the TTL check, every return of Run sends the converted TTL or     *)
(* none, and none of them is the TTL error.                               *)
LEMMA MintRunPastTtl ==
    ASSUME NEW i \in Inputs, i.spiffeID = "valid", TtlToSeconds(i.ttl) # {}
    PROVE  /\ MintRun(i).ttl \in {{}, TtlToSeconds(i.ttl)}
           /\ MintRun(i).err # "invalid value for TTL"
<1> DEFINE ttl == TtlToSeconds(i.ttl)
           fail(e) == [NoOutput EXCEPT !.err = e]
           sent(e) == [NoOutput EXCEPT !.err = e, !.ttl = ttl]
           done(p) == [err |-> "none", ttl |-> ttl, printed |-> p,
                       warnings |-> ValidateTokenWarnings(i)]
<1>1. CASE i.failAt = "keygen"
  <2>1. MintRun(i) = fail("could not generate key pair")
    BY <1>1 DEF MintRun
  <2> QED BY <2>1 DEF NoOutput
<1>2. CASE i.failAt = "marshal"
  <2>1. MintRun(i) = fail("could not marshal key pair")
    BY <1>2 DEF MintRun
  <2> QED BY <2>1 DEF NoOutput
<1>3. CASE i.failAt = "rpc"
  <2>1. MintRun(i) = sent("unable to mint SVID")
    BY <1>3 DEF MintRun
  <2> QED BY <2>1 DEF NoOutput
<1>4. CASE i.failAt \notin {"keygen", "marshal", "rpc"} /\ i.token.kind = "empty"
  <2>1. MintRun(i) = sent("server response missing token")
    BY <1>4 DEF MintRun
  <2> QED BY <2>1 DEF NoOutput
<1>5. CASE i.failAt \notin {"keygen", "marshal", "rpc"} /\ i.token.kind # "empty"
           /\ i.write = ""
  <2>1. MintRun(i) = done("stdout")
    BY <1>5 DEF MintRun
  <2> QED BY <2>1
<1>6. CASE i.failAt = "writefile" /\ i.token.kind # "empty" /\ i.write # ""
  <2>1. MintRun(i) = [done("nothing") EXCEPT !.err = "unable to write token"]
    BY <1>6 DEF MintRun
  <2> QED BY <2>1
<1>7. CASE i.failAt = "none" /\ i.token.kind # "empty" /\ i.write # ""
  <2>1. MintRun(i) = done("file")
    BY <1>7 DEF MintRun
  <2> QED BY <2>1
<1>8. i.failAt \in {"none", "keygen", "marshal", "rpc", "writefile"}
  BY Zenon DEF Inputs
<1> QED BY <1>1, <1>2, <1>3, <1>4, <1>5, <1>6, <1>7, <1>8

(* For a valid SPIFFE ID and a TTL of zero or more, Run sends the TTL's   *)
(* ceiling in seconds, or refuses it exactly when that is not an int32.   *)
LEMMA MintRunTtl ==
    ASSUME NEW i \in Inputs, i.spiffeID = "valid", i.ttl >= 0
    PROVE  /\ MintRun(i).ttl \subseteq {CeilSeconds(i.ttl)}
           /\ (MintRun(i).err = "invalid value for TTL")
                  <=> (CeilSeconds(i.ttl) \notin IntOf(TtlHalf))
<1> DEFINE ttl == TtlToSeconds(i.ttl)
<1>1. i.ttl \in 0 .. DurationHalf - 1
  <2>1. i.ttl \in Durations
    BY Zenon DEF Inputs
  <2> QED BY <2>1 DEF Durations, IntOf
<1>2. ttl = IF CeilSeconds(i.ttl) \in IntOf(TtlHalf)
              THEN {CeilSeconds(i.ttl)} ELSE {}
  BY <1>1, TtlToSecondsNonNegative
<1>3. CASE CeilSeconds(i.ttl) \in IntOf(TtlHalf)
  <2>1. ttl # {} /\ ttl = {CeilSeconds(i.ttl)}
    BY <1>2, <1>3
  <2> QED BY <2>1, <1>3, MintRunPastTtl
<1>4. CASE CeilSeconds(i.ttl) \notin IntOf(TtlHalf)
  <2>1. ttl = {}
    BY <1>2, <1>4
  <2>2. MintRun(i) = [NoOutput EXCEPT !.err = "invalid value for TTL"]
    BY <2>1 DEF MintRun
  <2> QED BY <2>2, <1>4 DEF NoOutput
<1> QED BY <1>3, <1>4

(* The inductive invariant: the input is fixed, and the output is either  *)
(* still empty or what Run returns for it.                                *)
IInv == in \in Inputs /\ (out = NoOutput \/ out = MintRun(in))

LEMMA InitIInv == Init => IInv
BY DEF Init, IInv

LEMMA IInvStep == IInv /\ [Next]_vars => IInv'
BY DEF IInv, Next, Run, vars

LEMMA IInvCeiling == IInv => NonNegativeTtlIsCeiling
BY MintRunTtl DEF IInv, NonNegativeTtlIsCeiling, TtlRule

(* For every width that holds the int32 range with two seconds to spare,  *)
(* wit mint sends a TTL of zero or more as its ceiling in seconds and     *)
(* refuses it exactly when that ceiling is not an int32: ttlToSeconds's   *)
(* rounding, its wrap-around and its checked cast, for all inputs.        *)
THEOREM TtlCeilingInvariant == Spec => []NonNegativeTtlIsCeiling
BY InitIInv, IInvStep, IInvCeiling, PTL DEF Spec

====
