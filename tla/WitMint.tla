------------------------------- MODULE WitMint -------------------------------
(***************************************************************************)
(* The `spire-server wit mint` command (src/cmd/spire-server/cli/wit/      *)
(* mint.go, lines 56-150): one invocation of mintCommand.Run, with the     *)
(* server's answer and the failures of the key generator and the file      *)
(* write as inputs.                                                        *)
(*                                                                         *)
(* Integers keep their widths: a time.Duration is a two's-complement      *)
(* count of ticks in -DurationHalf .. DurationHalf-1, Second ticks make a *)
(* second, and the request's TTL is in -TtlHalf .. TtlHalf-1.  The code   *)
(* has 2^63, 10^9 and 2^31; the runs scale them down keeping TtlHalf + 2  *)
(* seconds within DurationHalf ticks, as in the code.                      *)
(***************************************************************************)
EXTENDS Integers, FiniteSets

CONSTANTS
    DurationHalf, \* 2^63: time.Duration is an int64
    Second,       \* time.Second in Duration ticks (10^9)
    TtlHalf,      \* 2^31: the request's Ttl is an int32
    Lifetimes     \* time until a token's expiry, as Durations

ASSUME WitMintConstAssumption ==
    /\ DurationHalf \in Nat \ {0} /\ TtlHalf \in Nat \ {0}
    /\ Second \in Nat \ {0}
    /\ (TtlHalf + 2) * Second <= DurationHalf
    /\ Lifetimes \subseteq Int

VARIABLES
    in,  \* the invocation: flags, and what the environment will answer
    out  \* what Run did: NoOutput until it has returned

vars == <<in, out>>

(* Two's-complement integers of the width of half-range h, and Go's      *)
(* wrapping arithmetic on them.                                           *)
IntOf(h) == -h .. (h - 1)
Wrap(x, h) == ((x + h) % (2 * h)) - h
(* Go's integer division truncates toward zero.                           *)
GoDiv(a, b) == IF a >= 0 THEN a \div b ELSE -((-a) \div b)

Durations == IntOf(DurationHalf)

(* Mutant: the division without the rounding term.                        *)
TtlToSecondsTruncating(ttl) ==
    LET q == GoDiv(ttl, Second)
    IN  IF q \in IntOf(TtlHalf) THEN {q} ELSE {}

(* ttlToSeconds: (ttl + time.Second - 1) / time.Second in Duration          *)
(* arithmetic, then util.CheckedCast[int32], which fails out of range;    *)
(* {} is the error, {n} the result n.                                      *)
TtlToSeconds(ttl) ==
    LET q == GoDiv(Wrap(ttl + Second - 1, DurationHalf), Second)
    IN  IF q \in IntOf(TtlHalf) THEN {q} ELSE {}

(* getWITSVIDEndOfLife: a token that does not parse or has no exp claim   *)
(* has no end of life; otherwise time.Until(eol) is its lifetime.         *)
Tokens == [kind : {"empty", "unparsable", "noexpiry"}, lifetime : {0}]
          \cup [kind : {"exp"}, lifetime : Lifetimes]
HasEndOfLife(t) == t.kind = "exp"

Inputs == [spiffeID : {"", "invalid", "valid"},
           ttl      : Durations,
           write    : {"", "path"},
           failAt   : {"none", "keygen", "marshal", "rpc", "writefile"},
           token    : Tokens]

NoOutput == [err |-> "none", ttl |-> {}, printed |-> "nothing", warnings |-> {}]

(* validateToken: an empty token is an error; an unreadable lifetime and a *)
(* lifetime shorter than the flag's TTL are only warned about.             *)
ValidateTokenWarnings(i) ==
    IF ~HasEndOfLife(i.token) THEN {"lifetime unknown"}
    ELSE IF i.token.lifetime < i.ttl THEN {"capped"} ELSE {}

(* mintCommand.Run: the early returns in the order the code meets them.   *)
MintRun(i) ==
    LET ttl == TtlToSeconds(i.ttl)
        fail(e) == [NoOutput EXCEPT !.err = e]
        sent(e) == [NoOutput EXCEPT !.err = e, !.ttl = ttl]
        done(p) == [err |-> "none", ttl |-> ttl, printed |-> p,
                    warnings |-> ValidateTokenWarnings(i)]
    IN  IF i.spiffeID = "" THEN fail("spiffeID must be specified")
        ELSE IF i.spiffeID = "invalid" THEN fail("spiffeid.FromString")
        ELSE IF ttl = {} THEN fail("invalid value for TTL")
        ELSE IF i.failAt = "keygen" THEN fail("could not generate key pair")
        ELSE IF i.failAt = "marshal" THEN fail("could not marshal key pair")
        ELSE IF i.failAt = "rpc" THEN sent("unable to mint SVID")
        ELSE IF i.token.kind = "empty" THEN sent("server response missing token")
        ELSE IF i.write = "" THEN done("stdout")
        ELSE IF i.failAt = "writefile"
             THEN [done("nothing") EXCEPT !.err = "unable to write token"]
        ELSE done("file")

Init ==
    /\ in \in Inputs
    /\ out = NoOutput

(* One invocation of the command, from flag checks to its return.         *)
Run ==
    /\ out = NoOutput
    /\ out' = MintRun(in)
    /\ UNCHANGED in

Next == Run

Spec == Init /\ [][Next]_vars

-----------------------------------------------------------------------------
(* The comment of ttlToSeconds: "the number of seconds in a duration,     *)
(* rounded up to the nearest second": the least n with n seconds >= ttl.   *)
CeilSeconds(ttl) ==
    CHOOSE n \in -DurationHalf .. DurationHalf :
        (n - 1) * Second < ttl /\ ttl <= n * Second

(* A TTL flag of d gets a request for exactly d rounded up to whole       *)
(* seconds, and is refused with "invalid value for TTL" exactly when that *)
(* does not fit an int32 (ranging over all of Durations).                 *)
TtlRule(d) ==
    \/ out = NoOutput
    \/ in.spiffeID # "valid"
    \/ /\ out.ttl \subseteq {CeilSeconds(d)}
       /\ (out.err = "invalid value for TTL") <=> (CeilSeconds(d) \notin IntOf(TtlHalf))

(* For a TTL flag of zero or more, even next to the wrap-around of the    *)
(* Duration sum and past the int32 range.                                 *)
NonNegativeTtlIsCeiling == in.ttl >= 0 => TtlRule(in.ttl)

=============================================================================
