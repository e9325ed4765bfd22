------------------------------ MODULE MCStreamer ------------------------------
(* Small instances of PoolStreamer.                                           *)
EXTENDS PoolStreamer, TLC

CONSTANTS p1, p2

HandlerSymmetry == Permutations(Tasks)

Base(p) == [type |-> "account", p |-> p, side |-> "a", idx |-> 0, cur |-> 0,
            mints |-> TRUE, res |-> FALSE]
Account(p, t)     == [Base(p) EXCEPT !.cur = t]
AccountNoMints(p) == [Base(p) EXCEPT !.mints = FALSE]
Discovery(p, m)   == [Base(p) EXCEPT !.type = "discovery", !.mints = m]
Boot(p)           == [Base(p) EXCEPT !.type = "boot"]
TokenOf(p, s)     == [Base(p) EXCEPT !.type = "token", !.side = s]
ArrayAt(p, i)     == [Base(p) EXCEPT !.type = "array", !.idx = i]
Block             == [Base(p1) EXCEPT !.type = "block"]

One  == {p1}
Zero == {0}
None == {}

\* A constant-product pool: every way to register it, and a vault event.
CpKind   == [p \in One |-> "cp"]
Span1    == [p \in Pools |-> 1]
Radius0  == [p \in Pools |-> 0]
CpFeed   == {Account(p1, 0), Boot(p1), TokenOf(p1, "a")}

\* The same pool discovered before its account is seen, with and without its mints,
\* and block metadata.
LiveFeed == {Account(p1, 0), AccountNoMints(p1), Discovery(p1, TRUE),
             Discovery(p1, FALSE), TokenOf(p1, "b"), Block}

\* Block metadata only.
BlockFeed == {Block}

\* A Raydium CLMM pool of three arrays of one tick each; the windows around its two
\* ticks share the array in the middle, which the stream brings too.
ClmmKind  == [p \in One |-> "clmm"]
Radius1   == [p \in Pools |-> 1]
EndTicks  == {0, 2}
ThreeArrays == 0..2
EndsOnChain == Pools \X {0, 2}
ClmmFeed  == {Account(p1, 0), Account(p1, 2), ArrayAt(p1, 1)}

\* With it a DLMM pool: three arrays around bin 1, asked for in calls of two.
Two      == {p1, p2}
TwoKinds == [p \in Pools |-> IF p = p1 THEN "cp" ELSE "dlmm"]
TwoRadii == [p \in Pools |-> IF p = p1 THEN 0 ELSE 1]
TwoTicks == {0, 1}
ThreeOnChain == {p2} \X ThreeArrays
DlmmFeed == {Account(p2, 1), TokenOf(p2, "a"), ArrayAt(p2, 1)}
BothFeed == LiveFeed \cup DlmmFeed

\* Bound: the events of a behaviour are about one of the two.
Touched(p) ==
  \/ p \in cached \/ discovered[p] # "no"
  \/ \E t \in Tasks : ~At(t, "idle") /\ PoolOf(t) = p
OnePool == ~(Touched(p1) /\ Touched(p2))
=============================================================================
