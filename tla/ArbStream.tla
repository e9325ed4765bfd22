------------------------------ MODULE ArbStream -------------------------------
(* The stream's side of full_pipeline as the scanner meets it: pool accounts and    *)
(* vault balances arrive, and each that writes the cache sends an update.  A pool    *)
(* that is not known yet gets a handler of its own, which fetches what the insert    *)
(* needs while everything else goes on.  PoolStreamer models the handlers and the    *)
(* accounts of tick and bin arrays.                                                 *)
EXTENDS ArbScanner

CONSTANT Feeds      \* the sequences of events the stream may bring

\* An event is of a pool's account, with the state that is made of it, or of one of its
\* vaults, with a balance.
Arrivals ==
  {w \in UNION {Range(f) : f \in Feeds} : w.pool \in Pools /\ w.part \in {"account", "a", "b"}}

ASSUME FeedsAssumption == Feeds \subseteq Seq(Arrivals)

VARIABLES
  feed,       \* what the stream will bring
  arriving    \* the handlers of unknown pools, [of, said]: whether the update was sent

streamVars == <<feed, arriving>>

ArbStreamInit ==
  /\ cache = [p \in Pools |-> Absent] /\ updates = <<>> /\ opps = <<>>
  /\ ScannerInit /\ feed \in Feeds /\ arriving = {}

-----------------------------------------------------------------------------

Brings(parts) == feed # <<>> /\ Head(feed).part \in parts /\ feed' = Tail(feed)

NonZero(n, else) == IF n # 0 THEN n ELSE else

\* update_math: the balances stay where the account has none, which is the rule, and the
\* arrays and the fee that came from other accounts.  The scanner reads no limits.
Merged(old, new) ==
  CASE new.kind = "cp"   -> [old EXCEPT !.a = NonZero(new.a, @), !.b = NonZero(new.b, @)]
    [] new.kind = "clmm" -> [new EXCEPT !.arrays = old.arrays, !.fee = NonZero(@, old.fee)]
    [] new.kind = "dlmm" -> [new EXCEPT !.arrays = old.arrays]
    [] OTHER -> new
Updated(e, new) == [e EXCEPT !.math = Merged(@, new.math), !.slot = new.slot]

\* The account of a known pool: state and update under the pool's lock.
StreamWrites ==
  /\ Brings({"account"})
  /\ LET w == Head(feed)
     IN  /\ cache[w.pool] # Absent
         /\ cache' = [cache EXCEPT ![w.pool] = Updated(@, w.entry)]
         /\ updates' = Offered(updates, UpdateCap, w.pool)
  /\ UNCHANGED <<opps, ready, scanVars, arriving>>

\* The balance of a vault; before the pool is shown it is lost.
StreamBalances ==
  /\ Brings({"a", "b"})
  /\ LET w == Head(feed)
     IN  IF cache[w.pool] = Absent THEN UNCHANGED <<cache, updates>>
         ELSE /\ cache' = [cache EXCEPT ![w.pool] = WithBalance(@, w.part, w.balance, w.slot)]
              /\ updates' = Offered(updates, UpdateCap, w.pool)
  /\ UNCHANGED <<opps, ready, scanVars, arriving>>

\* The account of a pool that is not known: its handler begins.
StreamMeets ==
  /\ Brings({"account"}) /\ cache[Head(feed).pool] = Absent
  /\ arriving' = arriving \cup {[of |-> Head(feed), said |-> FALSE]}
  /\ UNCHANGED <<cache, updates, opps, ready, scanVars>>

\* insert sends the update first and shows the pool last, over whatever was shown in the
\* meantime.
StreamInserts(h) ==
  /\ ~h.said /\ arriving' = (arriving \ {h}) \cup {[h EXCEPT !.said = TRUE]}
  /\ updates' = Offered(updates, UpdateCap, h.of.pool)
  /\ UNCHANGED <<cache, opps, ready, scanVars, feed>>

StreamShows(h) ==
  /\ h.said /\ arriving' = arriving \ {h}
  /\ cache' = [cache EXCEPT ![h.of.pool] = h.of.entry]
  /\ UNCHANGED <<updates, opps, ready, scanVars, feed>>

Shown  == \E h \in arriving : StreamShows(h)
Stream == StreamWrites \/ StreamBalances \/ StreamMeets \/ Shown \/ \E h \in arriving : StreamInserts(h)
=============================================================================
