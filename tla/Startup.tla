------------------------------- MODULE Startup --------------------------------
(* The first seconds of full_pipeline: the bootstrap fills the cache while the      *)
(* stream writes it and the scanner, not yet armed, throws updates away.           *)
EXTENDS Bootstrap, ArbStream

\* What a pool is does not change: its mints, its DEX and the kind of its math.
Entry(e) ==
  /\ {"a", "b", "dex", "math", "slot", "listed"} \subseteq DOMAIN e /\ "kind" \in DOMAIN e.math
  /\ e.math.kind = "cp" => {"a", "b"} \subseteq DOMAIN e.math
  /\ e.math.kind = "dlmm" => "arrays" \in DOMAIN e.math
Alike(e, f) ==
  Entry(e) /\ e.a = f.a /\ e.b = f.b /\ e.dex = f.dex /\ e.math.kind = f.math.kind

ASSUME StartupAssumption ==
  /\ IsFiniteSet(Pools) /\ BootPools \subseteq Pools
  /\ \A p \in Pools : Alike(Found(p), Found(p)) /\ Found(p).math.kind # "none"
  /\ \A w \in Arrivals : w.part = "account" =>
       /\ Alike(w.entry, Found(w.pool))
       /\ w.entry.math.kind = "cp" => w.entry.math.a \in Nat /\ w.entry.math.b \in Nat

VARIABLES
  watch,      \* history: for two pools, "done" when compared as they are now, "due" when a
              \* change's update still waits, "missed" when it went unnoticed
  undone      \* history: the pools that a handler's insert emptied

Couples == {{p, q} : p, q \in Pools} \ {{p} : p \in Pools}

vars == <<cache, updates, opps, ready, scanVars, boot, streamVars, watch, undone>>

Init ==
  ArbStreamInit /\ BootInit /\ watch = [c \in Couples |-> "done"] /\ undone = {}

Pending(p) == p \in Range(updates') \cup Range(task'.batch)

Changed(c) == {p \in c : cache'[p] # cache[p]}

\* An update is thrown away: the scanner is not armed, or its pool is not there yet.
Tossed(c) ==
  /\ task.batch # <<>> /\ task'.batch = Tail(task.batch) /\ task'.trig = NoTrigger
  /\ Head(task.batch) \in c /\ (~ready \/ cache[Head(task.batch)] = Absent)

\* A comparison uses both pools as they are.
Met(c) ==
  /\ task.trig \in c /\ task.todo # task'.todo
  /\ c \ {task.trig} \subseteq task.todo \ task'.todo
  /\ task.a = cache[task.trig]

Watching ==
  watch' = [c \in Couples |->
    IF Changed(c) # {} THEN (IF \E p \in Changed(c) : Pending(p) THEN "due" ELSE "missed")
    ELSE IF Met(c) THEN "done"
    ELSE IF Tossed(c) /\ watch[c] = "due" THEN "missed" ELSE watch[c]]

\* A pool that had a balance, or arrays, has none.
Emptied(old, new) ==
  \/ old.kind = "cp" /\ ((old.a > 0 /\ new.a = 0) \/ (old.b > 0 /\ new.b = 0))
  \/ old.kind = "dlmm" /\ old.arrays # {} /\ new.arrays = {}

Undoing ==
  undone' = IF Shown THEN undone \cup {p \in Pools : Emptied(cache[p].math, cache'[p].math)}
            ELSE undone

Next ==
  /\ \/ ScannerStep /\ UNCHANGED <<boot, streamVars>>
     \/ BootNext /\ UNCHANGED streamVars
     \/ Stream /\ UNCHANGED boot
  /\ Watching /\ Undoing

Spec == Init /\ [][Next]_vars

-----------------------------------------------------------------------------

\* When nothing is under way, every two priced pools of a token whose last change was
\* noticed have been compared as they are now: a pool that changes after it was read for
\* a comparison is compared again (arb_scanner.rs:122 and 139).
SeenLast ==
  (ready /\ updates = <<>> /\ task = Resting) =>
    \A p, q \in Pools :
      (p # q /\ Priced(cache[p]) /\ Priced(cache[q]) /\ TokenOf(cache[p]) = TokenOf(cache[q]))
        => watch[{p, q}] # "due"

\* When the scanner is armed the bootstrap's pools are complete, but for failed calls and
\* for pools that the insert of a handler emptied, which had met them before they were
\* registered: balances for constant product; arrays where the bootstrap brought a pool
\* of another DEX with one of its mints, whatever the order of the queries
\* (bootstrap.rs:183 and 259, streamer.rs:392).
Mints(e) == {e.a, e.b}
ArmedComplete ==
  boot.phase = "armed" =>
    \A p \in BootPools \ (boot.failed \cup undone) :
      /\ cache[p].math.kind = "cp" => cache[p].math.a > 0 /\ cache[p].math.b > 0
      /\ cache[p].math.kind = "dlmm" /\ cache[p].math.arrays = {} =>
           \A q \in BootPools \ boot.failed :
             Mints(cache[q]) \cap Mints(cache[p]) # {} => cache[q].dex = cache[p].dex
=============================================================================
