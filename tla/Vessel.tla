------------------------------- MODULE Vessel -------------------------------
(***************************************************************************)
(* One vessel of the strategy engine (engines/strategy/runner.py): its     *)
(* boot, the live loop that reads Redis, decides with Imbalance!on_tick    *)
(* and publishes signals, and the processes it shares Redis with:          *)
(* order_exec, which fills and closes positions and writes the vessel's    *)
(* state; the data pipeline, which writes the option chain; the operator,  *)
(* who enables and disables the vessel; and systemd, which restarts an     *)
(* engine that was killed.                                                 *)
(*                                                                         *)
(* Every Redis read or write that another process can come between is a    *)
(* step of its own.  Strikes are counted in strike steps.  The ready flag  *)
(* is set by init before the engine starts, so BOOT waits for the enabled  *)
(* flag only.  Nobody writes the state HALTED.                             *)
(***************************************************************************)
EXTENDS Imbalance

CONSTANTS
  Strike,        \* strikes the broker lists
  Listed,        \* the tokens whose leaf init wrote into the option chain; the
                 \* broker lists the two sides of a strike together
  Book,          \* the books a leg can show: name -> leg without its time
  Moves,         \* the ticks the market can send, <<token, book name>>
  Spots,         \* the spot prices; the session opens at OpenSpot
  OpenSpot, FirstTs,   \* FirstTs: the time of the first leaves, 0 for none
  StrikeStep, BasketSize, Hysteresis, Cooldown, Window,
  MaxNow, MaxPos,
  Bounds         \* the combinations explored: the books the session opens with,
                 \* and how many ticks, events (shifts of the spot, operator
                 \* toggles and kills together) and fills follow

Side == {"CE", "PE"}
Token == Strike \X Side
States == {"FLAT", "IN_CE", "IN_PE", "COOLDOWN"}
NoSig == <<"none", "none", 0, 0>>
NoRec == [tok |-> NoTok, sig |-> NoSig]

ASSUME VesselAssumption ==
  /\ Strike \subseteq Nat \ {0} /\ Listed \subseteq Token
  /\ \A k \in Strike : <<k, "CE">> \in Listed <=> <<k, "PE">> \in Listed
  /\ Moves \subseteq Listed \X DOMAIN Book
  /\ Spots \subseteq Nat /\ OpenSpot \in Spots /\ FirstTs \in {0, 1}
  /\ StrikeStep \in Nat \ {0} /\ BasketSize \in Nat /\ Hysteresis \in Nat
  /\ Cooldown \in Nat \ {0} /\ Window \in Nat
  /\ MaxNow \in Nat \ {0} /\ MaxPos \in Nat \ {0}
  /\ Bounds \subseteq [open : [Listed -> DOMAIN Book], ticks : Nat, events : Nat,
                      fills : Nat]

VARIABLES
  pc,        \* where the vessel's coroutine is
  rd,        \* the state it read in this iteration
  pid,       \* the position id it read
  mem,       \* memory.held_side and memory.held_token
  basket,    \* memory.basket: atm, its tokens, time of the last shift
  buffers,   \* memory.buffers
  act,       \* the action on_tick returned
  sig,       \* the signal between SET NX and the pipeline
  state, until, cur, rec,    \* Redis: vessel state, cooldown end, position
  enabled,                   \* Redis: the enabled flag
  sigKeys, stream,           \* Redis: strategy:signals:{id} and the stream
  chain, spot,               \* Redis: option chain and spot
  taken, npos, owed,         \* order_exec: signals read, positions, settles due
  now, closed,               \* clock; 15:30 has passed
  ticks, shifts, toggles, kills,  \* how often the environment has acted
  bound                      \* the bounds of this behaviour

memory == <<pid, mem, basket, buffers, act>>
trade == <<state, until, cur, rec>>
market == <<bound, chain, spot, ticks, shifts>>
oe == <<taken, npos, owed>>
ops == <<enabled, toggles, kills>>
clock == <<now, closed>>
vars == <<pc, rd, memory, sig, trade, sigKeys, stream, market, oe, ops, clock>>

InState(side) == IF side = "CE" THEN "IN_CE" ELSE "IN_PE"
SideOf(s) == IF s = "IN_CE" THEN "CE" ELSE "PE"
Down == {"ended", "failed"}
-----------------------------------------------------------------------------
(* basket.py and snapshot.py.                                              *)

\* round(spot / strike_step), a half to the even strike.
compute_atm(p) ==
  LET q == p \div StrikeStep
      twice == 2 * (p % StrikeStep)
  IN IF twice < StrikeStep \/ (twice = StrikeStep /\ q % 2 = 0) THEN q ELSE q + 1

compute_strike_set(atm) == (atm - BasketSize)..(atm + BasketSize)

\* The tokens of the strikes whose leaf is in the chain (_build_token_lookup).
token_lookup(strikes) == {t \in Listed : t[1] \in strikes}

maybe_shift_basket(b) ==
  LET atm == compute_atm(spot)
  IN IF \/ atm = b.atm /\ \E t \in b.toks : t[2] = "CE"
        \/ b.shift # 0 /\ now - b.shift < Hysteresis
       THEN b
       ELSE [atm |-> atm, toks |-> token_lookup(compute_strike_set(atm)), shift |-> now]

\* A leg as the chain's leaf for the token describes it (_build_leg).
build_leg(t) ==
  LET b == Book[chain[t].book]
  IN [ltp |-> b.ltp, bid |-> b.bid, ask |-> b.ask, bid_qty |-> b.bid_qty,
      ask_qty |-> b.ask_qty, total_bid |-> b.total_bid, total_ask |-> b.total_ask,
      ts |-> chain[t].ts]

\* The slip: the held leg is not pinned.
SnapshotOfBasket(b) == [t \in b.toks |-> build_leg(t)]

\* The leaf of the held side and strike is pinned into the snapshot, with its
\* own token: when memory has the token of the other side, that one is not in.
Pinned == IF mem.side = "none" \/ mem.tok = NoTok THEN {} ELSE {<<mem.tok[1], mem.side>>}
build_snapshot(b) == [t \in b.toks \cup Pinned |-> build_leg(t)]
-----------------------------------------------------------------------------
NoBasket == [atm |-> 0, toks |-> {}, shift |-> 0]
NotHeld == [side |-> "none", tok |-> NoTok]
NoBuffers == [t \in Listed |-> <<>>]

Init ==
  /\ pc = "boot_read" /\ rd = "FLAT" /\ sig = NoSig
  /\ pid = 0 /\ mem = NotHeld /\ basket = NoBasket /\ buffers = NoBuffers /\ act = NoOp
  /\ state = "FLAT" /\ until = 0 /\ cur = 0 /\ rec = [p \in 1..MaxPos |-> NoRec]
  /\ sigKeys = {} /\ stream = <<>>
  /\ bound \in Bounds /\ spot = OpenSpot
  /\ chain = [t \in Listed |-> [book |-> bound.open[t], ts |-> FirstTs]]
  /\ ticks = 0 /\ shifts = 0
  /\ taken = 0 /\ npos = 0 /\ owed = 0
  /\ enabled \in BOOLEAN /\ toggles = 0 /\ kills = 0
  /\ now = 1 /\ closed = FALSE

Eventful == shifts + toggles + kills < bound.events
Goto(from, to) == pc = from /\ pc' = to

\* The task is over and its memory is gone.
MemoryGone ==
  /\ sig' = NoSig /\ rd' = "FLAT" /\ pid' = 0 /\ mem' = NotHeld
  /\ basket' = NoBasket /\ buffers' = NoBuffers /\ act' = NoOp
-----------------------------------------------------------------------------
(* The vessel's coroutine (vessel_loop).                                   *)

\* set_state(read_state()): the read and the write are two Redis commands.
BootRead ==
  /\ Goto("boot_read", "boot_write") /\ rd' = state
  /\ UNCHANGED <<memory, sig, trade, sigKeys, stream, market, oe, ops, clock>>

BootWrite ==
  /\ Goto("boot_write", "wait") /\ state' = rd /\ rd' = "FLAT"
  /\ UNCHANGED <<memory, sig, until, cur, rec, sigKeys, stream, market, oe, ops, clock>>

WaitEnabled ==
  /\ Goto("wait", "build") /\ enabled
  /\ UNCHANGED <<rd, memory, sig, trade, sigKeys, stream, market, oe, ops, clock>>

\* The buffers after a transition from the basket to b: dropped tokens lose
\* theirs.
Kept(b) == [t \in Listed |-> IF t \in basket.toks \ b.toks THEN <<>> ELSE buffers[t]]

InitialBasket ==
  /\ Goto("build", "idle")
  /\ basket' = maybe_shift_basket(basket) /\ buffers' = Kept(basket')
  /\ UNCHANGED <<rd, pid, mem, act, sig, trade, sigKeys, stream, market, oe, ops, clock>>

SessionEnds ==
  /\ Goto("idle", "ended") /\ closed /\ MemoryGone
  /\ UNCHANGED <<trade, sigKeys, stream, market, oe, ops, clock>>

\* The slip: the end of the cooldown is not compared with the clock.
NeverElapsed == FALSE
CooldownElapsed == state = "COOLDOWN" /\ (until <= 0 \/ now >= until)

\* The slip: memory is reloaded only when the side differs.
MismatchOfSide(s) == mem.side # SideOf(s) /\ mem.side # "none"
Mismatch(s) == mem.side # SideOf(s) \/ mem.tok = NoTok

\* The state gate: without a position memory is cleared, and on a mismatch the
\* vessel goes on to look the position up.
ReadState ==
  /\ rd' = state
  /\ IF state \in {"FLAT", "COOLDOWN"}
       THEN mem' = NotHeld /\ pc' = "eval"
       ELSE mem' = mem /\ pc' = IF Mismatch(state) THEN "current" ELSE "eval"

\* A tick or the idle timeout wakes the vessel.  maybe_exit_cooldown reads the
\* state; unless it finds an elapsed cooldown it has no effect, and the read
\* that follows it is taken in the same step.
Wake ==
  /\ pc = "idle" /\ ~closed /\ enabled
  /\ IF CooldownElapsed THEN pc' = "cool" /\ UNCHANGED <<rd, mem>> ELSE ReadState
  /\ UNCHANGED <<pid, basket, buffers, act, sig, trade, sigKeys, stream, market, oe, ops, clock>>

\* maybe_exit_cooldown writes, whatever the state is by now.
ExitCooldown ==
  /\ Goto("cool", "read") /\ state' = "FLAT"
  /\ UNCHANGED <<rd, memory, sig, until, cur, rec, sigKeys, stream, market, oe, ops, clock>>

ReadAfterCooldown ==
  /\ pc = "read" /\ ReadState
  /\ UNCHANGED <<pid, basket, buffers, act, sig, trade, sigKeys, stream, market, oe, ops, clock>>

\* The memory sync reads current_position_id; when it is blank, memory stays as
\* it is.
ReadCurrent ==
  /\ pc = "current" /\ pid' = cur
  /\ pc' = IF cur = 0 THEN "eval" ELSE "sync"
  /\ UNCHANGED <<rd, mem, basket, buffers, act, sig, trade, sigKeys, stream, market, oe,
                 ops, clock>>

\* Then the position's hash, empty if it has been deleted since: the side comes
\* from the state that was read, the token from the hash.
SyncMemory ==
  /\ Goto("sync", "eval")
  /\ mem' = [side |-> SideOf(rd), tok |-> rec[pid].tok] /\ pid' = 0
  /\ UNCHANGED <<rd, basket, buffers, act, sig, trade, sigKeys, stream, market, oe, ops, clock>>

\* The action kinds that become signals.
KIND_TO_INTENT == {"ENTER", "FLIP", "EXIT"}

\* The basket is rechecked, on_tick decides on a fresh snapshot, and
\* _apply_action emits what has to be emitted.  Only the market writes what is
\* read here, and only telemetry is written.
Decision(b) ==
  LET legs == build_snapshot(b)
      seen == Observe(legs, Kept(b), now)
  IN [seen |-> seen, action |-> on_tick(legs, seen, mem, Window)]

Evaluate ==
  LET b == maybe_shift_basket(basket)
      d == Decision(b)
      emits == rd # "COOLDOWN" /\ d.action.kind \in KIND_TO_INTENT
  IN /\ pc = "eval" /\ pc' = IF emits THEN "emit" ELSE "idle"
     /\ basket' = b /\ buffers' = d.seen
     /\ act' = IF emits THEN d.action ELSE NoOp
     /\ rd' = "FLAT"
     /\ UNCHANGED <<pid, mem, sig, trade, sigKeys, stream, market, oe, ops, clock>>

mint_sig_id == <<act.kind, act.side, act.tok[1], now>>

\* The slip: an id that is already recorded is published again.
EmitAgain ==
  /\ Goto("emit", "pipe")
  /\ sigKeys' = sigKeys \cup {mint_sig_id} /\ sig' = mint_sig_id
  /\ act' = NoOp
  /\ UNCHANGED <<rd, pid, mem, basket, buffers, trade, stream, market, oe, ops, clock>>

\* SET NX of the signal's key.
EmitSignal ==
  /\ pc = "emit" /\ act' = NoOp
  /\ IF mint_sig_id \in sigKeys
       THEN pc' = "idle" /\ UNCHANGED <<sigKeys, sig>>
       ELSE pc' = "pipe" /\ sigKeys' = sigKeys \cup {mint_sig_id} /\ sig' = mint_sig_id
  /\ UNCHANGED <<rd, pid, mem, basket, buffers, trade, stream, market, oe, ops, clock>>

\* SADD, XADD, INCR in one pipeline.
Publish ==
  /\ Goto("pipe", "idle")
  /\ stream' = Append(stream, sig) /\ sig' = NoSig
  /\ UNCHANGED <<rd, memory, trade, sigKeys, market, oe, ops, clock>>

\* The slip: a failed pipeline is logged and the vessel goes on.
FailureLogged ==
  /\ Goto("pipe", "idle") /\ sig' = NoSig
  /\ UNCHANGED <<rd, memory, trade, sigKeys, stream, market, oe, ops, clock>>

\* The connection fails while the pipeline runs, before or after the XADD.
\* The exception ends the vessel's task, and with it the engine, which exits
\* with code 0: systemd does not restart it.
PublishFails ==
  /\ Goto("pipe", "failed") /\ MemoryGone
  /\ stream' \in {stream, Append(stream, sig)}
  /\ UNCHANGED <<trade, sigKeys, market, oe, ops, clock>>

\* Any other Redis call raises: the same end.
RedisFails ==
  /\ pc \notin Down \cup {"pipe"} /\ pc' = "failed" /\ MemoryGone
  /\ UNCHANGED <<trade, sigKeys, stream, market, oe, ops, clock>>

\* The process is killed and systemd starts it again, with empty memory and
\* not in the same millisecond.
EngineKilled ==
  /\ pc \notin Down /\ Eventful /\ now < MaxNow
  /\ pc' = "boot_read" /\ kills' = kills + 1 /\ now' = now + 1
  /\ MemoryGone
  /\ UNCHANGED <<trade, sigKeys, stream, market, oe, enabled, toggles, closed>>
-----------------------------------------------------------------------------
(* order_exec, seen from Redis (OrderExec has its own steps).              *)

Next1 == stream[taken + 1]
Open == {p \in 1..MaxPos : rec[p] # NoRec}

\* A signal is refused, or is an exit request that the position's worker reads.
OEPass ==
  /\ taken < Len(stream) /\ taken' = taken + 1
  /\ UNCHANGED <<pc, rd, memory, sig, trade, sigKeys, stream, market, npos, owed, ops, clock>>

\* A confirmed entry: record, current id and state in one MULTI.
OEFill ==
  /\ taken < Len(stream) /\ Next1[1] \in {"ENTER", "FLIP"}
  /\ Open = {} /\ cur = 0 /\ npos < MaxPos /\ npos < bound.fills
  /\ taken' = taken + 1 /\ npos' = npos + 1
  /\ rec' = [rec EXCEPT ![npos'] = [tok |-> <<Next1[3], Next1[2]>>, sig |-> Next1]]
  /\ cur' = npos' /\ state' = InState(Next1[2])
  /\ UNCHANGED <<pc, rd, memory, sig, until, sigKeys, stream, market, owed, ops, clock>>

\* Cleanup of a closed position: its hash and its signal's key go first.  A
\* trade outlasts the millisecond its signal's id was minted in.
OECleanHash ==
  \E p \in Open :
    /\ now > rec[p].sig[4]
    /\ rec' = [rec EXCEPT ![p] = NoRec]
    /\ sigKeys' = sigKeys \ {rec[p].sig}
    /\ UNCHANGED <<pc, rd, memory, sig, state, until, cur, stream, market, oe, ops, clock>>

\* Then the current id; after a flip's exit no settle follows.
OECleanCur ==
  /\ Open = {} /\ cur # 0 /\ cur' = 0
  /\ \/ owed' = owed + 1
     \/ taken < Len(stream) /\ Next1[1] = "FLIP" /\ owed' = owed
  /\ UNCHANGED <<pc, rd, memory, sig, state, until, rec, sigKeys, stream, market, taken, npos, ops, clock>>

\* The state after an exit, in one MULTI; the next entry may have filled before.
OESettle ==
  /\ owed > 0 /\ owed' = owed - 1
  /\ \/ state' = "FLAT" /\ until' = 0
     \/ now + Cooldown <= MaxNow /\ state' = "COOLDOWN" /\ until' = now + Cooldown
  /\ UNCHANGED <<pc, rd, memory, sig, cur, rec, sigKeys, stream, market, taken, npos, ops, clock>>
-----------------------------------------------------------------------------
(* The market, the clock and the operator.                                 *)

\* The exchange sends nothing after the close.
Tick ==
  /\ ~closed /\ ticks < bound.ticks /\ ticks' = ticks + 1
  /\ \E m \in Moves : chain' = [chain EXCEPT ![m[1]] = [book |-> m[2], ts |-> now]]
  /\ UNCHANGED <<pc, rd, memory, sig, trade, sigKeys, stream, bound, spot, shifts, oe, ops, clock>>

SpotMoves ==
  /\ ~closed /\ Eventful /\ shifts' = shifts + 1
  /\ \E p \in Spots \ {spot} : spot' = p
  /\ UNCHANGED <<pc, rd, memory, sig, trade, sigKeys, stream, bound, chain, ticks, oe, ops, clock>>

Advance ==
  /\ now < MaxNow /\ now' = now + 1
  /\ UNCHANGED <<pc, rd, memory, sig, trade, sigKeys, stream, market, oe, ops, closed>>

\* 15:30 is the end of the modelled clock.
SessionCloses ==
  /\ now = MaxNow /\ ~closed /\ closed' = TRUE
  /\ UNCHANGED <<pc, rd, memory, sig, trade, sigKeys, stream, market, oe, ops, now>>

\* halt and resume of the index.
Toggle ==
  /\ Eventful /\ toggles' = toggles + 1 /\ enabled' = ~enabled
  /\ UNCHANGED <<pc, rd, memory, sig, trade, sigKeys, stream, market, oe, kills, clock>>
-----------------------------------------------------------------------------
Loop ==
  \/ BootRead \/ BootWrite \/ WaitEnabled \/ InitialBasket \/ SessionEnds
  \/ Wake \/ ExitCooldown \/ ReadAfterCooldown \/ ReadCurrent \/ SyncMemory
  \/ Evaluate \/ EmitSignal \/ Publish
Faults == PublishFails \/ RedisFails \/ EngineKilled
Executor == OEPass \/ OEFill \/ OECleanHash \/ OECleanCur \/ OESettle
Environment == Tick \/ SpotMoves \/ Advance \/ SessionCloses \/ Toggle

\* Once the engine is down nothing here reads what the others write.
Others == pc \notin Down /\ (Executor \/ Environment)
Next == Loop \/ Faults \/ Others

\* The event loop runs a coroutine that can go on, and time passes; nothing
\* else has to happen.  Runnable is ENABLED <<Loop>>_vars spelled out, so that
\* the first conjunct is WF_vars(Loop).
Runnable == pc \notin Down /\ (pc \in {"wait", "idle"} => enabled \/ (pc = "idle" /\ closed))
Fairness == ([]<>~Runnable \/ []<><<Loop>>_vars) /\ WF_vars(pc \notin Down /\ Advance)
Spec == Init /\ [][Next]_vars /\ Fairness
-----------------------------------------------------------------------------
(* Properties.                                                             *)

Sigs == KIND_TO_INTENT \X Side \X Strike \X (1..MaxNow)

\* Types: where the coroutine is, what it remembers and what Redis holds.
TypeOK ==
  /\ pc \in {"boot_read", "boot_write", "wait", "build", "idle", "cool", "read",
             "current", "sync", "eval", "emit", "pipe"} \cup Down
  /\ rd \in States /\ state \in States
  /\ mem.side \in Side \cup {"none"} /\ mem.tok \in Token \cup {NoTok}
  /\ basket.toks \subseteq Listed /\ basket.shift \in 0..MaxNow
  /\ \A t \in Listed : Len(buffers[t]) <= Cfg.ring_size
  /\ sig \in Sigs \cup {NoSig} /\ sigKeys \subseteq Sigs
  /\ \A i \in 1..Len(stream) : stream[i] \in Sigs
  /\ cur \in 0..npos /\ npos \in 0..MaxPos /\ taken \in 0..Len(stream)
  /\ \A p \in 1..MaxPos : rec[p].tok \in Listed \cup {NoTok}

\* A signal id appears in the stream once, however often the vessel decides
\* the same within a millisecond and although order_exec deletes the key that
\* SET NX tests when the trade is over (publisher.py).
SignalsOnce ==
  \A i, j \in 1..Len(stream) : stream[i] = stream[j] => i = j

\* A signal that is recorded but not in the stream is being published, or one
\* was lost with each kill and with the failure that ended the engine: no other
\* way loses a signal between SET NX and XADD.
Published == {stream[i] : i \in 1..Len(stream)}
LostSignalsBounded ==
  Cardinality(sigKeys \ Published)
    <= kills + Cardinality({"pipe", "failed"} \cap {pc})

\* A vessel without a held leg that has a recorded position looks it up and in
\* the end holds that position's token, after a restart too, whatever order_exec
\* writes between the reads of state, current_position_id and hash; unless the
\* position or its state goes or the vessel is disabled or down.  A vessel that
\* still has a token of the same side keeps it, though the position is another.
Recorded == cur # 0 /\ rec[cur] # NoRec /\ state = InState(rec[cur].tok[2])
Running == enabled /\ ~closed /\ pc \notin Down
Adopted == Recorded /\ mem.tok = rec[cur].tok
PositionAdopted == (Recorded /\ mem.tok = NoTok) ~> (Adopted \/ ~Recorded \/ ~Running)

\* A cooldown ends: the vessel returns to FLAT (or a fill moves it on).
CooldownEnds == state = "COOLDOWN" ~> (state # "COOLDOWN" \/ ~Running)

\* The position memory holds is asked to be closed once its book no longer
\* carries it: an EXIT or a FLIP minted after the position's own signal comes
\* into the stream.
Bad(t) == LET leg == build_leg(t)
          IN compute_imbalance(leg) # NoRatio /\ Below(compute_imbalance(leg), Cfg.continuation)
Losing == Adopted /\ Bad(rec[cur].tok)
ExitAsked == \E i \in 1..Len(stream) :
               stream[i][1] \in {"EXIT", "FLIP"} /\ stream[i][4] >= rec[cur].sig[4]
LosingLegExited == Losing ~> (~Losing \/ ~Running \/ ExitAsked)
=============================================================================
