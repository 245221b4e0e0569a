---------------------------- MODULE SessionProofs ----------------------------
(***************************************************************************)
(* Proofs about the days of the system for any indexes, triggers, listings *)
(* and bounds: types and the limit of the pending reports, that nothing of *)
(* an earlier day survives today's init, and that reports reach Postgres   *)
(* in the order in which they were buffered.                               *)
(***************************************************************************)
EXTENDS Session, TLAPS, SequenceTheorems, WellFoundedInduction

Event == [kind : Kinds, day : 1..MaxDay]

\* Who is alive when: the engines only between the end of init and the next
\* stop, background's tasks only while background is, and the group exists
\* before anything is read through it.
LifeInv ==
  /\ stack => ipc \in {"done", "failed"}
  /\ bg => stack /\ grp >= 0
  /\ tasks # {} => bg
  /\ batch # <<>> => "consumer" \in tasks
  /\ pos # "none" => stack
  /\ hand # 0 => bg

\* What is counted: a position that is open has a report left to make, one
\* whose report is made has made it, and a report in the drainer's hand has
\* left room for itself (the trims that failed aside).
CountInv ==
  /\ pos = "open" => made < bound.reports
  /\ pos = "reported" => made >= 1
  /\ hand # 0 => Len(pending) <= MaxPending + used.faults

FreshInv == DOMAIN built = Index /\ FreshDay

\* The order of the reports, part by part: in the table, in hand, pending.
Sorted(s) == \A i, j \in 1..Len(s) : i < j => s[i] <= s[j]
UpTo(s, x) == \A i \in 1..Len(s) : s[i] <= x
From(x, s) == \A i \in 1..Len(s) : x <= s[i]
Precedes(s, t) == \A i \in 1..Len(s), j \in 1..Len(t) : s[i] <= t[j]

OrderInv ==
  /\ Sorted(rows) /\ Sorted(pending) /\ Precedes(rows, pending)
  /\ hand # 0 => UpTo(rows, hand) /\ From(hand, pending)

SInv == TypeOK /\ LifeInv /\ CountInv /\ FreshInv /\ OrderInv
-----------------------------------------------------------------------------
(* What init builds for an index.                                          *)

\* A set of days that is not empty has a first one.
LEMMA MinFacts ==
  ASSUME NEW S \in SUBSET Nat, S # {} PROVE Min(S) \in S
  <1> DEFINE R == OpToRel(<, Nat)
  <1>r. IsWellFoundedOn(R, Nat)
    BY NatLessThanWellFounded
  <1>d. R = {p \in Nat \X Nat : p[1] < p[2]}
    BY Zenon DEF OpToRel
  <1> HIDE DEF R
  <1>1. PICK x \in S : \A y \in S : ~(<<y, x>> \in R)
    BY <1>r, WFMin
  <1>2. ASSUME NEW y \in S PROVE x <= y
    <2>1. x \in Nat /\ y \in Nat
      OBVIOUS
    <2>2. y < x => <<y, x>> \in R
      BY <1>d, <2>1
    <2> QED
      BY <1>1, <2>1, <2>2
  <1> QED
    BY <1>2 DEF Min

\* The nearest expiry is one that is still to come.
LEMMA ExpiryFacts ==
  ASSUME NEW contracts, \A c \in contracts : c.expiry \in Nat, NEW today \in Nat,
         discover_nearest_expiry(contracts, today) # NoExpiry
  PROVE  discover_nearest_expiry(contracts, today) >= today
  <1> DEFINE future == {c.expiry : c \in {x \in contracts : x.expiry >= today}}
  <1>1. future \in SUBSET Nat /\ \A d \in future : d >= today
    OBVIOUS
  <1>2. future # {}
    BY DEF discover_nearest_expiry
  <1>3. Min(future) \in future
    BY <1>1, <1>2, MinFacts
  <1>4. discover_nearest_expiry(contracts, today) = Min(future)
    BY <1>2 DEF discover_nearest_expiry
  <1> QED
    BY <1>1, <1>3, <1>4

\* A leaf of the chain is the token of a contract in the window, or none.
LEMMA LeafFacts ==
  ASSUME NEW listed, NEW strikes, NEW s \in strikes, NEW side \in {"CE", "PE"},
         build_option_chain_template(listed, strikes)[s][side] # NoLeaf
  PROVE  build_option_chain_template(listed, strikes)[s][side] \in {c.key : c \in listed}
  <1> DEFINE found == {c \in listed : c.strike = s /\ c.type = side}
  <1>1. build_option_chain_template(listed, strikes)[s][side]
          = IF found = {} THEN NoLeaf ELSE (CHOOSE c \in found : TRUE).key
    BY DEF build_option_chain_template
  <1>2. found # {}
    BY <1>1
  <1>3. (CHOOSE c \in found : TRUE) \in found
    BY <1>2
  <1> QED
    BY <1>1, <1>2, <1>3

\* What is built trades an expiry to come, and only tokens that are subscribed.
LEMMA BuildFacts ==
  ASSUME NEW spot, NEW contracts, \A c \in contracts : c.expiry \in Nat, NEW today \in Nat,
         build_for_index(spot, contracts, today) # NotBuilt
  PROVE  /\ build_for_index(spot, contracts, today).expiry >= today
         /\ build_for_index(spot, contracts, today).basket
              \subseteq build_for_index(spot, contracts, today).chain
  <1> DEFINE atm == compute_atm(spot)
             expiry == discover_nearest_expiry(contracts, today)
             listed == filter_atm_window_strikes(contracts, expiry, atm)
             strikes == strike_list(atm)
             chain == build_option_chain_template(listed, strikes)
             keys == {c.key : c \in listed}
             basket == build_trading_basket(chain, atm)
  <1>1. /\ expiry # NoExpiry
        /\ build_for_index(spot, contracts, today)
             = [expiry |-> expiry, chain |-> keys, basket |-> basket]
    BY Zenon DEF build_for_index
  <1>2. expiry >= today
    BY <1>1, ExpiryFacts
  <1>3. DOMAIN chain = strikes
    BY DEF build_option_chain_template
  <1>4. \A s \in strikes, side \in {"CE", "PE"} : chain[s][side] # NoLeaf => chain[s][side] \in keys
    BY LeafFacts
  <1>5. basket \subseteq keys
    <2> HIDE DEF chain, keys, strikes, atm
    <2> QED
      BY <1>3, <1>4 DEF build_trading_basket
  <1> HIDE DEF expiry, keys, basket
  <1> QED
    BY <1>1, <1>2, <1>5
-----------------------------------------------------------------------------
(* Types of what init, systemd, the operator and the broker write.         *)

Flag == [ready : BOOLEAN, active : BOOLEAN, reason : Reasons]
InitPlace == {"off", "connect", "flush", "template", "hydrate", "no_creds", "auth", "holiday",
              "timings", "instruments", "basket", "done", "failed"}

\* Init's state, the clock, the flags and the keys of user:.
PlainOK ==
  /\ bound \in Bounds /\ day \in 1..MaxDay /\ clock \in 0..Len(Triggers)
  /\ ipc \in InitPlace /\ todo \subseteq Index /\ verdict \in Reasons \cup {"ok", "pending"}
  /\ stack \in BOOLEAN /\ enabled \in [Index -> BOOLEAN] /\ master \in 0..MaxDay
  /\ flag \in Flag
  /\ row \in {"none", "bad", "ok"} /\ creds \in BOOLEAN /\ token \in {"none", "old", "valid"}
  /\ engaged \in BOOLEAN /\ ks \in {"none", "clear", "engaged", "object"} /\ pgUp \in BOOLEAN

plain == <<bound, day, clock, ipc, todo, verdict, stack, enabled, master, flag, row, creds,
           token, engaged, ks, pgUp>>

\* What the jobs and the gates write into the flags are flags.
LEMMA FlagFacts ==
  ASSUME flag \in Flag
  PROVE  /\ \A r \in Reasons : Disabled(r) \in Flag /\ [Disabled(r) EXCEPT !.ready = TRUE] \in Flag
         /\ [flag EXCEPT !.active = TRUE, !.reason = "none"] \in Flag
         /\ \A kind : JobFlags(kind) \in Flag
         /\ Off \in Flag /\ [ready |-> TRUE, active |-> TRUE, reason |-> "none"] \in Flag
  <1>1. \A r \in Reasons : Disabled(r) \in Flag
    BY DEF Disabled, Flag
  <1>2. \A f \in Flag : [f EXCEPT !.ready = TRUE] \in Flag
    BY DEF Flag
  <1>3. [flag EXCEPT !.active = TRUE, !.reason = "none"] \in Flag
    BY DEF Flag, Reasons
  <1>4. \A kind : JobFlags(kind) \in {[flag EXCEPT !.active = TRUE, !.reason = "none"],
                                      Disabled("market_closed"), flag}
    BY DEF JobFlags
  <1>5. "market_closed" \in Reasons
    BY DEF Reasons
  <1>6. Off \in Flag /\ [ready |-> TRUE, active |-> TRUE, reason |-> "none"] \in Flag
    BY DEF Off, Flag, Reasons
  <1> QED
    BY <1>1, <1>2, <1>3, <1>4, <1>5, <1>6

\* A day that is skipped, and an init that failed.
LEMMA SkipFacts ==
  ASSUME flag \in Flag
  PROVE  /\ \A r \in Reasons : Skip(r) => /\ ipc' \in InitPlace /\ todo' \subseteq Index
                                          /\ verdict' \in Reasons /\ flag' \in Flag
         /\ InitFailed => /\ ipc' \in InitPlace /\ todo' \subseteq Index
                          /\ verdict' \in Reasons /\ flag' \in Flag
  BY FlagFacts DEF Skip, InitFailed, InitPlace, Reasons

\* The master list is wiped, loaded today, or left.
LEMMA MasterFacts ==
  ASSUME PlainOK, load_master_instruments PROVE master' \in 0..MaxDay
  BY SessionAssumption DEF PlainOK, load_master_instruments

\* Init keeps these types.
LEMMA InitPlain ==
  ASSUME PlainOK, InitStep \/ InitRaises PROVE PlainOK'
  <1>a. flag \in Flag
    BY DEF PlainOK
  <1> USE DEF time, flags, books, auth, kill, bus, back, trades
  <1>1. CASE TimerStart
    BY <1>1 DEF TimerStart, Goto, PlainOK, InitPlace
  <1>2. CASE Connect
    BY <1>2, <1>a, SkipFacts DEF Connect, PlainOK, InitPlace
  <1>3. CASE flush_runtime_namespaces
    BY <1>3, <1>a, FlagFacts, SessionAssumption DEF flush_runtime_namespaces, Goto, PlainOK,
       InitPlace
  <1>4. CASE apply_template
    BY <1>4, <1>a, FlagFacts DEF apply_template, Goto, PlainOK, InitPlace
  <1>5. CASE hydrate_all
    BY <1>5, <1>a, SkipFacts
       DEF hydrate_all, hydrate_credentials, decrypt_json, PlainOK, InitPlace
  <1>6. CASE Auth
    <2>1. token' \in {"none", "old", "valid"}
      BY <1>6 DEF Auth, ensure_valid_token, PlainOK
    <2>2. /\ ipc' \in InitPlace /\ todo' \subseteq Index
          /\ verdict' \in Reasons \cup {"ok", "pending"} /\ flag' \in Flag
      <3>1. "awaiting_credentials" \in Reasons /\ "auth_invalid" \in Reasons
        BY DEF Reasons
      <3>2. \/ Skip("awaiting_credentials") \/ Skip("auth_invalid")
            \/ ipc' = "holiday" /\ UNCHANGED <<todo, verdict, flag>>
        BY <1>6 DEF Auth
      <3> QED
        BY <1>a, <3>1, <3>2, SkipFacts DEF PlainOK, InitPlace
    <2> QED
      BY <1>6, <2>1, <2>2 DEF Auth, PlainOK
  <1>7. CASE HolidayGate \/ SessionGate
    <2>1. "holiday" \in Reasons /\ "non_standard_session" \in Reasons
      BY DEF Reasons
    <2>2. /\ \/ Skip("holiday") \/ Skip("non_standard_session")
             \/ ipc' \in {"timings", "instruments"} /\ UNCHANGED <<todo, verdict, flag>>
          /\ UNCHANGED <<time, stack, enabled, books, auth, kill, pgUp>>
      BY <1>7 DEF HolidayGate, SessionGate
    <2> QED
      BY <1>a, <2>1, <2>2, SkipFacts DEF PlainOK, InitPlace
  <1>8. CASE Instruments
    <2>1. "no_indexes_enabled" \in Reasons
      BY DEF Reasons
    <2>2. /\ \/ Skip("no_indexes_enabled")
             \/ ipc' = "basket" /\ todo' \subseteq Index /\ UNCHANGED <<verdict, flag>>
          /\ UNCHANGED <<time, stack, enabled, auth, kill, pgUp>>
      BY <1>8 DEF Instruments
    <2>3. master' \in 0..MaxDay
      BY <1>8, MasterFacts DEF Instruments
    <2> QED
      BY <1>a, <2>1, <2>2, <2>3, SkipFacts DEF PlainOK, InitPlace
  <1>9. CASE BuildIndex
    <2>1. /\ todo' \subseteq todo /\ UNCHANGED <<time, ipc, verdict, stack, flag, master, auth, kill, pgUp>>
          /\ \E i, x : enabled' = [enabled EXCEPT ![i] = IF x THEN FALSE ELSE @]
      BY <1>9 DEF BuildIndex
    <2>2. enabled' \in [Index -> BOOLEAN]
      BY <2>1 DEF PlainOK
    <2>3. todo' \subseteq Index
      BY <2>1 DEF PlainOK
    <2>4. UNCHANGED <<bound, day, clock, ipc, verdict, stack, flag, master, row, creds, token,
                      engaged, ks, pgUp>>
      BY <2>1
    <2> QED
      BY <2>2, <2>3, <2>4 DEF PlainOK
  <1>10. CASE Finish
    <2>1. "basket_build_failed" \in Reasons
      BY DEF Reasons
    <2>2. /\ \/ Skip("basket_build_failed")
             \/ /\ ipc' = "done" /\ verdict' = "ok" /\ todo' = todo
                /\ flag' = [ready |-> TRUE, active |-> TRUE, reason |-> "none"]
          /\ UNCHANGED <<time, stack, enabled, books, auth, kill, pgUp>>
      BY <1>10 DEF Finish
    <2>3. /\ ipc' \in InitPlace /\ todo' \subseteq Index
          /\ verdict' \in Reasons \cup {"ok", "pending"} /\ flag' \in Flag
      <3>1. CASE Skip("basket_build_failed")
        BY <1>a, <2>1, <3>1, SkipFacts
      <3>2. CASE /\ ipc' = "done" /\ verdict' = "ok" /\ todo' = todo
                 /\ flag' = [ready |-> TRUE, active |-> TRUE, reason |-> "none"]
        BY <1>a, <3>2, FlagFacts DEF PlainOK, InitPlace
      <3> QED
        BY <2>2, <3>1, <3>2
    <2> QED
      BY <2>2, <2>3 DEF PlainOK
  <1>11. CASE InitRaises
    <2>1. /\ \/ InitFailed
             \/ ipc' = "failed" /\ verdict' = "init_failed" /\ todo' = {} /\ flag' = flag
          /\ UNCHANGED <<time, stack, enabled, books, auth, kill, pgUp>>
      BY <1>11 DEF InitRaises
    <2> QED
      BY <1>a, <2>1, SkipFacts DEF PlainOK, InitPlace, Reasons
  <1> QED
    BY <1>1, <1>2, <1>3, <1>4, <1>5, <1>6, <1>7, <1>8, <1>9, <1>10, <1>11 DEF InitStep

\* So do systemd and the scheduler.
LEMMA SystemdPlain ==
  ASSUME PlainOK, Systemd \/ Trigger \/ TriggerFails PROVE PlainOK'
  <1>a. flag \in Flag
    BY DEF PlainOK
  <1> USE DEF time, initVars, flags, books, auth, kill, bus, back, trades
  <1>1. CASE StackUp \/ PgDown \/ PgBack
    <2>1. /\ UNCHANGED <<time, initVars, flags, books, auth, kill>>
          /\ stack' \in {stack, TRUE} /\ pgUp' \in {pgUp, TRUE, FALSE}
      <3>1. CASE StackUp
        BY <3>1 DEF StackUp
      <3>2. CASE PgDown
        BY <3>2 DEF PgDown
      <3>3. CASE PgBack
        BY <3>3 DEF PgBack
      <3> QED
        BY <1>1, <3>1, <3>2, <3>3
    <2>2. stack \in BOOLEAN /\ pgUp \in BOOLEAN
      BY DEF PlainOK
    <2>3. stack' \in BOOLEAN /\ pgUp' \in BOOLEAN
      BY <2>1, <2>2, Zenon
    <2> QED
      BY <2>1, <2>3 DEF PlainOK
  <1>2. CASE StopAndNight
    <2>1. bound.days \in 1..MaxDay /\ day \in 1..MaxDay
      BY SessionAssumption DEF PlainOK
    <2>2. day' \in 1..MaxDay /\ clock' \in 0..Len(Triggers)
      BY <1>2, <2>1, SessionAssumption, LenProperties DEF StopAndNight
    <2> QED
      BY <1>2, <2>2 DEF StopAndNight, PlainOK, InitPlace
  <1>3. CASE Reboot
    BY <1>3 DEF Reboot, PlainOK, InitPlace
  <1>4. CASE Trigger \/ TriggerFails
    <2>1. /\ clock < Len(Triggers) /\ clock' = clock + 1
          /\ flag' = flag \/ flag' = JobFlags(Triggers[clock'])
          /\ UNCHANGED <<bound, day, initVars, stack, enabled, books, auth, kill, pgUp>>
      BY <1>4 DEF Trigger, TriggerFails, Job
    <2>2. flag' \in Flag
      BY <1>a, <2>1, FlagFacts
    <2>3. clock' \in 0..Len(Triggers)
      BY <2>1, SessionAssumption, LenProperties DEF PlainOK
    <2> QED
      BY <2>1, <2>2, <2>3 DEF PlainOK
  <1> QED
    BY <1>1, <1>2, <1>3, <1>4 DEF Systemd

\* So do background and order_exec.
LEMMA BackgroundPlain ==
  ASSUME PlainOK, Background \/ Executor PROVE PlainOK'
  <1> USE DEF time, initVars, flags, books, auth, kill, bus, back, trades
  <1>1. CASE BgStart \/ BgKilled \/ TaskDies \/ Drainer \/ DrainFails \/ ReadEvents \/ HandlerRaises
    <2>1. UNCHANGED plain
      BY <1>1 DEF BgStart, BgKilled, TaskDies, Drainer, Pop, Insert, DropMalformed, Requeue,
         DrainFails,
         ReadEvents, HandlerRaises, plain
    <2> QED
      BY <2>1 DEF plain, PlainOK
  <1>2. CASE HandleEvent
    <2>1. master' \in 0..MaxDay
      <3>1. load_master_instruments \/ master' = master
        BY <1>2 DEF HandleEvent
      <3>2. CASE master' = master
        BY <3>2 DEF PlainOK
      <3> QED
        BY <3>1, <3>2, MasterFacts
    <2> QED
      BY <1>2, <2>1 DEF HandleEvent, PlainOK
  <1>3. CASE Poll
    BY <1>3 DEF Poll, get_kill_switch_status, PlainOK
  <1>4. CASE Executor
    <2>1. UNCHANGED plain
      BY <1>4 DEF Executor, Enter, buffer_report, BufferFails, CloseDone, plain
    <2> QED
      BY <2>1 DEF plain, PlainOK
  <1> QED
    BY <1>1, <1>2, <1>3, <1>4 DEF Background, Consumer

\* So do the operator and the broker.
LEMMA OperatorPlain ==
  ASSUME PlainOK, Operator PROVE PlainOK'
  <1>a. flag \in Flag
    BY DEF PlainOK
  <1>b. \A r \in {"manual_kill", "auth_invalid", "awaiting_credentials"} : r \in Reasons
    BY DEF Reasons
  <1> USE DEF time, initVars, flags, books, auth, kill, bus, back, trades
  <1>1. CASE SetIndex
    <2>1. PICK i \in Index : enabled' = [enabled EXCEPT ![i] = ~@]
      BY <1>1 DEF SetIndex
    <2>2. enabled' \in [Index -> BOOLEAN]
      BY <2>1 DEF PlainOK
    <2> QED
      BY <1>1, <2>2 DEF SetIndex, PlainOK
  <1>2. CASE global_kill \/ global_resume
    <2>1. flag' \in Flag
      BY <1>2, <1>a, <1>b, FlagFacts DEF global_kill, global_resume
    <2> QED
      BY <1>2, <2>1 DEF global_kill, global_resume, PlainOK
  <1>3. CASE set_upstox_credentials \/ delete_upstox_credentials
    <2>1. flag' \in Flag
      BY <1>3, <1>a, <1>b, FlagFacts DEF set_upstox_credentials, delete_upstox_credentials
    <2> QED
      BY <1>3, <2>1 DEF set_upstox_credentials, delete_upstox_credentials, encrypt_json, PlainOK
  <1>4. CASE upstox_webhook \/ bootstrap_from_file
    BY <1>4 DEF upstox_webhook, bootstrap_from_file, persist_credentials, write_credentials,
       sync_to_redis, encrypt_json, PlainOK
  <1>5. CASE set_capital_kill_switch \/ capital_kill_switch \/ BrokerSwitch
    <2>1. /\ engaged' \in BOOLEAN /\ ks' \in {ks, "object"}
          /\ UNCHANGED <<time, initVars, stack, flags, books, auth, pgUp>>
      BY <1>5 DEF set_capital_kill_switch, capital_kill_switch, BrokerSwitch, set_kill_switch,
         PlainOK
    <2> QED
      BY <2>1 DEF PlainOK
  <1>6. CASE command_instrument_refresh
    <2>1. master' \in 0..MaxDay
      BY <1>6, MasterFacts DEF command_instrument_refresh
    <2> QED
      BY <1>6, <2>1 DEF command_instrument_refresh, PlainOK
  <1> QED
    BY <1>1, <1>2, <1>3, <1>4, <1>5, <1>6 DEF Operator

\* Every step keeps these types.
LEMMA NextPlain == PlainOK /\ [Next]_vars => PlainOK'
  <1>1. PlainOK /\ UNCHANGED vars => PlainOK'
    BY DEF vars, time, initVars, flags, books, auth, kill, PlainOK
  <1> QED
    BY <1>1, InitPlain, SystemdPlain, BackgroundPlain, OperatorPlain DEF Next
-----------------------------------------------------------------------------
(* Sequences of reports.                                                   *)

\* A report added at the end of a list.
LEMMA AppendOrder ==
  ASSUME NEW s \in Seq(Nat), NEW t \in Seq(Nat), NEW x \in Nat, UpTo(s, x)
  PROVE  /\ Sorted(s) => Sorted(Append(s, x))
         /\ Precedes(s, t) /\ From(x, t) => Precedes(Append(s, x), t)
  <1> DEFINE a == Append(s, x)
  <1>1. /\ Len(s) \in Nat /\ Len(a) = Len(s) + 1 /\ a[Len(s) + 1] = x
        /\ \A i \in 1..Len(s) : a[i] = s[i]
    BY AppendProperties, LenProperties
  <1>2. \A i \in 1..Len(a) : i \in 1..Len(s) \/ i = Len(s) + 1
    BY <1>1
  <1> HIDE DEF a
  <1>3. ASSUME Sorted(s) PROVE Sorted(a)
    <2> SUFFICES ASSUME NEW i \in 1..Len(a), NEW j \in 1..Len(a), i < j PROVE a[i] <= a[j]
      BY DEF Sorted
    <2>1. i \in 1..Len(s)
      BY <1>1, <1>2
    <2>2. CASE j \in 1..Len(s)
      BY <1>1, <1>3, <2>1, <2>2 DEF Sorted
    <2>3. CASE j = Len(s) + 1
      BY <1>1, <2>1, <2>3 DEF UpTo
    <2> QED
      BY <1>2, <2>2, <2>3
  <1>4. ASSUME Precedes(s, t), From(x, t) PROVE Precedes(a, t)
    BY <1>1, <1>2, <1>4 DEF Precedes, From
  <1> QED
    BY <1>3, <1>4 DEF a

\* A report put back at the head of a list.
LEMMA ConsOrder ==
  ASSUME NEW s \in Seq(Nat), NEW t \in Seq(Nat), NEW x \in Nat, From(x, s)
  PROVE  /\ Sorted(s) => Sorted(<<x>> \o s)
         /\ Precedes(t, s) /\ UpTo(t, x) => Precedes(t, <<x>> \o s)
  <1> DEFINE c == <<x>> \o s
  <1>1. <<x>> \in Seq(Nat) /\ Len(<<x>>) = 1 /\ <<x>>[1] = x
    OBVIOUS
  <1>2. /\ Len(s) \in Nat /\ Len(c) = Len(s) + 1 /\ c[1] = x
        /\ \A i \in 2..(Len(s) + 1) : c[i] = s[i - 1] /\ i - 1 \in 1..Len(s)
    BY <1>1, ConcatProperties, LenProperties
  <1>3. \A i \in 1..Len(c) : i = 1 \/ i \in 2..(Len(s) + 1)
    BY <1>2
  <1> HIDE DEF c
  <1>4. ASSUME Sorted(s) PROVE Sorted(c)
    <2> SUFFICES ASSUME NEW i \in 1..Len(c), NEW j \in 1..Len(c), i < j PROVE c[i] <= c[j]
      BY DEF Sorted
    <2>1. j \in 2..(Len(s) + 1)
      BY <1>2, <1>3
    <2>2. c[j] = s[j - 1] /\ j - 1 \in 1..Len(s)
      BY <1>2, <2>1
    <2>3. CASE i = 1
      BY <1>2, <2>2, <2>3 DEF From
    <2>4. CASE i \in 2..(Len(s) + 1)
      <3>1. c[i] = s[i - 1] /\ i - 1 \in 1..Len(s) /\ i - 1 < j - 1
        BY <1>2, <2>4
      <3> QED
        BY <1>4, <2>2, <3>1 DEF Sorted
    <2> QED
      BY <1>3, <2>3, <2>4
  <1>5. ASSUME Precedes(t, s), UpTo(t, x) PROVE Precedes(t, c)
    <2> SUFFICES ASSUME NEW i \in 1..Len(t), NEW j \in 1..Len(c) PROVE t[i] <= c[j]
      BY DEF Precedes
    <2>1. CASE j = 1
      BY <1>2, <1>5, <2>1 DEF UpTo
    <2>2. CASE j \in 2..(Len(s) + 1)
      BY <1>2, <1>5, <2>2 DEF Precedes
    <2> QED
      BY <1>3, <2>1, <2>2
  <1> QED
    BY <1>4, <1>5 DEF c

\* The last reports of a list.
LEMMA SuffixOrder ==
  ASSUME NEW s \in Seq(Nat), NEW t, NEW x, NEW m \in 1..(Len(s) + 1)
  PROVE  LET u == SubSeq(s, m, Len(s))
         IN /\ Len(u) = Len(s) - m + 1
            /\ Sorted(s) => Sorted(u)
            /\ Precedes(t, s) => Precedes(t, u)
            /\ From(x, s) => From(x, u)
  <1> DEFINE u == SubSeq(s, m, Len(s))
  <1>1. Len(s) \in Nat /\ m \in Nat
    BY LenProperties
  <1>2. /\ Len(u) = Len(s) - m + 1
        /\ \A i \in 1..Len(u) : u[i] = s[m + i - 1] /\ m + i - 1 \in 1..Len(s)
    <2>1. \A i \in m..Len(s) : s[i] \in Nat
      BY <1>1, ElementOfSeq
    <2>2. /\ Len(u) = IF m <= Len(s) THEN Len(s) - m + 1 ELSE 0
          /\ \A i \in 1..(Len(s) - m + 1) : u[i] = s[m + i - 1]
      BY <1>1, <2>1, SubSeqProperties
    <2>3. Len(u) = Len(s) - m + 1
      BY <1>1, <2>2
    <2> HIDE DEF u
    <2>4. ASSUME NEW i \in 1..Len(u) PROVE u[i] = s[m + i - 1] /\ m + i - 1 \in 1..Len(s)
      <3>1. i \in 1..(Len(s) - m + 1)
        BY <2>3
      <3> QED
        BY <1>1, <2>2, <3>1
    <2> QED
      BY <2>3, <2>4
  <1> HIDE DEF u
  <1>3. ASSUME Sorted(s) PROVE Sorted(u)
    <2> SUFFICES ASSUME NEW i \in 1..Len(u), NEW j \in 1..Len(u), i < j PROVE u[i] <= u[j]
      BY DEF Sorted
    <2>1. m + i - 1 \in 1..Len(s) /\ m + j - 1 \in 1..Len(s) /\ m + i - 1 < m + j - 1
      BY <1>1, <1>2
    <2>2. s[m + i - 1] <= s[m + j - 1]
      BY <1>3, <2>1 DEF Sorted
    <2> QED
      BY <1>2, <2>2
  <1>4. Precedes(t, s) => Precedes(t, u)
    BY <1>2 DEF Precedes
  <1>5. From(x, s) => From(x, u)
    BY <1>2 DEF From
  <1> QED
    BY <1>2, <1>3, <1>4, <1>5 DEF u
-----------------------------------------------------------------------------
(* Reports.                                                                *)

Used == [cmds : Nat, faults : Nat, outages : Nat]

\* Faults are only ever counted up.
MoreUsed ==
  \/ used' = used
  \/ \E what \in {"cmds", "faults", "outages"} : used' = [used EXCEPT ![what] = @ + 1]

LEMMA UsedFacts ==
  ASSUME used \in Used, MoreUsed
  PROVE  used' \in Used /\ used.faults \in Nat /\ used'.faults \in Nat /\ used.faults <= used'.faults
  <1>1. used.cmds \in Nat /\ used.faults \in Nat /\ used.outages \in Nat
    BY DEF Used
  <1>2. CASE used' = used
    BY <1>1, <1>2
  <1>3. ASSUME NEW what \in {"cmds", "faults", "outages"}, used' = [used EXCEPT ![what] = @ + 1]
        PROVE  used' \in Used /\ used'.faults \in Nat /\ used.faults <= used'.faults
    BY <1>1, <1>3 DEF Used
  <1> QED
    BY <1>1, <1>2, <1>3 DEF MoreUsed

\* The types of what order_exec and the drainer write, the limit included.
ReportOK ==
  /\ made \in 0..MaxReports /\ pos \in {"none", "open", "reported"} /\ hand \in 0..made
  /\ pending \in Seq(1..made) /\ rows \in Seq(1..made) /\ Len(pending) <= MaxPending + 1 + used.faults
  /\ used \in Used
  /\ closed \subseteq (1..MaxReports) \X (1..MaxDay)

ReportInv == ReportOK /\ CountInv /\ OrderInv

\* A step that leaves the reports, whatever it does to closed_today, a position
\* or the report in hand that the engines lose.
LEMMA ReportQuiet ==
  ASSUME ReportInv, UNCHANGED <<bound, made, rows>>, MoreUsed,
         pos' \in {pos, "none"}, hand' \in {hand, 0}, pending' \in {pending, <<>>},
         closed' \subseteq closed
  PROVE  ReportInv'
  <1>1. made \in Nat /\ <<>> \in Seq(1..made) /\ Len(<<>>) = 0 /\ MaxPending \in Nat
    BY SessionAssumption DEF ReportInv, ReportOK
  <1>u. /\ used' \in Used /\ used.faults \in Nat /\ used'.faults \in Nat
        /\ used.faults <= used'.faults
    BY UsedFacts DEF ReportInv, ReportOK
  <1>l. Len(pending) \in Nat
    BY LenProperties DEF ReportInv, ReportOK
  <1>2. pending' \in Seq(1..made) /\ Len(pending') <= MaxPending + 1 + used'.faults
    <2>1. CASE pending' = pending
      BY <1>1, <1>u, <1>l, <2>1 DEF ReportInv, ReportOK
    <2>2. CASE pending' = <<>>
      BY <1>1, <1>u, <2>2
    <2> QED
      BY <2>1, <2>2
  <1>3. hand' \in 0..made
    BY <1>1 DEF ReportInv, ReportOK
  <1>4. ReportOK'
    BY <1>u, <1>2, <1>3 DEF ReportInv, ReportOK
  <1>5. CountInv'
    BY <1>1, <1>u, <1>l DEF ReportInv, CountInv
  <1>6. OrderInv'
    <2>1. Sorted(<<>>) /\ Precedes(rows, <<>>) /\ \A x : From(x, <<>>)
      BY <1>1 DEF Sorted, Precedes, From
    <2> QED
      BY <2>1 DEF ReportInv, OrderInv
  <1> QED
    BY <1>4, <1>5, <1>6 DEF ReportInv

\* What the types say of the numbers.
LEMMA ReportNumbers ==
  ASSUME ReportInv
  PROVE  /\ made \in Nat /\ hand \in Nat /\ hand <= made /\ MaxPending \in Nat \ {0}
         /\ pending \in Seq(Nat) /\ rows \in Seq(Nat) /\ Len(pending) \in Nat
         /\ UpTo(pending, made) /\ UpTo(rows, made) /\ used.faults \in Nat
  <1>1. made \in Nat /\ hand \in Nat /\ hand <= made /\ MaxPending \in Nat \ {0}
    BY SessionAssumption DEF ReportInv, ReportOK
  <1>2. pending \in Seq(1..made) /\ rows \in Seq(1..made)
    BY DEF ReportInv, ReportOK
  <1>3. 1..made \subseteq Nat
    BY <1>1
  <1>4. pending \in Seq(Nat) /\ rows \in Seq(Nat)
    BY <1>2, <1>3, SeqMonotonic
  <1>5. UpTo(pending, made) /\ UpTo(rows, made)
    BY <1>1, <1>2, ElementOfSeq DEF UpTo
  <1>6. used.faults \in Nat
    BY DEF ReportInv, ReportOK, Used
  <1> QED
    BY <1>1, <1>4, <1>5, <1>6, LenProperties

\* BLPOP takes the first.
LEMMA PopReport ==
  ASSUME ReportInv, Pop PROVE ReportInv'
  <1> USE DEF time, trades
  <1>1. /\ hand = 0 /\ pending # <<>> /\ hand' = Head(pending) /\ pending' = Tail(pending)
        /\ UNCHANGED <<bound, made, pos, rows, closed, used>>
    BY DEF Pop
  <1>2. /\ made \in Nat /\ pending \in Seq(1..made) /\ pending \in Seq(Nat)
        /\ Len(pending) \in Nat /\ Len(pending) <= MaxPending + 1 + used.faults
        /\ MaxPending \in Nat /\ used.faults \in Nat
    BY ReportNumbers DEF ReportInv, ReportOK
  <1>3. /\ Head(pending) \in 1..made /\ Tail(pending) \in Seq(1..made)
        /\ Len(Tail(pending)) = Len(pending) - 1
    BY <1>1, <1>2, HeadTailProperties
  <1>4. Len(pending) # 0
    BY <1>1, <1>2, EmptySeq
  <1>5. Tail(pending) = SubSeq(pending, 2, Len(pending)) /\ Head(pending) = pending[1]
    BY <1>1, <1>2, TailIsSubSeq
  <1>6. ReportOK'
    <2>1. hand' \in 0..made /\ Len(pending') <= MaxPending + 1 + used'.faults
      BY <1>1, <1>2, <1>3
    <2> QED
      BY <1>1, <1>3, <2>1 DEF ReportInv, ReportOK
  <1>7. CountInv'
    BY <1>1, <1>2, <1>3 DEF ReportInv, CountInv
  <1>8. OrderInv'
    <2>1. Sorted(rows) /\ Sorted(pending) /\ Precedes(rows, pending)
      BY DEF ReportInv, OrderInv
    <2>2. 2 \in 1..(Len(pending) + 1) /\ 1 \in 1..Len(pending)
      BY <1>2, <1>4
    <2>3. Sorted(Tail(pending)) /\ Precedes(rows, Tail(pending))
      BY <1>2, <1>5, <2>1, <2>2, SuffixOrder
    <2>4. UpTo(rows, Head(pending))
      BY <1>5, <2>1, <2>2 DEF Precedes, UpTo
    <2>5. From(Head(pending), Tail(pending))
      <3>1. \A i \in 1..Len(Tail(pending)) :
              Tail(pending)[i] = pending[i + 1] /\ i + 1 \in 1..Len(pending) /\ 1 < i + 1
        BY <1>1, <1>2, <1>3, HeadTailProperties
      <3> QED
        BY <1>5, <2>1, <2>2, <3>1 DEF Sorted, From
    <2> QED
      BY <1>1, <2>1, <2>3, <2>4, <2>5 DEF OrderInv
  <1> QED
    BY <1>6, <1>7, <1>8 DEF ReportInv

\* The drainer's INSERT, its LPUSH, and what goes wrong in between.
LEMMA DrainReport ==
  ASSUME ReportInv, Insert \/ Requeue \/ DrainFails PROVE ReportInv'
  <1>m. MoreUsed
    BY DEF Insert, Requeue, DrainFails, Spend, MoreUsed
  <1> USE DEF time, trades
  <1>1. /\ hand # 0 /\ hand' = 0 /\ UNCHANGED <<bound, made, pos, closed>>
        /\ rows' \in {rows, Append(rows, hand)} /\ pending' \in {pending, <<hand>> \o pending}
    BY DEF Insert, Requeue, InsertRaises, DrainFails, persist_report
  <1>2. /\ made \in Nat /\ hand \in Nat /\ hand \in 1..made /\ MaxPending \in Nat
        /\ pending \in Seq(Nat) /\ rows \in Seq(Nat) /\ Len(pending) \in Nat
        /\ pending \in Seq(1..made) /\ rows \in Seq(1..made)
    BY <1>1, ReportNumbers DEF ReportInv, ReportOK
  <1>3. /\ Len(pending) <= MaxPending + used.faults /\ used' \in Used
        /\ used.faults \in Nat /\ used'.faults \in Nat /\ used.faults <= used'.faults
    BY <1>1, <1>m, UsedFacts DEF ReportInv, ReportOK, CountInv
  <1>4. Append(rows, hand) \in Seq(1..made)
    BY <1>2, AppendProperties
  <1>5. <<hand>> \o pending \in Seq(1..made) /\ Len(<<hand>> \o pending) = Len(pending) + 1
    <2>1. <<hand>> \in Seq(1..made) /\ Len(<<hand>>) = 1
      BY <1>2
    <2> QED
      BY <1>2, <2>1, ConcatProperties
  <1>6. ReportOK'
    <2>1. pending' \in Seq(1..made) /\ rows' \in Seq(1..made)
      BY <1>1, <1>2, <1>4, <1>5
    <2>2. Len(pending') <= MaxPending + 1 + used'.faults
      <3>1. Len(pending') \in {Len(pending), Len(pending) + 1}
        BY <1>1, <1>5
      <3> QED
        BY <1>2, <1>3, <3>1
    <2>3. 0 \in 0..made
      BY <1>2
    <2> QED
      BY <1>1, <1>3, <2>1, <2>2, <2>3 DEF ReportInv, ReportOK
  <1>7. CountInv'
    BY <1>1 DEF ReportInv, CountInv
  <1>8. OrderInv'
    <2>1. /\ Sorted(rows) /\ Sorted(pending) /\ Precedes(rows, pending)
          /\ UpTo(rows, hand) /\ From(hand, pending)
      BY <1>1 DEF ReportInv, OrderInv
    <2> DEFINE put == <<hand>> \o pending
    <2>2. put \in Seq(Nat) /\ From(hand, put)
      <3>1. <<hand>> \in Seq(Nat) /\ Len(<<hand>>) = 1 /\ <<hand>>[1] = hand
        BY <1>2
      <3>2. /\ put \in Seq(Nat) /\ Len(put) = Len(pending) + 1
            /\ \A i \in 1..(Len(pending) + 1) :
                 put[i] = IF i <= 1 THEN hand ELSE pending[i - 1]
        BY <1>2, <3>1, ConcatProperties
      <3> HIDE DEF put
      <3>3. ASSUME NEW i \in 1..Len(put) PROVE hand <= put[i]
        <4>1. CASE i <= 1
          BY <1>2, <3>2, <4>1
        <4>2. CASE ~(i <= 1)
          <5>1. i - 1 \in 1..Len(pending)
            BY <1>2, <3>2, <4>2
          <5>2. put[i] = pending[i - 1]
            BY <1>2, <3>2, <4>2
          <5> QED
            BY <2>1, <5>1, <5>2 DEF From
        <4> QED
          BY <4>1, <4>2
      <3> QED
        BY <3>2, <3>3 DEF From
    <2>3. Sorted(put) /\ Precedes(rows, put)
      BY <1>2, <2>1, ConsOrder
    <2> HIDE DEF put
    <2>4. Sorted(Append(rows, hand)) /\ Precedes(Append(rows, hand), pending)
      BY <1>2, <2>1, AppendOrder
    <2>5. Precedes(Append(rows, hand), put)
      BY <1>2, <2>1, <2>2, <2>3, AppendOrder
    <2> QED
      BY <1>1, <2>1, <2>3, <2>4, <2>5 DEF OrderInv, put
  <1> QED
    BY <1>6, <1>7, <1>8 DEF ReportInv

\* The list with the next report.
Longer == Append(pending, made + 1)

\* A report that is pushed keeps the order.
LEMMA BufferFacts ==
  ASSUME ReportInv, PlainOK, pos = "open"
  PROVE  /\ made + 1 \in 0..MaxReports
         /\ pending \in Seq(1..(made + 1)) /\ rows \in Seq(1..(made + 1))
         /\ Longer \in Seq(1..(made + 1)) /\ Longer \in Seq(Nat)
         /\ Len(Longer) = Len(pending) + 1
         /\ Sorted(Longer) /\ Precedes(rows, Longer) /\ (hand # 0 => From(hand, Longer))
  <1>2. /\ made \in Nat /\ hand \in Nat /\ hand <= made /\ MaxPending \in Nat \ {0}
        /\ pending \in Seq(Nat) /\ rows \in Seq(Nat) /\ Len(pending) \in Nat
        /\ UpTo(pending, made) /\ UpTo(rows, made)
    BY ReportNumbers
  <1>3. made + 1 \in 0..MaxReports
    <2>1. made < bound.reports /\ bound.reports \in 0..MaxReports
      BY SessionAssumption DEF ReportInv, CountInv, PlainOK
    <2> QED
      BY <1>2, <2>1, SessionAssumption
  <1>4. 1..made \subseteq 1..(made + 1) /\ made + 1 \in 1..(made + 1)
    BY <1>2
  <1>5. pending \in Seq(1..(made + 1)) /\ rows \in Seq(1..(made + 1))
    BY <1>4, SeqMonotonic DEF ReportInv, ReportOK
  <1>6. Longer \in Seq(1..(made + 1)) /\ Longer \in Seq(Nat) /\ Len(Longer) = Len(pending) + 1
    BY <1>2, <1>4, <1>5, AppendProperties DEF Longer
  <1>7. UpTo(pending, made + 1) /\ UpTo(rows, made + 1)
    <2>1. \A i \in 1..Len(pending) : pending[i] \in Nat
      BY <1>2, ElementOfSeq
    <2>2. \A i \in 1..Len(rows) : rows[i] \in Nat
      BY <1>2, ElementOfSeq
    <2>3. \A k \in Nat : k <= made => k <= made + 1
      BY <1>2
    <2>4. UpTo(pending, made + 1)
      BY <1>2, <2>1, <2>3 DEF UpTo
    <2>5. UpTo(rows, made + 1)
      BY <1>2, <2>2, <2>3 DEF UpTo
    <2> QED
      BY <2>4, <2>5
  <1>8. Sorted(Longer)
    BY <1>2, <1>7, AppendOrder DEF ReportInv, OrderInv, Longer
  <1>9. \A i \in 1..Len(Longer) :
          \/ i \in 1..Len(pending) /\ Longer[i] = pending[i]
          \/ Longer[i] = made + 1
    BY <1>2, AppendProperties DEF Longer
  <1>10. Precedes(rows, Longer)
    BY <1>7, <1>9 DEF Precedes, UpTo, ReportInv, OrderInv
  <1>11. hand # 0 => From(hand, Longer)
    <2>1. hand # 0 => \A i \in 1..Len(pending) : hand <= pending[i]
      BY DEF From, ReportInv, OrderInv
    <2>2. hand <= made + 1
      BY <1>2
    <2> QED
      BY <1>9, <2>1, <2>2 DEF From
  <1> QED
    BY <1>3, <1>5, <1>6, <1>8, <1>10, <1>11

\* LTRIM keeps the last MaxPending of a longer list.
LEMMA TrimReport ==
  ASSUME ReportInv, PlainOK, buffer_report PROVE ReportInv'
  <1> USE DEF time, trades, back
  <1> DEFINE all == Longer
             cut == Len(all) - MaxPending + 1
  <1>1. /\ pos = "open" /\ pos' = "reported" /\ made' = made + 1
        /\ pending' = IF Len(all) > MaxPending THEN SubSeq(all, cut, Len(all)) ELSE all
        /\ UNCHANGED <<bound, rows, hand, closed, used>>
    BY DEF buffer_report, Longer
  <1>2. /\ made \in Nat /\ hand \in Nat /\ hand <= made /\ MaxPending \in Nat \ {0}
        /\ rows \in Seq(Nat) /\ Len(pending) \in Nat /\ used.faults \in Nat
    BY ReportNumbers
  <1>3. /\ made + 1 \in 0..MaxReports /\ rows \in Seq(1..(made + 1))
        /\ all \in Seq(1..(made + 1)) /\ all \in Seq(Nat) /\ Len(all) = Len(pending) + 1
        /\ Sorted(all) /\ Precedes(rows, all) /\ (hand # 0 => From(hand, all))
    BY <1>1, BufferFacts
  <1> HIDE DEF all
  <1>4. /\ pending' \in Seq(1..(made + 1)) /\ Len(pending') <= MaxPending
        /\ Sorted(pending') /\ Precedes(rows, pending')
        /\ hand # 0 => From(hand, pending')
    <2>1. CASE ~(Len(all) > MaxPending)
      <3>1. pending' = all /\ Len(all) <= MaxPending
        BY <1>1, <1>2, <1>3, <2>1
      <3> QED
        BY <1>3, <3>1
    <2>2. CASE Len(all) > MaxPending
      <3>a. Len(all) \in Nat
        BY <1>2, <1>3
      <3>b. cut \in 1..(Len(all) + 1)
        BY <1>2, <2>2, <3>a
      <3>c. pending' = SubSeq(all, cut, Len(all))
        BY <1>1, <2>2
      <3>1. cut \in 1..(Len(all) + 1) /\ pending' = SubSeq(all, cut, Len(all))
        BY <3>b, <3>c
      <3>2. Len(all) - cut + 1 = MaxPending
        BY <1>2, <1>3
      <3> HIDE DEF cut
      <3>3. /\ Len(pending') = Len(all) - cut + 1
            /\ Sorted(pending') /\ Precedes(rows, pending')
            /\ hand # 0 => From(hand, pending')
        BY <1>3, <3>1, SuffixOrder
      <3>4. \A i \in cut..Len(all) : all[i] \in 1..(made + 1)
        <4>1. \A i \in cut..Len(all) : i \in 1..Len(all)
          BY <3>a, <3>1
        <4> QED
          BY <1>3, <4>1, ElementOfSeq
      <3>5. pending' \in Seq(1..(made + 1))
        <4>1. cut \in Int /\ Len(all) \in Int
          BY <1>2, <1>3, <3>1
        <4> QED
          BY <3>1, <3>4, <4>1, SubSeqProperties
      <3> QED
        BY <1>2, <3>2, <3>3, <3>5
    <2> QED
      BY <2>1, <2>2
  <1>5. ReportOK'
    <2>1. hand' \in 0..(made + 1) /\ Len(pending') <= MaxPending + 1 + used'.faults
      BY <1>1, <1>2, <1>4, LenProperties
    <2> QED
      BY <1>1, <1>3, <1>4, <2>1 DEF ReportInv, ReportOK
  <1>6. CountInv'
    <2>1. Len(pending') <= MaxPending + used'.faults
      BY <1>1, <1>2, <1>4, LenProperties
    <2> QED
      BY <1>1, <1>2, <2>1 DEF CountInv
  <1>7. OrderInv'
    BY <1>1, <1>4 DEF ReportInv, OrderInv
  <1> QED
    BY <1>5, <1>6, <1>7 DEF ReportInv

\* A push or a trim that fails.
LEMMA BufferFailsReport ==
  ASSUME ReportInv, PlainOK, BufferFails PROVE ReportInv'
  <1> USE DEF time, trades, back
  <1>1. /\ pos = "open" /\ pos' = "reported" /\ made' = made + 1
        /\ pending' \in {pending, Longer} /\ UNCHANGED <<bound, rows, hand, closed>>
        /\ used' = [used EXCEPT !["faults"] = @ + 1]
    BY DEF BufferFails, Longer, Spend
  <1>2. /\ made \in Nat /\ hand \in Nat /\ hand <= made /\ MaxPending \in Nat \ {0}
        /\ Len(pending) \in Nat /\ used.faults \in Nat
    BY ReportNumbers
  <1>3. /\ made + 1 \in 0..MaxReports
        /\ pending \in Seq(1..(made + 1)) /\ rows \in Seq(1..(made + 1))
        /\ Longer \in Seq(1..(made + 1)) /\ Len(Longer) = Len(pending) + 1
        /\ Sorted(Longer) /\ Precedes(rows, Longer) /\ (hand # 0 => From(hand, Longer))
    BY <1>1, BufferFacts
  <1>4. used' \in Used /\ used'.faults = used.faults + 1
    BY <1>1 DEF ReportInv, ReportOK, Used
  <1>5. ReportOK'
    <2>1. Len(pending) <= MaxPending + 1 + used.faults
      BY DEF ReportInv, ReportOK
    <2>2. Len(pending') \in {Len(pending), Len(pending) + 1}
      BY <1>1, <1>3
    <2>3. hand' \in 0..(made + 1) /\ Len(pending') <= MaxPending + 1 + used'.faults
      BY <1>1, <1>2, <1>4, <2>1, <2>2
    <2> QED
      BY <1>1, <1>3, <1>4, <2>3 DEF ReportInv, ReportOK
  <1>6. CountInv'
    <2>a. hand # 0 => Len(pending) <= MaxPending + used.faults
      BY DEF ReportInv, CountInv
    <2>b. Len(pending') \in {Len(pending), Len(pending) + 1}
      BY <1>1, <1>3
    <2>1. hand # 0 => Len(pending') <= MaxPending + used'.faults
      BY <1>2, <1>4, <2>a, <2>b
    <2> QED
      BY <1>1, <1>2, <2>1 DEF CountInv
  <1>7. OrderInv'
    BY <1>1, <1>3 DEF ReportInv, OrderInv
  <1> QED
    BY <1>5, <1>6, <1>7 DEF ReportInv

\* order_exec: an entry, a report and the end.
LEMMA ExecutorReport ==
  ASSUME ReportInv, PlainOK, Executor PROVE ReportInv'
  <1> USE DEF time, trades, back
  <1>1. CASE Enter
    <2>1. /\ pos' = "open" /\ made < bound.reports
          /\ UNCHANGED <<bound, made, rows, pending, hand, closed, used>>
      BY <1>1 DEF Enter
    <2> QED
      BY <2>1 DEF ReportInv, ReportOK, CountInv, OrderInv
  <1>3. CASE CloseDone
    <2>1. /\ pos = "reported" /\ pos' = "none" /\ closed' = closed \cup {<<made, day>>}
          /\ UNCHANGED <<bound, made, rows, pending, hand, used>>
      BY <1>3 DEF CloseDone
    <2>2. made \in 1..MaxReports /\ day \in 1..MaxDay
      BY <2>1, SessionAssumption DEF ReportInv, ReportOK, CountInv, PlainOK
    <2> QED
      BY <2>1, <2>2 DEF ReportInv, ReportOK, CountInv, OrderInv
  <1> QED
    BY <1>1, <1>3, TrimReport, BufferFailsReport DEF Executor

\* Every step keeps the reports in order and within their limits.
LEMMA NextReports == PlainOK /\ ReportInv /\ [Next]_vars => ReportInv'
  <1> SUFFICES ASSUME PlainOK, ReportInv, [Next]_vars PROVE ReportInv'
    OBVIOUS
  <1> DEFINE Quiet == /\ UNCHANGED <<bound, made, rows>> /\ MoreUsed
                      /\ pos' \in {pos, "none"} /\ hand' \in {hand, 0}
                      /\ pending' \in {pending, <<>>} /\ closed' \subseteq closed
  <1>q. Quiet => ReportInv'
    BY ReportQuiet
  <1> USE DEF time, back, trades, Spend, MoreUsed
  <1>1. CASE InitStep \/ InitRaises
    <2>1. flush_runtime_namespaces => Quiet
      BY DEF flush_runtime_namespaces
    <2>2. TimerStart \/ Connect \/ apply_template \/ hydrate_all \/ Auth => Quiet
      BY DEF TimerStart, Connect, apply_template, hydrate_all, Auth
    <2>3. HolidayGate \/ SessionGate \/ Instruments \/ BuildIndex \/ Finish \/ InitRaises => Quiet
      BY DEF HolidayGate, SessionGate, Instruments, BuildIndex, Finish, InitRaises
    <2> HIDE DEF Quiet
    <2> QED
      BY <1>1, <1>q, <2>1, <2>2, <2>3 DEF InitStep
  <1>2. CASE Systemd \/ Trigger \/ TriggerFails
    <2>1. Quiet
      BY <1>2 DEF Systemd, StackUp, StopAndNight, Reboot, EnginesDown, PgDown, PgBack, Trigger,
         TriggerFails
    <2> QED
      BY <1>q, <2>1
  <1>3. CASE \/ BgStart \/ BgKilled \/ TaskDies \/ DropMalformed \/ Consumer \/ HandlerRaises
             \/ Poll
    <2>1. Quiet
      BY <1>3 DEF BgStart, BgKilled, TaskDies, DropMalformed, Consumer, ReadEvents, HandleEvent,
         on_daily_reset, HandlerRaises, Poll
    <2> QED
      BY <1>q, <2>1
  <1>4. CASE Operator
    <2>1. Quiet
      BY <1>4 DEF Operator, SetIndex, global_kill, global_resume, set_upstox_credentials,
         delete_upstox_credentials, upstox_webhook, bootstrap_from_file, set_capital_kill_switch,
         capital_kill_switch, BrokerSwitch, command_instrument_refresh
    <2> QED
      BY <1>q, <2>1
  <1>5. CASE UNCHANGED vars
    <2>1. Quiet
      BY <1>5 DEF vars
    <2> QED
      BY <1>q, <2>1
  <1> QED
    BY <1>1, <1>2, <1>3, <1>4, <1>5, PopReport, DrainReport, ExecutorReport
       DEF Next, Background, Drainer

\* The order of the whole line follows from the order of its parts.
LEMMA LineOrder == ReportInv => ReportsInOrder
  <1> SUFFICES ASSUME ReportInv PROVE ReportsInOrder
    OBVIOUS
  <1> DEFINE held == IF hand = 0 THEN <<>> ELSE <<hand>>
             front == rows \o held
             a == Len(rows)
             h == Len(held)
             b == Len(pending)
  <1>1. rows \in Seq(Nat) /\ pending \in Seq(Nat) /\ hand \in Nat /\ a \in Nat /\ b \in Nat
    BY ReportNumbers, LenProperties
  <1>2. /\ held \in Seq(Nat) /\ h \in {0, 1} /\ (h = 1 => hand # 0 /\ held[1] = hand)
    BY <1>1
  <1>3. /\ front \in Seq(Nat) /\ Len(front) = a + h
        /\ \A i \in 1..(a + h) : front[i] = IF i <= a THEN rows[i] ELSE held[i - a]
    BY <1>1, <1>2, ConcatProperties
  <1>4. /\ Len(Line) = a + h + b
        /\ \A i \in 1..(a + h + b) :
             Line[i] = IF i <= a + h THEN front[i] ELSE pending[i - (a + h)]
    <2>1. Line = front \o pending
      BY DEF Line
    <2>2. Len(pending) = b
      OBVIOUS
    <2> HIDE DEF front, held, a, h, b
    <2>3. /\ Len(Line) = Len(front) + Len(pending)
          /\ \A i \in 1..(Len(front) + Len(pending)) :
               Line[i] = IF i <= Len(front) THEN front[i] ELSE pending[i - Len(front)]
      BY <1>1, <1>3, <2>1, ConcatProperties
    <2> QED
      BY <1>3, <2>2, <2>3
  <1> HIDE DEF front, held, a, h, b
  <1>5. ASSUME NEW i \in 1..(a + h + b)
        PROVE  \/ i \in 1..a /\ Line[i] = rows[i]
               \/ h = 1 /\ i = a + 1 /\ Line[i] = hand
               \/ i > a + h /\ i - (a + h) \in 1..b /\ Line[i] = pending[i - (a + h)]
    <2>1. CASE i <= a
      <3>1. i \in 1..a /\ i \in 1..(a + h) /\ i <= a + h
        BY <1>1, <1>2, <2>1
      <3> QED
        BY <1>3, <1>4, <2>1, <3>1
    <2>2. CASE i > a /\ i <= a + h
      <3>1. h = 1 /\ i = a + 1 /\ i - a = 1 /\ i \in 1..(a + h)
        BY <1>1, <1>2, <2>2
      <3> QED
        BY <1>1, <1>2, <1>3, <1>4, <2>2, <3>1
    <2>3. CASE i > a + h
      <3>1. i - (a + h) \in 1..b /\ ~(i <= a + h)
        BY <1>1, <1>2, <2>3
      <3> QED
        BY <1>4, <2>3, <3>1
    <2> QED
      BY <1>1, <1>2, <2>1, <2>2, <2>3
  <1>6. /\ Sorted(rows) /\ Sorted(pending) /\ Precedes(rows, pending)
        /\ h = 1 => UpTo(rows, hand) /\ From(hand, pending)
    BY <1>2 DEF ReportInv, OrderInv
  <1> SUFFICES ASSUME NEW i \in 1..(a + h + b), NEW j \in 1..(a + h + b), i < j
               PROVE  Line[i] <= Line[j]
    BY <1>4 DEF ReportsInOrder
  <1>7. CASE i \in 1..a /\ Line[i] = rows[i]
    <2>1. CASE j \in 1..a /\ Line[j] = rows[j]
      BY <1>6, <1>7, <2>1 DEF Sorted, a
    <2>2. CASE h = 1 /\ Line[j] = hand
      BY <1>6, <1>7, <2>2 DEF UpTo, a
    <2>3. CASE j - (a + h) \in 1..b /\ Line[j] = pending[j - (a + h)]
      BY <1>6, <1>7, <2>3 DEF Precedes, a, b
    <2> QED
      BY <1>5, <2>1, <2>2, <2>3
  <1>8. CASE h = 1 /\ i = a + 1 /\ Line[i] = hand
    <2>1. j > a + h
      BY <1>1, <1>8
    <2>2. j - (a + h) \in 1..b /\ Line[j] = pending[j - (a + h)]
      BY <1>1, <1>2, <1>5, <2>1
    <2> QED
      BY <1>6, <1>8, <2>2 DEF From, b
  <1>9. CASE i > a + h /\ i - (a + h) \in 1..b /\ Line[i] = pending[i - (a + h)]
    <2>1. j > a + h /\ i - (a + h) < j - (a + h)
      BY <1>1, <1>2, <1>9
    <2>2. j - (a + h) \in 1..b /\ Line[j] = pending[j - (a + h)]
      BY <1>1, <1>2, <1>5, <2>1
    <2> QED
      BY <1>6, <1>9, <2>1, <2>2 DEF Sorted, b
  <1> QED
    BY <1>5, <1>7, <1>8, <1>9
-----------------------------------------------------------------------------
(* The scheduler's stream, and who is alive when.                          *)

\* The types of the stream, of its group and of background.
BusOK ==
  /\ events \in Seq(Event) /\ batch \in Seq(Event) /\ grp \in -1..Len(events)
  /\ bg \in BOOLEAN /\ tasks \subseteq Task

\* A step that leaves what both speak of.
LEMMA LifeFrame ==
  ASSUME BusOK, LifeInv,
         UNCHANGED <<ipc, stack, events, grp, bg, tasks, batch, pos, hand>>
  PROVE  BusOK' /\ LifeInv'
  BY DEF BusOK, LifeInv

\* Init runs while the engines are down.
LEMMA InitLife ==
  ASSUME PlainOK, BusOK, LifeInv, InitStep \/ InitRaises
  PROVE  BusOK' /\ LifeInv' /\ batch = <<>>
  <1> USE DEF time, initVars, flags, books, auth, kill, bus, back, trades
  <1>1. ipc \notin {"done", "failed"} /\ UNCHANGED <<stack, bg, tasks, batch, hand, pos>>
    <2>1. CASE TimerStart \/ Connect \/ flush_runtime_namespaces \/ apply_template \/ hydrate_all
      BY <2>1 DEF TimerStart, Connect, flush_runtime_namespaces, apply_template, hydrate_all,
         Goto
    <2>2. CASE Auth \/ HolidayGate \/ SessionGate \/ InitRaises
      BY <2>2 DEF Auth, HolidayGate, SessionGate, InitRaises
    <2>3. CASE Instruments \/ BuildIndex \/ Finish
      BY <2>3 DEF Instruments, BuildIndex, Finish
    <2> QED
      BY <2>1, <2>2, <2>3 DEF InitStep
  <1>2. UNCHANGED <<events, grp>> \/ (events' = <<>> /\ grp' = -1)
    <2>1. CASE TimerStart \/ Connect \/ flush_runtime_namespaces \/ apply_template \/ hydrate_all
      BY <2>1 DEF TimerStart, Connect, flush_runtime_namespaces, apply_template, hydrate_all
    <2>2. CASE Auth \/ HolidayGate \/ SessionGate \/ InitRaises
      BY <2>2 DEF Auth, HolidayGate, SessionGate, InitRaises
    <2>3. CASE Instruments \/ BuildIndex \/ Finish
      BY <2>3 DEF Instruments, BuildIndex, Finish
    <2> QED
      BY <2>1, <2>2, <2>3 DEF InitStep
  <1>3. ~stack /\ ~bg /\ tasks = {} /\ batch = <<>> /\ pos = "none" /\ hand = 0
    BY <1>1 DEF LifeInv
  <1>4. LifeInv'
    BY <1>1, <1>3 DEF LifeInv
  <1>5. BusOK'
    <2>1. CASE UNCHANGED <<events, grp>>
      BY <1>1, <2>1 DEF BusOK
    <2>2. CASE events' = <<>> /\ grp' = -1
      <3>1. <<>> \in Seq(Event) /\ Len(<<>>) = 0
        OBVIOUS
      <3>2. -1 \in -1..Len(<<>>)
        BY <3>1
      <3> QED
        BY <1>1, <2>2, <3>1, <3>2 DEF BusOK
    <2> QED
      BY <1>2, <2>1, <2>2
  <1> QED
    BY <1>3, <1>4, <1>5

\* The event of a job.
LEMMA JobFacts ==
  ASSUME PlainOK, BusOK, Trigger
  PROVE  /\ events' \in Seq(Event) /\ Len(events) <= Len(events')
         /\ \A i \in 1..Len(events') :
              (i \in 1..Len(events) /\ events'[i] = events[i]) \/ (stack /\ events'[i].day = day)
  <1>a. events \in Seq(Event) /\ Len(events) \in Nat
    BY LenProperties DEF BusOK
  <1>1. CASE ~stack
    <2>1. events' = events
      BY <1>1 DEF Trigger
    <2> QED
      BY <1>a, <2>1
  <1>2. CASE stack
    <2> DEFINE e == [kind |-> Triggers[clock'], day |-> day]
    <2>1. events' = Append(events, e) /\ clock' \in 1..Len(Triggers)
      BY <1>2, SessionAssumption, LenProperties DEF Trigger, Job, PlainOK
    <2>2. e \in Event
      BY <2>1, SessionAssumption, ElementOfSeq DEF PlainOK, Event
    <2>3. e.day = day
      OBVIOUS
    <2> HIDE DEF e
    <2>4. /\ events' \in Seq(Event) /\ Len(events') = Len(events) + 1
          /\ events'[Len(events) + 1] = e
          /\ \A i \in 1..Len(events) : events'[i] = events[i]
      BY <1>a, <2>1, <2>2, AppendProperties
    <2>5. \A i \in 1..Len(events') : i \in 1..Len(events) \/ i = Len(events) + 1
      BY <1>a, <2>4
    <2> QED
      BY <1>2, <1>a, <2>3, <2>4, <2>5
  <1> QED
    BY <1>1, <1>2 DEF PlainOK

\* systemd and the scheduler.
LEMMA SystemdLife ==
  ASSUME PlainOK, BusOK, LifeInv, Systemd \/ Trigger \/ TriggerFails PROVE BusOK' /\ LifeInv'
  <1> USE DEF time, initVars, bus, back, trades
  <1>1. CASE StackUp
    BY <1>1 DEF StackUp, BusOK, LifeInv
  <1>2. CASE StopAndNight \/ Reboot
    <2>1. /\ bg' = FALSE /\ tasks' = {} /\ batch' = <<>> /\ hand' = 0 /\ pos' = "none"
          /\ stack' = FALSE /\ UNCHANGED bus
      BY <1>2 DEF StopAndNight, Reboot, EnginesDown
    <2>2. LifeInv'
      BY <2>1 DEF LifeInv
    <2>3. BusOK'
      <3>1. <<>> \in Seq(Event)
        OBVIOUS
      <3>2. events' \in Seq(Event) /\ grp' \in -1..Len(events')
        BY <2>1 DEF BusOK
      <3>3. batch' \in Seq(Event) /\ bg' \in BOOLEAN /\ tasks' \subseteq Task
        BY <2>1, <3>1
      <3> QED
        BY <3>2, <3>3 DEF BusOK
    <2> QED
      BY <2>2, <2>3
  <1>3. CASE PgDown \/ PgBack \/ TriggerFails
    BY <1>3, LifeFrame DEF PgDown, PgBack, TriggerFails
  <1>4. CASE Trigger
    <2>1. UNCHANGED <<ipc, stack, grp, bg, tasks, batch, pos, hand>>
      BY <1>4 DEF Trigger
    <2>2. events' \in Seq(Event) /\ Len(events) <= Len(events')
      BY <1>4, JobFacts
    <2>3. Len(events) \in Nat /\ Len(events') \in Nat
      BY <2>2, LenProperties DEF BusOK
    <2>4. grp' \in -1..Len(events')
      BY <2>1, <2>2, <2>3 DEF BusOK
    <2> QED
      BY <2>1, <2>2, <2>4 DEF BusOK, LifeInv
  <1> QED
    BY <1>1, <1>2, <1>3, <1>4 DEF Systemd

\* The positions of what follows the g-th entry up to the h-th.
LEMMA WindowFacts ==
  ASSUME NEW g \in Int, NEW h \in Int, NEW n \in Nat, g >= 0, h <= n,
         NEW i \in 1..(h - (g + 1) + 1)
  PROVE  (g + 1) + i - 1 \in 1..n
  OBVIOUS

\* What the consumer is handed are events of the stream.
LEMMA ReadFacts ==
  ASSUME BusOK, LifeInv, ReadEvents
  PROVE  /\ grp' \in -1..Len(events) /\ grp' >= 0 /\ batch' \in Seq(Event)
         /\ \A i \in 1..Len(batch') : \E j \in 1..Len(events) : batch'[i] = events[j]
  <1>1. /\ "consumer" \in tasks /\ grp < Len(events)
        /\ grp' = IF grp + Batch < Len(events) THEN grp + Batch ELSE Len(events)
        /\ batch' = SubSeq(events, grp + 1, grp')
    BY DEF ReadEvents
  <1>2. grp >= 0 /\ grp \in Int /\ Len(events) \in Nat /\ events \in Seq(Event) /\ Batch \in Nat \ {0}
    BY <1>1, LenProperties, SessionAssumption DEF BusOK, LifeInv
  <1>3. grp' \in Int /\ grp + 1 <= grp' /\ grp' <= Len(events)
    BY <1>1, <1>2
  <1>4. \A i \in (grp + 1)..grp' : i \in 1..Len(events) /\ events[i] \in Event
    BY <1>2, <1>3, ElementOfSeq
  <1>5. /\ batch' \in Seq(Event) /\ Len(batch') = grp' - (grp + 1) + 1
        /\ \A i \in 1..(grp' - (grp + 1) + 1) : batch'[i] = events[(grp + 1) + i - 1]
    BY <1>1, <1>2, <1>3, <1>4, SubSeqProperties
  <1>6. ASSUME NEW i \in 1..Len(batch') PROVE \E j \in 1..Len(events) : batch'[i] = events[j]
    <2>1. i \in 1..(grp' - (grp + 1) + 1)
      BY <1>5
    <2>2. (grp + 1) + i - 1 \in 1..Len(events)
      BY <1>2, <1>3, <2>1, WindowFacts
    <2> QED
      BY <1>5, <2>1, <2>2
  <1>7. grp' \in -1..Len(events) /\ grp' >= 0
    BY <1>2, <1>3
  <1> QED
    BY <1>5, <1>6, <1>7

\* background.
LEMMA BackgroundLife ==
  ASSUME PlainOK, BusOK, LifeInv, Background PROVE BusOK' /\ LifeInv'
  <1> USE DEF time, initVars, bus, back, trades
  <1>0. Len(events) \in Nat /\ events \in Seq(Event) /\ batch \in Seq(Event) /\ <<>> \in Seq(Event)
    BY LenProperties DEF BusOK
  <1>1. CASE BgStart
    <2>1. grp' \in -1..Len(events) /\ grp' >= 0
      BY <1>0, <1>1 DEF BgStart, ensure_scheduler_group, BusOK
    <2>2. /\ stack /\ bg' = TRUE /\ tasks' = Task /\ "consumer" \in Task
          /\ UNCHANGED <<ipc, stack, events, batch, hand, pos>>
      BY <1>1 DEF BgStart, Task
    <2>3. BusOK'
      BY <2>1, <2>2 DEF BusOK
    <2>4. LifeInv'
      BY <2>1, <2>2 DEF LifeInv
    <2> QED
      BY <2>3, <2>4
  <1>2. CASE BgKilled
    <2>1. /\ bg' = FALSE /\ tasks' = {} /\ batch' = <<>> /\ hand' = 0
          /\ UNCHANGED <<ipc, stack, events, grp, pos>>
      BY <1>2 DEF BgKilled
    <2> QED
      BY <1>0, <2>1 DEF BusOK, LifeInv
  <1>3. CASE TaskDies
    <2>1. /\ bg /\ tasks' \subseteq tasks /\ (batch' = <<>> \/ ("consumer" \in tasks' /\ batch' = batch))
          /\ UNCHANGED <<ipc, stack, events, grp, pos, bg, hand>>
      BY <1>3 DEF TaskDies
    <2>2. batch' \in Seq(Event)
      BY <1>0, <2>1
    <2>3. BusOK'
      BY <2>1, <2>2 DEF BusOK
    <2> QED
      BY <2>1, <2>3 DEF LifeInv
  <1>4. CASE Drainer \/ DrainFails
    <2>1. bg /\ UNCHANGED <<ipc, stack, events, grp, bg, tasks, batch, pos>>
      BY <1>4 DEF Drainer, Pop, Insert, DropMalformed, Requeue, InsertRaises, DrainFails,
         LifeInv
    <2> QED
      BY <2>1 DEF BusOK, LifeInv
  <1>5. CASE ReadEvents
    <2>1. "consumer" \in tasks /\ UNCHANGED <<ipc, stack, events, bg, tasks, pos, hand>>
      BY <1>5 DEF ReadEvents
    <2>2. grp' \in -1..Len(events) /\ grp' >= 0 /\ batch' \in Seq(Event)
      BY <1>5, ReadFacts
    <2> QED
      BY <2>1, <2>2 DEF BusOK, LifeInv
  <1>6. CASE HandleEvent \/ HandlerRaises
    <2>1. /\ batch # <<>> /\ batch' = Tail(batch)
          /\ UNCHANGED <<ipc, stack, events, grp, bg, tasks, pos, hand>>
      BY <1>6 DEF HandleEvent, HandlerRaises
    <2>2. batch' \in Seq(Event)
      BY <1>0, <2>1, HeadTailProperties
    <2> QED
      BY <2>1, <2>2 DEF BusOK, LifeInv
  <1>7. CASE Poll
    BY <1>7, LifeFrame DEF Poll
  <1> QED
    BY <1>1, <1>2, <1>3, <1>4, <1>5, <1>6, <1>7 DEF Background, Consumer

\* Every step keeps the stream's types and who is alive when.
LEMMA NextLife == PlainOK /\ BusOK /\ LifeInv /\ [Next]_vars => BusOK' /\ LifeInv'
  <1> SUFFICES ASSUME PlainOK, BusOK, LifeInv, [Next]_vars PROVE BusOK' /\ LifeInv'
    OBVIOUS
  <1> USE DEF time, initVars, flags, books, auth, kill, bus, back, trades
  <1>1. CASE Operator
    <2>1. UNCHANGED <<ipc, stack, events, grp, bg, tasks, batch, pos, hand>>
      BY <1>1 DEF Operator, SetIndex, global_kill, global_resume, set_upstox_credentials,
         delete_upstox_credentials, upstox_webhook, bootstrap_from_file, set_capital_kill_switch,
         capital_kill_switch, BrokerSwitch, command_instrument_refresh
    <2> QED
      BY <2>1, LifeFrame
  <1>2. CASE Executor
    <2>1. stack /\ UNCHANGED <<ipc, stack, events, grp, bg, tasks, batch, hand>>
      BY <1>2 DEF Executor, Enter, buffer_report, BufferFails, CloseDone, LifeInv
    <2> QED
      BY <2>1 DEF BusOK, LifeInv
  <1>3. CASE UNCHANGED vars
    BY <1>3, LifeFrame DEF vars
  <1> QED
    BY <1>1, <1>2, <1>3, InitLife, SystemdLife, BackgroundLife DEF Next
-----------------------------------------------------------------------------
(* Nothing of an earlier day.                                              *)

\* What FreshDay says of the day's records once the template is applied.
TodayOnly ==
  /\ \A c \in closed : c[2] = day
  /\ \A i \in 1..Len(events) : events[i].day = day
  /\ \A i \in 1..Len(batch) : batch[i].day = day

\* What it says of what is traded.
Tradable ==
  \A i \in Index : /\ built[i].basket \subseteq desired
                   /\ built[i] # NotBuilt => built[i].expiry >= day

\* FreshDay in the two parts.
LEMMA FreshParts == FreshDay <=> (Templated => TodayOnly /\ Tradable)
  BY DEF FreshDay, TodayOnly, Tradable

\* The rest of a batch is of the day the batch is of.
LEMMA TailToday ==
  ASSUME BusOK, batch # <<>>, batch' = Tail(batch), \A i \in 1..Len(batch) : batch[i].day = day
  PROVE  \A i \in 1..Len(batch') : batch'[i].day = day
  <1>1. batch \in Seq(Event) /\ Len(batch) \in Nat
    BY LenProperties DEF BusOK
  <1>2. Len(batch') = Len(batch) - 1 /\ \A i \in 1..Len(batch') : batch'[i] = batch[i + 1]
    BY <1>1, HeadTailProperties
  <1>3. \A i \in 1..Len(batch') : i + 1 \in 1..Len(batch)
    BY <1>1, <1>2
  <1> QED
    BY <1>2, <1>3

\* A step after the template that drops records of today, or leaves them.
LEMMA FreshQuiet ==
  ASSUME FreshInv, Templated' => Templated, UNCHANGED <<day, built, desired, events>>,
         batch' \in {batch, <<>>}, closed' \subseteq closed
  PROVE  FreshInv'
  <1> SUFFICES ASSUME Templated' PROVE (TodayOnly /\ Tradable)'
    BY DEF FreshInv, FreshDay, TodayOnly, Tradable
  <1>1. TodayOnly /\ Tradable
    BY FreshParts DEF FreshInv
  <1>2. \A i \in 1..Len(batch') : batch'[i].day = day
    BY <1>1 DEF TodayOnly
  <1> QED
    BY <1>1, <1>2 DEF TodayOnly, Tradable

\* Init: the flush empties what is left of earlier days, step 11 builds for
\* today.
LEMMA InitFresh ==
  ASSUME PlainOK, BusOK, LifeInv, FreshInv, InitStep \/ InitRaises PROVE FreshInv'
  <1> USE DEF time, initVars, flags, books, auth, kill, bus, back, trades
  <1>1. CASE TimerStart \/ Connect
    <2>1. ~Templated' /\ built' = built
      BY <1>1 DEF TimerStart, Connect, Goto, InitFailed, Templated
    <2> QED
      BY <2>1 DEF FreshInv, FreshDay
  <1>2. CASE flush_runtime_namespaces
    <2>1. batch = <<>> /\ batch' = batch
      BY <1>2, InitLife DEF flush_runtime_namespaces, InitStep
    <2>2. events' = <<>> /\ closed' = {} /\ built' = [i \in Index |-> NotBuilt] /\ desired' = {}
      BY <1>2 DEF flush_runtime_namespaces
    <2>3. TodayOnly'
      BY <2>1, <2>2 DEF TodayOnly
    <2>4. Tradable'
      BY <2>2 DEF Tradable, NotBuilt
    <2> QED
      BY <2>2, <2>3, <2>4 DEF FreshInv, FreshDay, TodayOnly, Tradable
  <1>3. CASE apply_template \/ hydrate_all \/ Auth
    <2>1. Templated /\ UNCHANGED <<day, built, desired, events, batch, closed>>
      BY <1>3 DEF apply_template, hydrate_all, Auth, Goto, Templated
    <2> QED
      BY <2>1, FreshQuiet
  <1>4. CASE HolidayGate \/ SessionGate \/ Instruments \/ Finish
    <2>1. Templated /\ UNCHANGED <<day, built, desired, events, batch, closed>>
      BY <1>4 DEF HolidayGate, SessionGate, Instruments, Finish, Templated
    <2> QED
      BY <2>1, FreshQuiet
  <1>5. CASE InitRaises
    <2>1. ~Templated' /\ built' = built
      BY <1>5 DEF InitRaises, InitFailed, Templated
    <2> QED
      BY <2>1 DEF FreshInv, FreshDay
  <1>6. CASE BuildIndex
    <2>1. Templated /\ UNCHANGED <<day, events, batch, closed, ipc>>
      BY <1>6 DEF BuildIndex, Templated
    <2>2. TodayOnly /\ Tradable /\ DOMAIN built = Index
      BY <2>1, FreshParts DEF FreshInv
    <2>3. PICK i \in todo, spot \in get_ltp, contracts \in get_option_contracts :
            LET b == build_for_index(spot, contracts, day)
            IN /\ built' = [built EXCEPT ![i] = b]
               /\ desired' = desired \cup (IF b = NotBuilt THEN {} ELSE b.chain \cup {i})
      BY <1>6 DEF BuildIndex
    <2> DEFINE b == build_for_index(spot, contracts, day)
    <2>4. \A c \in contracts : c.expiry \in Nat
      BY SessionAssumption DEF get_option_contracts
    <2>5. day \in Nat
      BY SessionAssumption DEF PlainOK
    <2>6. b # NotBuilt => b.expiry >= day /\ b.basket \subseteq b.chain
      BY <2>4, <2>5, BuildFacts
    <2>7. /\ built' = [built EXCEPT ![i] = b]
          /\ desired' = desired \cup (IF b = NotBuilt THEN {} ELSE b.chain \cup {i})
      BY <2>3
    <2> HIDE DEF b
    <2>8. b.basket \subseteq desired'
      <3>1. CASE b = NotBuilt
        BY <3>1 DEF NotBuilt
      <3>2. CASE b # NotBuilt
        BY <2>6, <2>7, <3>2
      <3> QED
        BY <3>1, <3>2
    <2>9. Tradable'
      <3> SUFFICES ASSUME NEW j \in Index
                   PROVE  /\ built'[j].basket \subseteq desired'
                          /\ built'[j] # NotBuilt => built'[j].expiry >= day
        BY <2>1 DEF Tradable
      <3>1. CASE j = i
        <4>1. built'[j] = b
          BY <2>2, <2>7, <3>1
        <4> QED
          BY <2>6, <2>8, <4>1
      <3>2. CASE j # i
        <4>1. built'[j] = built[j] /\ desired \subseteq desired'
          BY <2>2, <2>7, <3>2
        <4> QED
          BY <2>2, <4>1 DEF Tradable
      <3> QED
        BY <3>1, <3>2
    <2>10. TodayOnly'
      BY <2>1, <2>2 DEF TodayOnly
    <2>11. DOMAIN built' = Index
      BY <2>2, <2>7
    <2> QED
      BY <2>9, <2>10, <2>11 DEF FreshInv, FreshDay, TodayOnly, Tradable
  <1> QED
    BY <1>1, <1>2, <1>3, <1>4, <1>5, <1>6 DEF InitStep

\* Every step leaves today's records, adds one of today, or ends the day.
LEMMA NextFresh == PlainOK /\ BusOK /\ LifeInv /\ FreshInv /\ [Next]_vars => FreshInv'
  <1> SUFFICES ASSUME PlainOK, BusOK, LifeInv, FreshInv, [Next]_vars PROVE FreshInv'
    OBVIOUS
  <1>p. Templated => TodayOnly /\ Tradable
    BY FreshParts DEF FreshInv
  <1> USE DEF time, initVars, flags, books, auth, kill, bus, back, trades
  <1>1. CASE StopAndNight \/ Reboot
    <2>1. ~Templated' /\ built' = built
      BY <1>1 DEF StopAndNight, Reboot, Templated
    <2> QED
      BY <2>1 DEF FreshInv, FreshDay
  <1>2. CASE StackUp \/ PgDown \/ PgBack \/ TriggerFails \/ UNCHANGED vars
    <2>1. UNCHANGED <<ipc, day, built, desired, events, batch, closed>>
      BY <1>2 DEF StackUp, PgDown, PgBack, TriggerFails, vars
    <2> QED
      BY <2>1, FreshQuiet DEF Templated
  <1>3. CASE BgStart \/ BgKilled \/ TaskDies \/ Drainer \/ DrainFails \/ Poll
    <2>1. UNCHANGED <<ipc, day, built, desired, events, closed>> /\ batch' \in {batch, <<>>}
      BY <1>3 DEF BgStart, BgKilled, TaskDies, Drainer, Pop, Insert, DropMalformed, Requeue,
         DrainFails, Poll
    <2> QED
      BY <2>1, FreshQuiet DEF Templated
  <1>4. CASE Operator
    <2>1. UNCHANGED <<ipc, day, built, desired, events, batch, closed>>
      BY <1>4 DEF Operator, SetIndex, global_kill, global_resume, set_upstox_credentials,
         delete_upstox_credentials, upstox_webhook, bootstrap_from_file, set_capital_kill_switch,
         capital_kill_switch, BrokerSwitch, command_instrument_refresh
    <2> QED
      BY <2>1, FreshQuiet DEF Templated
  <1>5. CASE Enter \/ buffer_report \/ BufferFails
    <2>1. UNCHANGED <<ipc, day, built, desired, events, batch, closed>>
      BY <1>5 DEF Enter, buffer_report, BufferFails
    <2> QED
      BY <2>1, FreshQuiet DEF Templated
  <1>6. ASSUME UNCHANGED <<ipc, day, built, desired>>, TodayOnly => TodayOnly' PROVE FreshInv'
    <2> SUFFICES ASSUME Templated' PROVE (TodayOnly /\ Tradable)'
      BY <1>6 DEF FreshInv, FreshDay, TodayOnly, Tradable
    <2>1. TodayOnly /\ Tradable
      BY <1>6, <1>p DEF Templated
    <2> QED
      BY <1>6, <2>1 DEF Tradable
  <1>7. CASE Trigger
    <2>1. UNCHANGED <<ipc, day, built, desired, batch, closed>>
      BY <1>7 DEF Trigger
    <2>2. TodayOnly => TodayOnly'
      BY <1>7, <2>1, JobFacts DEF TodayOnly
    <2> QED
      BY <1>6, <2>1, <2>2
  <1>8. CASE ReadEvents
    <2>1. UNCHANGED <<ipc, day, built, desired, events, closed>>
      BY <1>8 DEF ReadEvents
    <2>2. TodayOnly => TodayOnly'
      BY <1>8, <2>1, ReadFacts DEF TodayOnly
    <2> QED
      BY <1>6, <2>1, <2>2
  <1>9. CASE HandleEvent \/ HandlerRaises
    <2>1. /\ UNCHANGED <<ipc, day, built, desired, events>> /\ closed' \subseteq closed
          /\ batch # <<>> /\ batch' = Tail(batch)
      BY <1>9 DEF HandleEvent, HandlerRaises, on_daily_reset
    <2>2. TodayOnly => TodayOnly'
      BY <2>1, TailToday DEF TodayOnly
    <2> QED
      BY <1>6, <2>1, <2>2
  <1>10. CASE CloseDone
    <2>1. UNCHANGED <<ipc, day, built, desired, events, batch>> /\ closed' = closed \cup {<<made, day>>}
      BY <1>10 DEF CloseDone
    <2>2. TodayOnly => TodayOnly'
      BY <2>1 DEF TodayOnly
    <2> QED
      BY <1>6, <2>1, <2>2
  <1> QED
    BY <1>1, <1>2, <1>3, <1>4, <1>5, <1>7, <1>8, <1>9, <1>10, InitFresh
       DEF Next, Systemd, Background, Consumer, Executor
-----------------------------------------------------------------------------
(* The theorems.                                                           *)

\* TypeOK in its three parts.
LEMMA TypeParts == TypeOK <=> PlainOK /\ BusOK /\ ReportOK
  BY DEF TypeOK, PlainOK, BusOK, ReportOK, Flag, InitPlace, Event, Used

\* The first morning.
LEMMA InitSInv == Init => SInv
  <1> SUFFICES ASSUME Init PROVE SInv
    OBVIOUS
  <1>0. <<>> \in Seq(1..0) /\ <<>> \in Seq(Event) /\ Len(<<>>) = 0 /\ Len(Triggers) \in Nat
    BY SessionAssumption, LenProperties
  <1>1. PlainOK
    <2>1. flag \in Flag
      BY DEF Init, Off, Flag, Reasons
    <2>2. enabled \in [Index -> BOOLEAN] /\ day \in 1..MaxDay /\ clock \in 0..Len(Triggers)
          /\ master \in 0..MaxDay
      BY <1>0, SessionAssumption DEF Init
    <2> QED
      BY <2>1, <2>2 DEF Init, PlainOK, InitPlace
  <1>2. BusOK
    <2>1. /\ events = <<>> /\ batch = <<>> /\ grp = -1 /\ bg = FALSE /\ tasks = {}
      BY DEF Init
    <2>2. -1 \in -1..Len(<<>>)
      BY <1>0
    <2> QED
      BY <1>0, <2>1, <2>2 DEF BusOK
  <1>3. ReportOK
    BY <1>0, SessionAssumption DEF Init, ReportOK, Used
  <1>4. LifeInv /\ CountInv
    BY DEF Init, LifeInv, CountInv
  <1>5. FreshInv
    BY DEF Init, FreshInv, FreshDay, Templated
  <1>6. OrderInv
    BY <1>0 DEF Init, OrderInv, Sorted, Precedes
  <1> QED
    BY <1>1, <1>2, <1>3, <1>4, <1>5, <1>6, TypeParts DEF SInv

\* Every step preserves the invariant.
LEMMA NextSInv == SInv /\ [Next]_vars => SInv'
  <1> SUFFICES ASSUME SInv, [Next]_vars PROVE SInv'
    OBVIOUS
  <1>1. PlainOK /\ BusOK /\ LifeInv /\ FreshInv /\ ReportInv
    BY TypeParts DEF SInv, ReportInv
  <1>2. PlainOK' /\ BusOK' /\ LifeInv' /\ FreshInv' /\ ReportInv'
    BY <1>1, NextPlain, NextLife, NextFresh, NextReports
  <1>3. TypeOK'
    <2>1. (TypeOK <=> PlainOK /\ BusOK /\ ReportOK)'
      BY TypeParts, PTL
    <2> QED
      BY <1>2, <2>1 DEF ReportInv
  <1> QED
    BY <1>2, <1>3 DEF SInv, ReportInv

\* The invariant holds of every behaviour, over any number of days.
THEOREM AlwaysSInv == Spec => []SInv
  BY InitSInv, NextSInv, PTL DEF Spec

\* Types, and the limit of orders:reports:pending: LTRIM keeps MaxPending, a
\* report put back by the drainer may be one more, and so may each report whose
\* LTRIM failed.
THEOREM AlwaysTypeOK == Spec => []TypeOK
  <1>1. SInv => TypeOK
    BY DEF SInv
  <1> QED
    BY <1>1, AlwaysSInv, PTL

\* Once init has templated the day nothing of an earlier day is left, and what
\* is traded is subscribed and has not expired.
THEOREM AlwaysFreshDay == Spec => []FreshDay
  <1>1. SInv => FreshDay
    BY DEF SInv, FreshInv
  <1> QED
    BY <1>1, AlwaysSInv, PTL

\* Reports reach Postgres in the order in which they were buffered, through
\* outages, refusals, kills, duplicates and trims.
THEOREM AlwaysReportsInOrder == Spec => []ReportsInOrder
  <1>1. SInv => ReportsInOrder
    BY TypeParts, LineOrder DEF SInv, ReportInv
  <1> QED
    BY <1>1, AlwaysSInv, PTL
=============================================================================
