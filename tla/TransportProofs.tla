----------------------------- MODULE TransportProofs -----------------------------
(***************************************************************************)
(* Proofs about Transport and UdpBind, for any endpoints of either         *)
(* backend, configurations, buffers and faults.                            *)
(***************************************************************************)
EXTENDS Transport, TLAPS

\* The places of a constructor before and after its bind call.
MioBefore == {"socket", "reuse", "buffers", "nonblock", "bind"}
MioAfter == {"local", "poll", "register", "pool"}
TokioBefore == {"socket", "reuse", "buffers", "knobs", "nonblock", "bind"}
TokioAfter == {"from_std", "pool"}

Before(e) == IF Backend[e] = "mio" THEN MioBefore ELSE TokioBefore
After(e) == IF Backend[e] = "mio" THEN MioAfter ELSE TokioAfter

\* Outside a constructor: no socket, or one of the Tcp variant.
Outside == {"none", "stream"}

Bound(e) == at[e] \in After(e) \cup {"up"}

LEMMA BackendCases ==
  ASSUME NEW e \in Endpoints
  PROVE  Backend[e] = "mio" \/ Backend[e] = "tokio"
  BY BindAssumption

(***************************************************************************)
(* The tables of Order, call by call.                                      *)
(***************************************************************************)
LEMMA MioOrder ==
  ASSUME NEW e \in Endpoints, Backend[e] = "mio"
  PROVE  /\ at[e] = "socket" => Then(e) = "reuse"
         /\ at[e] = "reuse" => Then(e) = "buffers"
         /\ at[e] = "buffers" => Then(e) = "nonblock"
         /\ at[e] = "nonblock" => Then(e) = "bind"
         /\ at[e] = "bind" => Then(e) = "local"
         /\ at[e] = "local" => Then(e) = "poll"
         /\ at[e] = "poll" => Then(e) = "register"
         /\ at[e] = "register" => Then(e) = "pool"
         /\ at[e] = "pool" => Then(e) = "up"
<1>1. Calls(e) = <<"socket", "reuse", "buffers", "nonblock", "bind", "local",
                   "poll", "register", "pool">>
  BY DEF Calls, Order
<1>2. /\ Len(Calls(e)) = 9 /\ DOMAIN Calls(e) = 1 .. 9
      /\ Calls(e)[1] = "socket" /\ Calls(e)[2] = "reuse" /\ Calls(e)[3] = "buffers"
      /\ Calls(e)[4] = "nonblock" /\ Calls(e)[5] = "bind" /\ Calls(e)[6] = "local"
      /\ Calls(e)[7] = "poll" /\ Calls(e)[8] = "register" /\ Calls(e)[9] = "pool"
  BY <1>1
<1>3. ASSUME NEW k \in 1 .. 8, at[e] = Calls(e)[k]
      PROVE  Then(e) = Calls(e)[k + 1]
  <2>1. \A i \in 1 .. 9 : Calls(e)[i] = Calls(e)[k] => i = k
    BY <1>2, <1>3
  <2>2. Position(e, at[e]) = k
    BY <1>2, <1>3, <2>1 DEF Position
  <2>3. at[e] # Calls(e)[Len(Calls(e))]
    BY <1>2, <1>3, <2>1
  <2> QED BY <2>2, <2>3 DEF Then
<1>4. at[e] = "pool" => Then(e) = "up"
  BY <1>2 DEF Then
<1> QED BY <1>2, <1>3, <1>4

LEMMA TokioOrder ==
  ASSUME NEW e \in Endpoints, Backend[e] = "tokio"
  PROVE  /\ at[e] = "socket" => Then(e) = "reuse"
         /\ at[e] = "reuse" => Then(e) = "buffers"
         /\ at[e] = "buffers" => Then(e) = "knobs"
         /\ at[e] = "knobs" => Then(e) = "nonblock"
         /\ at[e] = "nonblock" => Then(e) = "bind"
         /\ at[e] = "bind" => Then(e) = "from_std"
         /\ at[e] = "from_std" => Then(e) = "pool"
         /\ at[e] = "pool" => Then(e) = "up"
<1>1. Calls(e) = <<"socket", "reuse", "buffers", "knobs", "nonblock", "bind",
                   "from_std", "pool">>
  BY DEF Calls, Order
<1>2. /\ Len(Calls(e)) = 8 /\ DOMAIN Calls(e) = 1 .. 8
      /\ Calls(e)[1] = "socket" /\ Calls(e)[2] = "reuse" /\ Calls(e)[3] = "buffers"
      /\ Calls(e)[4] = "knobs" /\ Calls(e)[5] = "nonblock" /\ Calls(e)[6] = "bind"
      /\ Calls(e)[7] = "from_std" /\ Calls(e)[8] = "pool"
  BY <1>1
<1>3. ASSUME NEW k \in 1 .. 7, at[e] = Calls(e)[k]
      PROVE  Then(e) = Calls(e)[k + 1]
  <2>1. \A i \in 1 .. 8 : Calls(e)[i] = Calls(e)[k] => i = k
    BY <1>2, <1>3
  <2>2. Position(e, at[e]) = k
    BY <1>2, <1>3, <2>1 DEF Position
  <2>3. at[e] # Calls(e)[Len(Calls(e))]
    BY <1>2, <1>3, <2>1
  <2> QED BY <2>2, <2>3 DEF Then
<1>4. at[e] = "pool" => Then(e) = "up"
  BY <1>2 DEF Then
<1> QED BY <1>2, <1>3, <1>4

\* The endpoints past their bind call are those whose socket is bound.
LEMMA PastIsBound ==
  ASSUME NEW e \in Endpoints, Bound(e)
  PROVE  Past(e)
<1>1. CASE Backend[e] = "mio"
  <2>1. Calls(e) = <<"socket", "reuse", "buffers", "nonblock", "bind", "local",
                     "poll", "register", "pool">>
    BY <1>1 DEF Calls, Order
  <2>2. /\ DOMAIN Calls(e) = 1 .. 9 /\ Calls(e)[5] = "bind" /\ Calls(e)[6] = "local"
        /\ Calls(e)[7] = "poll" /\ Calls(e)[8] = "register" /\ Calls(e)[9] = "pool"
    BY <2>1
  <2>3. at[e] \in {"local", "poll", "register", "pool", "up"}
    BY <1>1 DEF Bound, After, MioAfter
  <2>4. at[e] = "up" \/ \E i \in 6 .. 9 : Calls(e)[i] = at[e]
    BY <2>2, <2>3
  <2> QED BY <2>2, <2>4 DEF Past
<1>2. CASE Backend[e] = "tokio"
  <2>1. Calls(e) = <<"socket", "reuse", "buffers", "knobs", "nonblock", "bind",
                     "from_std", "pool">>
    BY <1>2 DEF Calls, Order
  <2>2. /\ DOMAIN Calls(e) = 1 .. 8 /\ Calls(e)[6] = "bind"
        /\ Calls(e)[7] = "from_std" /\ Calls(e)[8] = "pool"
    BY <2>1
  <2>3. at[e] \in {"from_std", "pool", "up"}
    BY <1>2 DEF Bound, After, TokioAfter
  <2>4. at[e] = "up" \/ \E i \in 7 .. 8 : Calls(e)[i] = at[e]
    BY <2>2, <2>3
  <2> QED BY <2>2, <2>4 DEF Past
<1> QED BY <1>1, <1>2, BackendCases
--------------------------------------------------------------------------------
Places == Outside \cup MioBefore \cup MioAfter \cup TokioBefore \cup TokioAfter \cup {"up"}
Flags == SUBSET {"addr", "port"}

BindTypes ==
  /\ at \in [Endpoints -> Places]
  /\ cfg \in [Endpoints -> Config]
  /\ flags \in [Endpoints -> Flags]
  /\ room \in [Endpoints -> Nat] /\ queue \in [Endpoints -> Nat]
  /\ full \in [Endpoints -> SUBSET Nat]
  /\ faults \in Nat

(***************************************************************************)
(* What an endpoint's place says of its socket: the options are set before *)
(* the bind call and stay as they were asked for, and nothing can have     *)
(* been dropped for want of room at a socket that is not bound.            *)
(***************************************************************************)
Settled(e) ==
  /\ at[e] \in Outside \cup Before(e) \cup After(e) \cup {"up"}
  /\ at[e] \in {"buffers", "knobs", "nonblock", "bind"} \/ Bound(e) =>
       flags[e] = cfg[e].reuse
  /\ at[e] \in {"knobs", "nonblock", "bind"} \/ Bound(e) =>
       room[e] = Granted(cfg[e].rcvbuf)
  /\ ~Bound(e) => full[e] = {}
  /\ \A n \in full[e] : n >= Granted(cfg[e].rcvbuf)

\* The kernel's side of it: who holds the address is past its bind call.
Held(h) == h.owner \in Endpoints /\ Bound(h.owner) /\ h.flags = cfg[h.owner].reuse

BindInv ==
  /\ BindTypes
  /\ \A e \in Endpoints : Settled(e)
  /\ \A h \in holders : Held(h)

LEMMA GrantedType == \A k \in Nat : Granted(k) \in Nat
  BY BindAssumption DEF Granted

LEMMA BindInitOK == BindInit => BindInv
<1> SUFFICES ASSUME BindInit PROVE BindInv
  OBVIOUS
<1>1. NoCall \in Config
  BY DEF NoCall, Config
<1>2. BindTypes
  <2>1. {} \in Flags /\ {} \in SUBSET Nat /\ "none" \in Places /\ RmemDefault \in Nat
    BY BindAssumption DEF Flags, Places, Outside
  <2> QED BY <1>1, <2>1 DEF BindInit, BindTypes
<1>3. ASSUME NEW e \in Endpoints PROVE Settled(e)
  <2>1. at[e] = "none" /\ full[e] = {}
    BY DEF BindInit
  <2>2. ~Bound(e)
    BY <2>1 DEF Bound, After, MioAfter, TokioAfter
  <2> QED BY <2>1, <2>2 DEF Settled, Outside
<1> QED BY <1>2, <1>3 DEF BindInv, BindInit

(***************************************************************************)
(* A step of one endpoint leaves the others settled, and what they hold.   *)
(***************************************************************************)
Elsewhere(e) ==
  \A f \in Endpoints \ {e} :
    at'[f] = at[f] /\ cfg'[f] = cfg[f] /\ flags'[f] = flags[f] /\ room'[f] = room[f]
      /\ full'[f] = full[f]

LEMMA OthersSettled ==
  ASSUME BindInv, NEW e \in Endpoints, Elsewhere(e)
  PROVE  /\ \A f \in Endpoints \ {e} : Settled(f)'
         /\ \A h \in holders : h.owner # e => Held(h)'
<1>1. ASSUME NEW f \in Endpoints \ {e} PROVE Settled(f)' /\ (Bound(f) <=> Bound(f)')
  BY <1>1 DEF BindInv, Elsewhere, Settled, Bound, Before, After, Granted
<1>2. ASSUME NEW h \in holders, h.owner # e PROVE Held(h)'
  BY <1>1, <1>2 DEF BindInv, Elsewhere, Held
<1> QED BY <1>1, <1>2

\* Wherever a constructor leaves, and when a transport is dropped, nothing stays.
LEMMA LeaveKeeps ==
  ASSUME BindInv, NEW e \in Endpoints, Leave(e), faults' \in Nat
  PROVE  BindInv'
<1>1. NoCall \in Config
  BY DEF NoCall, Config
<1>2. BindTypes'
  <2>1. {} \in Flags /\ {} \in SUBSET Nat /\ "none" \in Places /\ RmemDefault \in Nat
    BY BindAssumption DEF Flags, Places, Outside
  <2> QED BY <1>1, <2>1 DEF Leave, Clear, BindInv, BindTypes
<1>3. Elsewhere(e) /\ at'[e] = "none" /\ full'[e] = {}
      /\ holders' = {h \in holders : h.owner # e}
  BY DEF Leave, Clear, BindInv, BindTypes, Elsewhere
<1>4. Settled(e)'
  <2>1. ~Bound(e)'
    BY <1>3 DEF Bound, After, MioAfter, TokioAfter
  <2> QED BY <1>3, <2>1 DEF Settled, Outside
<1> QED BY <1>2, <1>3, <1>4, OthersSettled DEF BindInv

(***************************************************************************)
(* A constructor that goes on: the place moves along Order.                *)
(***************************************************************************)
LEMMA AdvanceKeeps ==
  ASSUME BindInv, NEW e \in Endpoints,
         Proceed(e) \/ SetReuse(e) \/ SetBuffers(e) \/ BuildPool(e)
  PROVE  BindInv'
<1>1. /\ Advance(e) /\ UNCHANGED <<cfg, holders, queue, full, faults>>
      /\ Elsewhere(e)
      /\ flags' = flags \/ (at[e] = "reuse" /\ flags' = [flags EXCEPT ![e] = cfg[e].reuse])
      /\ room' = room
           \/ (at[e] = "buffers" /\ room' = [room EXCEPT ![e] = Granted(cfg[e].rcvbuf)])
      /\ at[e] = "reuse" => flags'[e] = cfg[e].reuse
      /\ at[e] = "buffers" => room'[e] = Granted(cfg[e].rcvbuf)
      /\ at[e] \notin {"none", "stream", "bind", "up"}
  BY DEF Proceed, SetReuse, SetBuffers, BuildPool, Advance, kernel, BindInv, BindTypes, Elsewhere
<1>2. at' = [at EXCEPT ![e] = Then(e)] /\ at'[e] = Then(e)
  BY <1>1 DEF Advance, BindInv, BindTypes
<1>3. Settled(e)
  BY DEF BindInv
<1>4. /\ flags'[e] = (IF at[e] = "reuse" THEN cfg[e].reuse ELSE flags[e])
      /\ room'[e] = (IF at[e] = "buffers" THEN Granted(cfg[e].rcvbuf) ELSE room[e])
      /\ cfg'[e] = cfg[e] /\ full'[e] = full[e]
      /\ Granted(cfg[e].rcvbuf)' = Granted(cfg[e].rcvbuf)
  BY <1>1 DEF Granted
<1>5. Settled(e)' /\ (Bound(e) => Bound(e)')
  <2>1. CASE Backend[e] = "mio"
    <3>1. <<at[e], at'[e]>> \in
            {<<"socket", "reuse">>, <<"reuse", "buffers">>, <<"buffers", "nonblock">>,
             <<"nonblock", "bind">>, <<"local", "poll">>, <<"poll", "register">>,
             <<"register", "pool">>, <<"pool", "up">>}
      BY <1>1, <1>2, <1>3, <2>1, MioOrder DEF Settled, Outside, Before, After, MioBefore,
         MioAfter
    <3>2. /\ Bound(e) <=> at[e] \in {"local", "poll", "register", "pool", "up"}
          /\ Bound(e)' <=> at'[e] \in {"local", "poll", "register", "pool", "up"}
      BY <2>1 DEF Bound, After, MioAfter
    <3>3. at'[e] \in Before(e) \cup After(e) \cup {"up"}
      BY <2>1, <3>1 DEF Before, After, MioBefore, MioAfter
    <3>4. Bound(e) => Bound(e)'
      BY <3>1, <3>2
    <3>5. at'[e] \in {"buffers", "knobs", "nonblock", "bind"} \/ Bound(e)' =>
            at[e] = "reuse" \/ at[e] \in {"buffers", "knobs", "nonblock", "bind"} \/ Bound(e)
      BY <3>1, <3>2
    <3>6. at'[e] \in {"knobs", "nonblock", "bind"} \/ Bound(e)' =>
            at[e] = "buffers" \/ at[e] \in {"knobs", "nonblock", "bind"} \/ Bound(e)
      BY <3>1, <3>2
    <3> QED BY <1>3, <1>4, <3>3, <3>4, <3>5, <3>6 DEF Settled
  <2>2. CASE Backend[e] = "tokio"
    <3>1. <<at[e], at'[e]>> \in
            {<<"socket", "reuse">>, <<"reuse", "buffers">>, <<"buffers", "knobs">>,
             <<"knobs", "nonblock">>, <<"nonblock", "bind">>, <<"from_std", "pool">>,
             <<"pool", "up">>}
      BY <1>1, <1>2, <1>3, <2>2, TokioOrder DEF Settled, Outside, Before, After,
         TokioBefore, TokioAfter
    <3>2. /\ Bound(e) <=> at[e] \in {"from_std", "pool", "up"}
          /\ Bound(e)' <=> at'[e] \in {"from_std", "pool", "up"}
      BY <2>2 DEF Bound, After, TokioAfter
    <3>3. at'[e] \in Before(e) \cup After(e) \cup {"up"}
      BY <2>2, <3>1 DEF Before, After, TokioBefore, TokioAfter
    <3>4. Bound(e) => Bound(e)'
      BY <3>1, <3>2
    <3>5. at'[e] \in {"buffers", "knobs", "nonblock", "bind"} \/ Bound(e)' =>
            at[e] = "reuse" \/ at[e] \in {"buffers", "knobs", "nonblock", "bind"} \/ Bound(e)
      BY <3>1, <3>2
    <3>6. at'[e] \in {"knobs", "nonblock", "bind"} \/ Bound(e)' =>
            at[e] = "buffers" \/ at[e] \in {"knobs", "nonblock", "bind"} \/ Bound(e)
      BY <3>1, <3>2
    <3> QED BY <1>3, <1>4, <3>3, <3>4, <3>5, <3>6 DEF Settled
  <2> QED BY <2>1, <2>2, BackendCases
<1>6. BindTypes'
  <2>1. at'[e] \in Places
    BY <1>5 DEF Settled, Before, After, Places
  <2>2. cfg[e].reuse \in Flags /\ Granted(cfg[e].rcvbuf) \in Nat
    BY GrantedType DEF BindInv, BindTypes, Config, Flags
  <2> QED BY <1>1, <1>2, <2>1, <2>2 DEF BindInv, BindTypes
<1>7. ASSUME NEW h \in holders, h.owner = e PROVE Held(h)'
  BY <1>1, <1>4, <1>5, <1>7 DEF BindInv, Held
<1> QED BY <1>1, <1>5, <1>6, <1>7, OthersSettled DEF BindInv

LEMMA CallKeeps ==
  ASSUME BindInv, NEW e \in Endpoints, NEW c \in Configs, BindCall(e, c)
  PROVE  BindInv'
<1>1. /\ at[e] = "none" /\ at' = [at EXCEPT ![e] = "socket"] /\ cfg' = [cfg EXCEPT ![e] = c]
      /\ UNCHANGED <<flags, room, holders, queue, full, faults>> /\ Elsewhere(e)
  BY DEF BindCall, kernel, BindInv, BindTypes, Elsewhere
<1>2. at'[e] = "socket" /\ full'[e] = {} /\ ~Bound(e) /\ ~Bound(e)'
  BY <1>1 DEF BindInv, BindTypes, Settled, Bound, After, MioAfter, TokioAfter
<1>3. Settled(e)'
  BY <1>2 DEF Settled, Before, MioBefore, TokioBefore
<1>4. BindTypes'
  <2>1. c \in Config /\ "socket" \in Places
    BY BindAssumption DEF Places, MioBefore
  <2> QED BY <1>1, <2>1 DEF BindInv, BindTypes
<1>5. \A h \in holders : h.owner # e
  BY <1>2 DEF BindInv, Held
<1> QED BY <1>1, <1>3, <1>4, <1>5, OthersSettled DEF BindInv

LEMMA AddressKeeps ==
  ASSUME BindInv, NEW e \in Endpoints, BindAddress(e)
  PROVE  BindInv'
<1>1. /\ at[e] = "bind" /\ at' = [at EXCEPT ![e] = Then(e)]
      /\ UNCHANGED <<cfg, flags, room, queue, full, faults>> /\ Elsewhere(e)
      /\ holders' = holders \cup {[owner |-> e, flags |-> flags[e]]}
  BY DEF BindAddress, Advance, BindInv, BindTypes, Elsewhere
<1>2. at'[e] = Then(e) /\ Then(e) \in After(e)
  <2>1. CASE Backend[e] = "mio"
    BY <1>1, <2>1, MioOrder DEF BindInv, BindTypes, After, MioAfter
  <2>2. CASE Backend[e] = "tokio"
    BY <1>1, <2>2, TokioOrder DEF BindInv, BindTypes, After, TokioAfter
  <2> QED BY <2>1, <2>2, BackendCases
<1>3. ~Bound(e) /\ Bound(e)'
  BY <1>1, <1>2 DEF Bound, After, MioAfter, TokioAfter
<1>4. /\ flags'[e] = cfg'[e].reuse /\ room'[e] = Granted(cfg'[e].rcvbuf)
      /\ full'[e] = {}
  BY <1>1, <1>3 DEF BindInv, Settled
<1>5. Settled(e)'
  BY <1>2, <1>3, <1>4 DEF Settled, After, Granted
<1>6. BindTypes'
  <2>1. Then(e) \in Places
    BY <1>2 DEF Places, After
  <2> QED BY <1>1, <2>1 DEF BindInv, BindTypes
<1>7. \A h \in holders : h.owner # e
  BY <1>3 DEF BindInv, Held
<1>8. ASSUME NEW h \in holders' PROVE Held(h)'
  <2>1. CASE h \in holders
    BY <1>7, <2>1, OthersSettled, <1>1
  <2>2. CASE h = [owner |-> e, flags |-> flags[e]]
    BY <1>1, <1>3, <1>4, <2>2 DEF Held
  <2> QED BY <1>1, <2>1, <2>2
<1> QED BY <1>1, <1>5, <1>6, <1>8, OthersSettled DEF BindInv

(***************************************************************************)
(* A datagram is only ever dropped at a bound socket, whose buffer is the  *)
(* one that was granted.                                                   *)
(***************************************************************************)
LEMMA ArriveKeeps ==
  ASSUME BindInv, NEW e \in Endpoints, Arrive(e)
  PROVE  BindInv'
<1>1. /\ UNCHANGED <<at, cfg, flags, room, holders, faults>>
      /\ \/ queue' = [queue EXCEPT ![e] = @ + 1] /\ full' = full
         \/ queue[e] >= room[e] /\ full' = [full EXCEPT ![e] = {queue[e]}] /\ queue' = queue
  BY DEF Arrive, BindInv, BindTypes
<1>2. BindTypes' /\ Elsewhere(e)
  BY <1>1 DEF BindInv, BindTypes, Elsewhere
<1>3. Bound(e)
  BY DEF Arrive, BindInv, Held
<1>4. room[e] = Granted(cfg[e].rcvbuf) /\ Settled(e)
  BY <1>3 DEF BindInv, Settled
<1>5. \A n \in full'[e] : n >= Granted(cfg[e].rcvbuf)
  BY <1>1, <1>4 DEF Settled, BindInv, BindTypes
<1>6. Settled(e)'
  BY <1>1, <1>3, <1>4, <1>5 DEF Settled, Bound, Before, After, Granted
<1>7. \A h \in holders' : Held(h)'
  BY <1>1 DEF BindInv, Held, Bound, After
<1> QED BY <1>2, <1>6, <1>7, OthersSettled DEF BindInv

LEMMA ConstructKeeps ==
  ASSUME BindInv, NEW e \in Endpoints, Construct(e)
  PROVE  BindInv'
<1>1. CASE AddressTaken(e) \/ Panic(e) \/ CallFails(e)
  <2>1. Leave(e) /\ faults' \in Nat
    BY <1>1 DEF AddressTaken, Panic, CallFails, BindInv, BindTypes
  <2> QED BY <2>1, LeaveKeeps
<1> QED BY <1>1, CallKeeps, AdvanceKeeps, AddressKeeps DEF Construct

(***************************************************************************)
(* connect_tcp, and the drop of a stream: an endpoint without a UDP socket *)
(* changes its variant.                                                    *)
(***************************************************************************)
LEMMA VariantKeeps ==
  ASSUME BindInv, NEW e \in Endpoints, at[e] \in Outside,
         at' = at \/ \E p \in Outside : at' = [at EXCEPT ![e] = p],
         UNCHANGED <<cfg, flags, room, holders, queue, full>>, faults' \in Nat
  PROVE  BindInv'
<1>1. BindTypes' /\ Elsewhere(e) /\ at'[e] \in Outside
  BY DEF BindInv, BindTypes, Elsewhere, Places
<1>2. ~Bound(e) /\ ~Bound(e)'
  BY <1>1 DEF Bound, After, Outside, MioAfter, TokioAfter
<1>3. Settled(e)'
  BY <1>1, <1>2 DEF BindInv, Settled, Outside
<1>4. \A h \in holders : h.owner # e
  BY <1>2 DEF BindInv, Held
<1> QED BY <1>1, <1>3, <1>4, OthersSettled DEF BindInv

\* Every other step leaves the constructors and the options alone.
LEMMA QuietKeeps ==
  ASSUME BindInv, UNCHANGED <<at, cfg, flags, room, holders, full>>,
         queue' \in [Endpoints -> Nat], faults' \in Nat
  PROVE  BindInv'
  BY DEF BindInv, BindTypes, Settled, Held, Bound, Before, After, Granted

LEMMA BindStep ==
  ASSUME BindInv, [TransportNext]_xvars
  PROVE  BindInv'
<1>1. ASSUME NEW e \in Endpoints, XConstruct(e) \/ XDrop(e) \/ XArrive(e)
      PROVE  BindInv'
  <2>1. CASE XConstruct(e) \/ XArrive(e)
    BY <2>1, ConstructKeeps, ArriveKeeps DEF XConstruct, XArrive
  <2>2. CASE Drop(e)
    BY <2>2, LeaveKeeps DEF Drop, BindInv, BindTypes
  <2>3. CASE Stream(e) /\ at' = [at EXCEPT ![e] = "none"] /\ UNCHANGED <<cfg, kernel, faults>>
    BY <2>3, VariantKeeps DEF Stream, kernel, Outside, BindInv, BindTypes
  <2> QED BY <1>1, <2>1, <2>2, <2>3 DEF XDrop
<1>2. ASSUME NEW e \in Endpoints, NEW c \in Configs, ConnectTcp(e, c)
      PROVE  BindInv'
  <2>1. /\ at[e] \in Outside /\ UNCHANGED <<cfg, flags, room, holders, queue, full>>
        /\ at' = at \/ at' = [at EXCEPT ![e] = "stream"]
        /\ faults' \in {faults, faults + 1}
    BY <1>2 DEF ConnectTcp, kernel, Outside
  <2> QED BY <2>1, VariantKeeps DEF Outside, BindInv, BindTypes
<1>3. ASSUME NEW e \in Endpoints, NEW k \in 0 .. MaxArrivals, RecvBurst(e, k)
      PROVE  BindInv'
  <2>1. queue' \in [Endpoints -> Nat]
    BY <1>3, BindAssumption DEF RecvBurst, BindInv, BindTypes
  <2> QED BY <1>3, <2>1, QuietKeeps DEF RecvBurst, BindInv, BindTypes
<1>4. ASSUME NEW e \in Endpoints,
             \/ WrongShape(e) \/ StreamCall(e) \/ SendUnaddressed(e) \/ SendTo(e)
             \/ SendStep(e) \/ SendFails(e) \/ SendDropped(e) \/ Device(e)
             \/ Join(e) \/ JoinFails(e)
      PROVE  BindInv'
  <2>1. UNCHANGED <<at, cfg, flags, room, holders, queue, full>> /\ faults' \in {faults, faults + 1}
    BY <1>4 DEF WrongShape, StreamCall, SendUnaddressed, SendTo, SendStep, SendTaken,
       SendFull, SendAgain, SendFails, SendDropped, Device, Join, JoinFails, bind, kernel
  <2> QED BY <2>1, QuietKeeps DEF BindInv, BindTypes
<1>5. CASE UNCHANGED xvars
  BY <1>5, QuietKeeps DEF xvars, bvars, bind, kernel, BindInv, BindTypes
<1> QED BY <1>1, <1>2, <1>3, <1>4, <1>5 DEF TransportNext

LEMMA BindAlways == TransportSpec => []BindInv
<1>1. TransportInit => BindInv
  BY BindInitOK DEF TransportInit
<1> QED BY <1>1, BindStep, PTL DEF TransportSpec

(***************************************************************************)
(* bind and bind_sync set SO_RCVBUF early enough: no datagram is dropped   *)
(* at a socket that holds fewer than were granted.                         *)
(***************************************************************************)
THEOREM BufferCountsAtOnce == TransportSpec => []BufferFromFirst
<1>1. BindInv => BufferFromFirst
  BY DEF BindInv, Settled, BufferFromFirst
<1> QED BY <1>1, BindAlways, PTL

(***************************************************************************)
(* Only a failing bind call, and no other step, takes an endpoint from its *)
(* bind call back to the start without a fault.                            *)
(***************************************************************************)
LEMMA RefusedByBind ==
  ASSUME BindInv, TransportNext, NEW e \in Endpoints, at[e] = "bind", at'[e] = "none",
         faults' = faults
  PROVE  AddressTaken(e)
<1>1. PICK f \in Endpoints :
        \/ XConstruct(f) \/ XDrop(f) \/ XArrive(f)
        \/ \E c \in Configs : ConnectTcp(f, c)
        \/ WrongShape(f) \/ StreamCall(f) \/ SendUnaddressed(f)
        \/ \E k \in 0 .. MaxArrivals : RecvBurst(f, k)
        \/ SendTo(f) \/ SendStep(f) \/ SendFails(f) \/ SendDropped(f)
        \/ Device(f) \/ Join(f) \/ JoinFails(f)
  BY DEF TransportNext
<1>2. at' # at
  OBVIOUS
<1>3. XConstruct(f) \/ XDrop(f) \/ \E c \in Configs : ConnectTcp(f, c)
  BY <1>1, <1>2 DEF XArrive, Arrive, WrongShape, StreamCall, SendUnaddressed, RecvBurst,
     SendTo, SendStep, SendTaken, SendFull, SendAgain, SendFails, SendDropped, Device,
     Join, JoinFails, bind
<1>4. f = e
  BY <1>3 DEF XConstruct, Construct, BindCall, Proceed, SetReuse, SetBuffers, BindAddress,
     AddressTaken, BuildPool, Panic, CallFails, Advance, Leave, XDrop, Drop, ConnectTcp,
     BindInv, BindTypes
<1>5. Construct(e)
  BY <1>3, <1>4 DEF XDrop, Datagram, Stream, ConnectTcp, XConstruct
<1>6. ~CallFails(e)
  BY DEF CallFails, BindInv, BindTypes
<1>7. ~BindAddress(e)
  <2>1. Then(e) # "none"
    BY MioOrder, TokioOrder, BackendCases
  <2> QED BY <2>1 DEF BindAddress, Advance, BindInv, BindTypes
<1> QED BY <1>5, <1>6, <1>7 DEF Construct, BindCall, Proceed, SetReuse, SetBuffers,
           BuildPool, Panic

(***************************************************************************)
(* A bind is refused only because of another endpoint that holds the       *)
(* address now and did not ask to share it the same way (bind, bind_sync): *)
(* no failed attempt leaves it taken, no flag comes too late.              *)
(***************************************************************************)
THEOREM RefusalHasCause == TransportSpec => ConflictIsReal
<1>1. ASSUME BindInv, TransportNext, NEW e \in Endpoints, at[e] = "bind", at'[e] = "none",
             faults' = faults
      PROVE  \E f \in Endpoints \ {e} : Past(f) /\ cfg[f].reuse \cap cfg[e].reuse = {}
  <2>1. AddressTaken(e)
    BY <1>1, RefusedByBind
  <2>2. PICK h \in holders : h.flags \cap flags[e] = {}
    BY <2>1 DEF AddressTaken, Free
  <2>3. h.owner \in Endpoints /\ Bound(h.owner) /\ h.flags = cfg[h.owner].reuse
    BY <1>1, <2>2 DEF BindInv, Held
  <2>4. flags[e] = cfg[e].reuse
    BY <1>1 DEF BindInv, Settled
  <2>5. h.owner # e
    BY <1>1, <2>3 DEF Bound, After, MioAfter, TokioAfter
  <2> QED BY <2>2, <2>3, <2>4, <2>5, PastIsBound
<1>2. ASSUME BindInv, UNCHANGED xvars, NEW e \in Endpoints, at[e] = "bind"
      PROVE  at'[e] # "none"
  BY <1>2 DEF xvars, bvars, bind
<1>3. BindInv /\ [TransportNext]_xvars =>
        [\A e \in Endpoints :
           at[e] = "bind" /\ at'[e] = "none" /\ faults' = faults =>
             \E f \in Endpoints \ {e} : Past(f) /\ cfg[f].reuse \cap cfg[e].reuse = {}]_bvars
  BY <1>1, <1>2
<1> QED BY <1>3, BindAlways, PTL DEF TransportSpec, ConflictIsReal
--------------------------------------------------------------------------------
Counters ==
  told \in [Endpoints -> Nat] /\ took \in [Endpoints -> Nat]

LEMMA EffectsStep ==
  ASSUME Counters, EffectsMatchAnswers, [TransportNext]_xvars
  PROVE  Counters' /\ EffectsMatchAnswers'
<1> USE DEF Counters, EffectsMatchAnswers
<1>1. ASSUME UNCHANGED <<told, took>> PROVE Counters' /\ EffectsMatchAnswers'
  BY <1>1
<1>2. ASSUME NEW e \in Endpoints, XDrop(e) PROVE Counters' /\ EffectsMatchAnswers'
  BY <1>2 DEF XDrop
<1>3. ASSUME NEW e \in Endpoints, SendTaken(e) PROVE Counters' /\ EffectsMatchAnswers'
  BY <1>3 DEF SendTaken, SendReply
<1>4. ASSUME NEW e \in Endpoints, SendFails(e) \/ SendDropped(e)
      PROVE  Counters' /\ EffectsMatchAnswers'
  BY <1>4 DEF SendFails, SendDropped, SendReply
<1>5. ASSUME NEW e \in Endpoints, Join(e) PROVE Counters' /\ EffectsMatchAnswers'
  BY <1>5 DEF Join
<1>6. CASE UNCHANGED xvars
  BY <1>1, <1>6 DEF xvars, io
<1>7. ASSUME NEW e \in Endpoints,
             \/ XConstruct(e) \/ XArrive(e) \/ \E c \in Configs : ConnectTcp(e, c)
             \/ WrongShape(e) \/ StreamCall(e) \/ SendUnaddressed(e)
             \/ \E k \in 0 .. MaxArrivals : RecvBurst(e, k)
             \/ SendTo(e) \/ SendFull(e) \/ SendAgain(e) \/ Device(e) \/ JoinFails(e)
      PROVE  Counters' /\ EffectsMatchAnswers'
  <2>1. UNCHANGED <<told, took>>
    BY <1>7 DEF XConstruct, XArrive, ConnectTcp, WrongShape, StreamCall, SendUnaddressed,
       RecvBurst, SendTo, SendFull, SendAgain, Device, JoinFails, io
  <2> QED BY <2>1, <1>1
<1> QED BY <1>2, <1>3, <1>4, <1>5, <1>6, <1>7 DEF TransportNext, SendStep

(***************************************************************************)
(* send_to tells the truth: Ok for each datagram the kernel took, whatever *)
(* failed, was retried or dropped.                                         *)
(***************************************************************************)
THEOREM AnswersHaveEffects == TransportSpec => []EffectsMatchAnswers
<1>1. TransportInit => Counters /\ EffectsMatchAnswers
  BY DEF TransportInit, Counters, EffectsMatchAnswers
<1> QED BY <1>1, EffectsStep, PTL DEF TransportSpec
================================================================================
