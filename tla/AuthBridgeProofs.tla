-------------------------- MODULE AuthBridgeProofs --------------------------
(***************************************************************************)
(* Safety of the credential bridge for any number of requests of the       *)
(* worker, of callbacks and of clients, any lives of tokens and any times. *)
(***************************************************************************)
EXTENDS AuthBridge, TLAPS

(* The host keeps one API client for the target. *)
OneClient == \A k, l \in Clients : k = l

(* A token is known by its number, and none is used that was not issued.     *)
Issued ==
    /\ refused \subseteq 1..minted
    /\ bridge.token.id <= minted
    /\ \A k \in Clients : cache[k].id <= minted
    /\ \A c \in Callbacks : call[c].got.id <= minted
    /\ \A r \in Requests :
          /\ req[r].tok <= minted
          /\ req[r].pc \in {"sent", "refused"} => req[r].tok # 0

(* Whoever holds the slot began in the generation the source was told of.    *)
HolderOK(c) ==
    /\ call[c].pc \in {"invalidate", "fetch", "settle"} => call[c].gen = bridge.sourceGen
    /\ call[c].closed => call[c].pc = "observe" /\ bridge.closed

(* The source of the tokens is still to be told of a 401.                    *)
Behind == bridge.sourceGen < bridge.gen

Telling == servicing # Nobody /\ call[servicing].pc = "invalidate"

(* A refused token is in the cache only as long as the next service, or the  *)
(* one under way, will throw it out; one that was already fetched will not   *)
(* be installed; and a retry knows that its first token was refused.         *)
Fenced ==
    /\ bridge.token.id \notin refused
    /\ \A k \in Clients : cache[k].id \in refused => Behind \/ Telling
    /\ \A c \in Callbacks :
          call[c].pc = "settle" /\ call[c].got.id \in refused => Behind
    /\ \A r \in Requests : req[r].retry =>
          /\ req[r].first \in refused /\ req[r].pc # "refused"
          /\ req[r].pc = "sent" => req[r].tok # req[r].first

IInv ==
    /\ TypeOK
    /\ bridge.sourceGen <= bridge.gen
    /\ Issued
    /\ \A c \in Callbacks : HolderOK(c)
    /\ ClosedHoldsNothing
    /\ OneClient => Fenced

-----------------------------------------------------------------------------
(* Types of the records *)

LEMMA NoTokenType == NoToken \in Token /\ NoToken.id = 0
BY DEF NoToken, Token

LEMMA OverType == Over \in Req /\ Over.tok = 0 /\ ~Over.retry /\ Over.pc = "over"
BY DEF Over, Req

(* Where a callback is after Service. *)
LEMMA ReturnedType ==
    ASSUME TypeOK, NEW c \in Callbacks, NEW result \in {"ok", "failed", "closed"}
    PROVE  /\ Returned(c, result) \in Call
           /\ Returned(c, result).pc \in {"observe", "awaiting", "idle"}
           /\ Returned(c, result).got = NoToken
           /\ Returned(c, result).closed =>
                 Returned(c, result).pc = "observe" /\ result = "closed"
BY NoTokenType DEF TypeOK, Returned, Call

-----------------------------------------------------------------------------
(* Steps that share their proof *)

(* A request of the worker moves on: nobody else's state changes. *)
LEMMA RequestMoves ==
    ASSUME IInv, NEW r \in Requests, NEW rec \in Req,
           req' = [req EXCEPT ![r] = rec],
           UNCHANGED <<now, refused>>, UNCHANGED host,
           bridge' = bridge \/ bridge' = [bridge EXCEPT !.requested = TRUE],
           rec.tok <= minted,
           rec.pc \in {"sent", "refused"} => rec.tok # 0,
           OneClient /\ rec.retry =>
              /\ rec.first \in refused /\ rec.pc # "refused"
              /\ rec.pc = "sent" => rec.tok # rec.first
    PROVE  IInv'
<1> USE DEF IInv, host
<1>1. /\ bridge' \in Bridge /\ bridge'.token = bridge.token
      /\ bridge'.gen = bridge.gen /\ bridge'.sourceGen = bridge.sourceGen
      /\ bridge'.closed = bridge.closed
  BY DEF TypeOK, Bridge
<1>2. TypeOK'
  BY <1>1 DEF TypeOK
<1>3. Issued'
  BY <1>1 DEF Issued, TypeOK
<1>4. \A c \in Callbacks : HolderOK(c)'
  BY <1>1 DEF HolderOK
<1>5. ClosedHoldsNothing'
  BY <1>1 DEF ClosedHoldsNothing
<1>6. OneClient => Fenced'
  BY <1>1 DEF Fenced, Behind, Telling, TypeOK
<1> QED  BY <1>1, <1>2, <1>3, <1>4, <1>5, <1>6 DEF OneClient

(* A callback outside Service moves on.                                      *)
LEMMA CallMoves ==
    ASSUME IInv, NEW c \in Callbacks, NEW rec \in Call,
           call' = [call EXCEPT ![c] = rec],
           UNCHANGED <<now, servicing, req, cache, minted, refused>>,
           bridge' = bridge \/ bridge' = [bridge EXCEPT !.requested = FALSE],
           call[c].pc \notin {"invalidate", "fetch", "settle"},
           rec.pc \notin {"invalidate", "fetch", "settle"},
           rec.got.id <= minted,
           rec.closed => rec.pc = "observe" /\ bridge.closed
    PROVE  IInv'
<1> USE DEF IInv
<1>1. /\ bridge' \in Bridge /\ bridge'.token = bridge.token
      /\ bridge'.gen = bridge.gen /\ bridge'.sourceGen = bridge.sourceGen
      /\ bridge'.closed = bridge.closed
  BY DEF TypeOK, Bridge
<1>2. TypeOK'
  BY <1>1 DEF TypeOK
<1>3. Issued'
  BY <1>1 DEF Issued, TypeOK
<1>4. \A d \in Callbacks : HolderOK(d)'
  BY <1>1 DEF HolderOK, TypeOK
<1>5. ClosedHoldsNothing'
  BY <1>1 DEF ClosedHoldsNothing
<1>6. OneClient => Fenced'
  <2>1. Telling' = Telling
    BY DEF Telling, TypeOK
  <2> QED  BY <1>1, <2>1 DEF Fenced, Behind, TypeOK
<1> QED  BY <1>1, <1>2, <1>3, <1>4, <1>5, <1>6 DEF OneClient

(* The holder gives the slot back and installs nothing.                      *)
LEMMA HolderLeaves ==
    ASSUME IInv, NEW c \in Callbacks, NEW rec \in Call,
           call' = [call EXCEPT ![c] = rec], servicing' = Nobody,
           UNCHANGED <<now, req, cache, minted, refused>>,
           bridge' = bridge \/ bridge' = [bridge EXCEPT !.requested = TRUE],
           call[c].pc = "settle",
           rec.pc \notin {"invalidate", "fetch", "settle"},
           rec.got.id <= minted,
           rec.closed => rec.pc = "observe" /\ bridge.closed
    PROVE  IInv'
<1> USE DEF IInv
<1>1. /\ bridge' \in Bridge /\ bridge'.token = bridge.token
      /\ bridge'.gen = bridge.gen /\ bridge'.sourceGen = bridge.sourceGen
      /\ bridge'.closed = bridge.closed
  BY DEF TypeOK, Bridge
<1>2. servicing = c
  BY DEF TypeOK
<1>3. TypeOK'
  BY <1>1, <1>2, NobodyAssumption DEF TypeOK
<1>4. Issued'
  BY <1>1 DEF Issued, TypeOK
<1>5. \A d \in Callbacks : HolderOK(d)'
  BY <1>1 DEF HolderOK, TypeOK
<1>6. ClosedHoldsNothing'
  BY <1>1 DEF ClosedHoldsNothing
<1>7. OneClient => Fenced'
  <2>1. ~Telling
    BY <1>2 DEF Telling
  <2> QED  BY <1>1, <2>1 DEF Fenced, Behind, TypeOK
<1> QED  BY <1>1, <1>3, <1>4, <1>5, <1>6, <1>7 DEF OneClient

-----------------------------------------------------------------------------
(* The worker's steps *)

LEMMA InitIInv == Init => IInv
<1> SUFFICES ASSUME Init PROVE IInv
  OBVIOUS
<1> PICK k \in Clients : call = [c \in Callbacks |->
                 [pc |-> IF c = Starter THEN "awaiting" ELSE "idle",
                  client |-> k, starts |-> c = Starter, gen |-> 0, got |-> NoToken,
                  closed |-> FALSE]]
  BY DEF Init
<1>1. \A c \in Callbacks : /\ call[c] \in Call /\ call[c].got = NoToken /\ ~call[c].closed
                           /\ call[c].pc \notin {"invalidate", "fetch", "settle"}
  BY NoTokenType DEF Call
<1>2. \A r \in Requests : req[r] \in Req /\ req[r].tok = 0 /\ ~req[r].retry
                          /\ req[r].pc = "token"
  BY DEF Init, Req
<1>3. /\ bridge \in Bridge /\ bridge.token = NoToken
      /\ bridge.gen = 0 /\ bridge.sourceGen = 0
  BY NoTokenType DEF Init, Bridge
<1>4. TypeOK
  BY <1>1, <1>2, <1>3, NoTokenType, NobodyAssumption DEF Init, TypeOK
<1>5. Issued
  BY <1>1, <1>2, <1>3, NoTokenType DEF Init, Issued
<1>6. \A c \in Callbacks : HolderOK(c)
  BY <1>1 DEF HolderOK
<1>7. ClosedHoldsNothing /\ Fenced
  BY <1>2, <1>3 DEF Init, ClosedHoldsNothing, Fenced
<1> QED  BY <1>3, <1>4, <1>5, <1>6, <1>7 DEF IInv

LEMMA RequestIInv ==
    ASSUME IInv, NEW r \in Requests,
           \/ TokenCancelled(r) \/ TokenFails(r) \/ TokenReady(r)
           \/ TokenQueues(r) \/ TimerFires(r) \/ Answered(r)
    PROVE  IInv'
<1> USE DEF IInv
<1>1. req[r] \in Req
  BY DEF TypeOK
<1>2. req[r].tok <= minted /\ minted \in Nat
  BY DEF Issued, TypeOK
<1>3. CASE req' = [req EXCEPT ![r] = Over] /\ UNCHANGED <<now, bridge, refused>> /\ UNCHANGED host
  <2>1. Over \in Req /\ Over.tok <= minted /\ ~Over.retry /\ Over.pc = "over"
    BY <1>2, OverType
  <2> HIDE DEF IInv
  <2> QED  BY <1>3, <2>1, RequestMoves
<1>4. CASE TokenReady(r)
  <2> DEFINE rec == [req[r] EXCEPT !.pc = "sent", !.tok = bridge.token.id]
  <2>1. /\ bridge.token.id \in Nat /\ bridge.token.id # 0
        /\ bridge.token.id <= minted
    BY <1>4 DEF TokenReady, Usable, TypeOK, Bridge, Token, Issued
  <2>2. /\ rec \in Req /\ rec.pc = "sent" /\ rec.tok = bridge.token.id
        /\ rec.first = req[r].first /\ rec.retry = req[r].retry
    BY <1>1, <2>1 DEF Req
  <2>3. OneClient /\ req[r].retry => req[r].first \in refused /\ bridge.token.id \notin refused
    BY DEF Fenced
  <2>4. req' = [req EXCEPT ![r] = rec]
    BY <1>4 DEF TokenReady
  <2> HIDE DEF rec
  <2> QED  BY <1>4, <2>1, <2>2, <2>3, <2>4, RequestMoves DEF TokenReady
<1>5. ASSUME NEW pc \in {"token", "wait", "refused"},
             req' = [req EXCEPT ![r] = [req[r] EXCEPT !.pc = pc]],
             pc = "refused" => req[r].pc = "sent" /\ ~req[r].retry,
             UNCHANGED <<now, refused>>, UNCHANGED host,
             bridge' = bridge \/ bridge' = [bridge EXCEPT !.requested = TRUE]
      PROVE  IInv'
  <2> DEFINE rec == [req[r] EXCEPT !.pc = pc]
  <2>1. /\ rec \in Req /\ rec.pc = pc /\ rec.tok = req[r].tok
        /\ rec.first = req[r].first /\ rec.retry = req[r].retry
    BY <1>1 DEF Req
  <2>2. pc = "refused" => req[r].tok # 0
    BY <1>5 DEF Issued
  <2>3. OneClient /\ req[r].retry => req[r].first \in refused
    BY DEF Fenced
  <2>4. req' = [req EXCEPT ![r] = rec]
    BY <1>5
  <2> HIDE DEF rec
  <2> QED  BY <1>2, <1>5, <2>1, <2>2, <2>3, <2>4, RequestMoves
<1>6. CASE TokenQueues(r)
  BY <1>5, <1>6 DEF TokenQueues
<1>7. CASE TimerFires(r)
  BY <1>5, <1>7 DEF TimerFires
<1>8. CASE Answered(r)
  BY <1>3, <1>5, <1>8 DEF Answered
<1> QED  BY <1>3, <1>4, <1>6, <1>7, <1>8 DEF TokenCancelled, TokenFails

(* Requests that are woken keep all but their place.                         *)
LEMMA WokenReq ==
    ASSUME IInv
    PROVE  /\ Woken(req) \in [Requests -> Req]
           /\ \A q \in Requests :
                 \/ Woken(req)[q] = req[q]
                 \/ /\ req[q].pc = "wait" /\ Woken(req)[q].pc = "token"
                    /\ Woken(req)[q].tok = req[q].tok
                    /\ Woken(req)[q].first = req[q].first
                    /\ Woken(req)[q].retry = req[q].retry
<1>1. \A q \in Requests :
         LET w == [req[q] EXCEPT !.pc = "token"]
         IN  /\ w \in Req /\ w.pc = "token" /\ w.tok = req[q].tok
             /\ w.first = req[q].first /\ w.retry = req[q].retry
  BY DEF IInv, TypeOK, Req
<1> QED  BY <1>1 DEF Woken, IInv, TypeOK

(* A 401: the token is refused, and the bridge begins a new generation.      *)
LEMMA InvalidateIInv ==
    ASSUME IInv, NEW r \in Requests, Invalidate(r)
    PROVE  IInv'
<1> USE DEF IInv
<1>1. /\ bridge' \in Bridge /\ bridge'.token = NoToken /\ bridge'.closed = bridge.closed
      /\ bridge'.gen = bridge.gen + 1 /\ bridge'.sourceGen = bridge.sourceGen
      /\ bridge.gen \in Nat /\ bridge.sourceGen \in Nat
  <2>1. bridge \in Bridge /\ bridge.gen + 1 \in Nat
    BY DEF TypeOK, Bridge
  <2> QED  BY <2>1, NoTokenType DEF Invalidate, Bridge
<1>2. /\ refused' = refused \cup {req[r].tok} /\ req[r].pc = "refused"
      /\ UNCHANGED <<now, servicing, call, cache, minted>>
  BY DEF Invalidate, host
<1>3. req[r].tok \in 1..minted /\ minted \in Nat
  BY <1>2 DEF Issued, TypeOK, Req
<1>4. /\ req' \in [Requests -> Req]
      /\ req'[r].pc = "token" /\ req'[r].tok = req[r].tok /\ req'[r].first = req[r].tok
      /\ \A q \in Requests \ {r} :
            \/ req'[q] = req[q]
            \/ /\ req'[q].pc = "token" /\ req'[q].tok = req[q].tok
               /\ req'[q].first = req[q].first /\ req'[q].retry = req[q].retry
  <2>1. Woken(req)[r] = req[r] /\ req[r] \in Req
    BY <1>2 DEF Woken, TypeOK
  <2> DEFINE rec == [req[r] EXCEPT !.pc = "token", !.retry = TRUE, !.first = req[r].tok]
  <2>2. rec \in Req /\ rec.pc = "token" /\ rec.tok = req[r].tok /\ rec.first = req[r].tok
    BY <2>1 DEF Req
  <2>3. req' = [Woken(req) EXCEPT ![r] = rec]
    BY <2>1, WokenReq DEF Invalidate
  <2> HIDE DEF rec
  <2> QED  BY <2>2, <2>3, WokenReq
<1>5. refused' \subseteq 1..minted' /\ refused' \subseteq Nat
  <2>1. refused \subseteq 1..minted
    BY DEF Issued
  <2>2. 1..minted \subseteq Nat
    BY <1>3
  <2> HIDE DEF IInv
  <2> QED  BY <1>2, <1>3, <2>1, <2>2
<1>6. TypeOK'
  <2>1. TypeOK /\ bridge' \in Bridge /\ req' \in [Requests -> Req] /\ refused' \subseteq Nat
        /\ UNCHANGED <<now, servicing, call, cache, minted>>
    BY <1>1, <1>2, <1>4, <1>5
  <2> HIDE DEF IInv
  <2> QED  BY <2>1 DEF TypeOK
<1>7. Issued'
  <2>1. bridge'.token.id <= minted'
    BY <1>1, <1>2, <1>3, NoTokenType
  <2>2. ASSUME NEW q \in Requests
        PROVE  /\ req'[q].tok <= minted'
               /\ req'[q].pc \in {"sent", "refused"} => req'[q].tok # 0
    BY <1>2, <1>3, <1>4 DEF Issued
  <2> QED  BY <1>2, <1>5, <2>1, <2>2 DEF Issued
<1>8. \A c \in Callbacks : HolderOK(c)'
  BY <1>1, <1>2 DEF HolderOK
<1>9. ClosedHoldsNothing'
  BY <1>1 DEF ClosedHoldsNothing
<1>10. OneClient => Fenced'
  <2> SUFFICES ASSUME OneClient PROVE Fenced'
    OBVIOUS
  <2>1. Behind'
    BY <1>1 DEF Behind
  <2>2. bridge'.token.id \notin refused'
    BY <1>1, <1>2, <1>3, NoTokenType DEF Issued
  <2>3. ASSUME NEW q \in Requests, req'[q].retry
        PROVE  /\ req'[q].first \in refused' /\ req'[q].pc # "refused"
               /\ req'[q].pc = "sent" => req'[q].tok # req'[q].first
    BY <1>2, <1>4, <2>3 DEF Fenced
  <2> QED  BY <2>1, <2>2, <2>3 DEF Fenced
<1> QED  BY <1>1, <1>6, <1>7, <1>8, <1>9, <1>10 DEF OneClient

-----------------------------------------------------------------------------
(* The callbacks' steps *)

LEMMA CallIInv ==
    ASSUME IInv, NEW c \in Callbacks,
           \/ Poll(c) \/ AwaitServes(c) \/ AwaitEnds(c) \/ AcquireFails(c) \/ Observe(c)
    PROVE  IInv'
<1> USE DEF IInv
<1>1. call[c] \in Call /\ call[c].got.id <= minted
  BY DEF TypeOK, Issued
<1>2. call[c].closed => call[c].pc = "observe" /\ bridge.closed
  BY DEF HolderOK
<1>3. CASE Poll(c)
  <2> PICK k \in Clients :
          call' = [call EXCEPT ![c].pc = "acquire", ![c].client = k,
                               ![c].starts = FALSE, ![c].closed = FALSE]
    BY <1>3 DEF Poll
  <2> DEFINE rec == [call[c] EXCEPT !.pc = "acquire", !.client = k,
                                    !.starts = FALSE, !.closed = FALSE]
  <2>1. rec \in Call /\ rec.pc = "acquire" /\ rec.got = call[c].got /\ ~rec.closed
    BY <1>1 DEF Call
  <2>2. call' = [call EXCEPT ![c] = rec]
    BY DEF TypeOK
  <2> HIDE DEF rec
  <2> QED  BY <1>1, <1>3, <2>1, <2>2, CallMoves DEF Poll
<1>4. CASE AwaitServes(c)
  <2> DEFINE rec == [call[c] EXCEPT !.pc = "acquire"]
  <2>1. /\ rec \in Call /\ rec.pc = "acquire" /\ rec.got = call[c].got
        /\ rec.closed = call[c].closed
    BY <1>1 DEF Call
  <2>2. call' = [call EXCEPT ![c] = rec]
    BY <1>4 DEF AwaitServes
  <2> HIDE DEF rec
  <2> QED  BY <1>1, <1>2, <1>4, <2>1, <2>2, CallMoves DEF AwaitServes
<1>5. CASE AwaitEnds(c)
  <2> DEFINE rec == [call[c] EXCEPT !.pc = "idle"]
  <2>1. /\ rec \in Call /\ rec.pc = "idle" /\ rec.got = call[c].got
        /\ rec.closed = call[c].closed
    BY <1>1 DEF Call
  <2>2. call' = [call EXCEPT ![c] = rec]
    BY <1>5 DEF AwaitEnds
  <2> HIDE DEF rec
  <2> QED  BY <1>1, <1>2, <1>5, <2>1, <2>2, CallMoves DEF AwaitEnds
<1>6. CASE AcquireFails(c)
  <2> DEFINE rec == Returned(c, "failed")
  <2>1. /\ rec \in Call /\ rec.pc \in {"observe", "awaiting", "idle"}
        /\ rec.got.id = 0 /\ ~rec.closed
    BY ReturnedType, NoTokenType
  <2>2. rec.got.id <= minted
    BY <2>1 DEF TypeOK
  <2> HIDE DEF rec, IInv
  <2>3. call' = [call EXCEPT ![c] = rec]
    BY <1>6 DEF AcquireFails, rec
  <2> QED  BY <1>6, <2>1, <2>2, <2>3, CallMoves DEF AcquireFails
<1>7. CASE Observe(c)
  <2> DEFINE rec == [call[c] EXCEPT !.pc = "idle", !.closed = @ /\ ~bridge.closed]
  <2>1. (call[c].closed /\ ~bridge.closed) \in BOOLEAN
    OBVIOUS
  <2>2. /\ rec \in Call /\ rec.pc = "idle" /\ rec.got = call[c].got
        /\ rec.closed <=> call[c].closed /\ ~bridge.closed
    BY <1>1, <2>1 DEF Call
  <2>3. call' = [call EXCEPT ![c] = rec]
    BY <1>7 DEF Observe, TypeOK
  <2> HIDE DEF rec
  <2> QED  BY <1>1, <1>2, <1>7, <2>2, <2>3, CallMoves DEF Observe
<1> QED  BY <1>3, <1>4, <1>5, <1>6, <1>7

(* The slot is taken, and the source is told of what it has not seen.        *)
LEMMA AcquireIInv ==
    ASSUME IInv, NEW c \in Callbacks, Acquire(c)
    PROVE  IInv'
<1> USE DEF IInv
<1>1. CASE bridge.closed
  <2> DEFINE rec == Returned(c, "closed")
  <2>1. /\ rec \in Call /\ rec.pc \in {"observe", "awaiting", "idle"}
        /\ rec.got.id = 0 /\ (rec.closed => rec.pc = "observe")
    BY ReturnedType, NoTokenType
  <2>2. rec.got.id <= minted
    BY <2>1 DEF TypeOK
  <2> HIDE DEF rec, IInv
  <2>3. call' = [call EXCEPT ![c] = rec]
    BY <1>1 DEF Acquire, rec
  <2> QED  BY <1>1, <2>1, <2>2, <2>3, CallMoves DEF Acquire
<1>2. CASE ~bridge.closed
  <2> DEFINE pc  == IF bridge.gen # bridge.sourceGen THEN "invalidate" ELSE "fetch"
             rec == [call[c] EXCEPT !.gen = bridge.gen, !.pc = pc]
  <2>1. /\ call[c] \in Call /\ call[c].pc = "acquire" /\ servicing = Nobody
        /\ servicing' = c /\ UNCHANGED <<now, req, cache, minted, refused>>
    BY <1>2 DEF Acquire, TypeOK
  <2>2. /\ bridge' \in Bridge /\ bridge'.token = bridge.token
        /\ bridge'.gen = bridge.gen /\ bridge'.sourceGen = bridge.gen
        /\ bridge'.closed = bridge.closed
        /\ bridge.gen \in Nat /\ bridge.sourceGen \in Nat
    BY <1>2 DEF Acquire, TypeOK, Bridge
  <2>3. /\ rec \in Call /\ rec.gen = bridge.gen /\ rec.got = call[c].got
        /\ rec.pc = pc /\ rec.closed = call[c].closed
    BY <2>1, <2>2 DEF Call
  <2>4. call' = [call EXCEPT ![c] = rec]
    BY <1>2 DEF Acquire, TypeOK
  <2>5. pc \in {"invalidate", "fetch"} /\ (pc = "fetch" => bridge.gen = bridge.sourceGen)
    OBVIOUS
  <2> HIDE DEF rec, pc
  <2>6. TypeOK'
    BY <2>1, <2>2, <2>3, <2>4, <2>5, NobodyAssumption DEF TypeOK
  <2>7. Issued'
    BY <2>1, <2>2, <2>3, <2>4 DEF Issued, TypeOK
  <2>8. ASSUME NEW d \in Callbacks PROVE HolderOK(d)'
    <3>1. d # c => /\ call'[d] = call[d]
                   /\ call[d].pc \notin {"invalidate", "fetch", "settle"}
      BY <2>1, <2>4, NobodyAssumption DEF TypeOK
    <3>2. call'[c] = rec /\ ~call[c].closed
      BY <2>1, <2>4 DEF TypeOK, HolderOK
    <3> QED  BY <2>2, <2>3, <3>1, <3>2 DEF HolderOK
  <2>9. ClosedHoldsNothing'
    BY <1>2, <2>2 DEF ClosedHoldsNothing
  <2>10. OneClient => Fenced'
    <3> SUFFICES ASSUME OneClient PROVE Fenced'
      OBVIOUS
    <3>1. call'[c] = rec /\ \A d \in Callbacks \ {c} : call'[d] = call[d]
      BY <2>4 DEF TypeOK
    <3>2. ASSUME NEW k \in Clients, cache'[k].id \in refused'
          PROVE  Telling'
      <4>1. Behind
        BY <2>1, <3>2 DEF Fenced, Telling
      <4>2. pc = "invalidate"
        BY <4>1, <2>2, <2>5 DEF Behind
      <4> QED  BY <2>1, <2>3, <3>1, <4>2, NobodyAssumption DEF Telling
    <3>3. ASSUME NEW d \in Callbacks, call'[d].pc = "settle" PROVE FALSE
      BY <2>1, <2>3, <2>5, <3>1, <3>3, NobodyAssumption DEF TypeOK
    <3> QED  BY <2>1, <2>2, <3>2, <3>3 DEF Fenced
  <2> QED  BY <2>2, <2>6, <2>7, <2>8, <2>9, <2>10 DEF OneClient
<1> QED  BY <1>1, <1>2

(* The cache of the callback's client, the only one, forgets its token.      *)
LEMMA InvalidateSourceIInv ==
    ASSUME IInv, NEW c \in Callbacks, InvalidateSource(c)
    PROVE  IInv'
<1> USE DEF IInv
<1> DEFINE rec == [call[c] EXCEPT !.pc = "fetch"]
<1>1. /\ call[c] \in Call /\ call[c].pc = "invalidate" /\ servicing = c
      /\ call[c].client \in Clients
      /\ cache' = [cache EXCEPT ![call[c].client] = NoToken]
      /\ UNCHANGED <<now, bridge, servicing, req, minted, refused>>
  BY DEF InvalidateSource, TypeOK, Call
<1>2. /\ rec \in Call /\ rec.pc = "fetch" /\ rec.gen = call[c].gen
      /\ rec.got = call[c].got /\ rec.closed = call[c].closed
  BY <1>1 DEF Call
<1>3. call' = [call EXCEPT ![c] = rec]
  BY DEF InvalidateSource
<1> HIDE DEF rec
<1>4. /\ call'[c] = rec /\ \A d \in Callbacks \ {c} : call'[d] = call[d]
      /\ \A k \in Clients : cache'[k] = cache[k] \/ cache'[k] = NoToken
      /\ cache'[call[c].client] = NoToken
  BY <1>1, <1>3 DEF TypeOK
<1>5. TypeOK'
  BY <1>1, <1>2, <1>3, NoTokenType DEF TypeOK
<1>6. Issued'
  BY <1>1, <1>2, <1>4, NoTokenType DEF Issued, TypeOK
<1>7. \A d \in Callbacks : HolderOK(d)'
  BY <1>1, <1>2, <1>4 DEF HolderOK
<1>8. ClosedHoldsNothing'
  BY <1>1 DEF ClosedHoldsNothing
<1>9. OneClient => Fenced'
  <2> SUFFICES ASSUME OneClient PROVE Fenced'
    OBVIOUS
  <2>1. \A k \in Clients : cache'[k].id = 0
    BY <1>1, <1>4, NoTokenType DEF OneClient
  <2>2. 0 \notin refused'
    BY <1>1 DEF Issued
  <2> QED  BY <1>1, <1>2, <1>4, <2>1, <2>2 DEF Fenced, Behind
<1> QED  BY <1>1, <1>5, <1>6, <1>7, <1>8, <1>9 DEF OneClient

(* The source answers: the cached token, a new one, or none.                 *)
LEMMA FetchIInv ==
    ASSUME IInv, NEW c \in Callbacks, Fetch(c)
    PROVE  IInv'
<1> USE DEF IInv
<1>1. /\ call[c] \in Call /\ call[c].pc = "fetch" /\ servicing = c
      /\ call[c].client \in Clients
      /\ UNCHANGED <<now, bridge, servicing, req, refused>>
      /\ minted \in Nat /\ now \in Nat
  BY DEF Fetch, TypeOK, Call
<1>2. PICK got \in Token :
        /\ call' = [call EXCEPT ![c] = [call[c] EXCEPT !.pc = "settle", !.got = got]]
        /\ \/ /\ got = NoToken \/ got = cache[call[c].client]
              /\ UNCHANGED <<cache, minted>>
           \/ /\ got.id = minted + 1 /\ minted' = minted + 1
              /\ cache' = [cache EXCEPT ![call[c].client] = got]
  <2>1. CASE minted' = minted
    <3>1. NoToken \in Token /\ cache[call[c].client] \in Token
      BY <1>1, NoTokenType DEF TypeOK
    <3>2. minted' # minted + 1
      BY <1>1, <2>1
    <3>3. /\ UNCHANGED <<cache, minted>>
          /\ \/ call' = [call EXCEPT ![c].pc = "settle", ![c].got = NoToken]
             \/ call' = [call EXCEPT ![c].pc = "settle", ![c].got = cache[call[c].client]]
      BY <3>2 DEF Fetch
    <3>4. \A t : [call EXCEPT ![c].pc = "settle", ![c].got = t] =
                 [call EXCEPT ![c] = [call[c] EXCEPT !.pc = "settle", !.got = t]]
      BY DEF TypeOK
    <3> QED  BY <3>1, <3>3, <3>4
  <2>2. CASE minted' = minted + 1
    <3>1. PICK life \in Lives :
             /\ cache' = [cache EXCEPT ![call[c].client] =
                            [id |-> minted + 1, exp |-> now + life]]
             /\ call' = [call EXCEPT ![c].pc = "settle",
                            ![c].got = [id |-> minted + 1, exp |-> now + life]]
      BY <1>1, <2>2 DEF Fetch
    <3>2. [id |-> minted + 1, exp |-> now + life] \in Token
      BY <1>1, TimesAssumption DEF Token
    <3> QED  BY <2>2, <3>1, <3>2
  <2> QED  BY <2>1, <2>2 DEF Fetch
<1> DEFINE rec == [call[c] EXCEPT !.pc = "settle", !.got = got]
<1>3. /\ rec \in Call /\ rec.pc = "settle" /\ rec.gen = call[c].gen
      /\ rec.got = got /\ rec.closed = call[c].closed
  BY <1>1 DEF Call
<1>4. call' = [call EXCEPT ![c] = rec]
  BY <1>2
<1> HIDE DEF rec
<1>5. /\ call'[c] = rec /\ \A d \in Callbacks \ {c} : call'[d] = call[d]
      /\ \A k \in Clients : cache'[k] = cache[k] \/ (cache'[k] = got /\ got.id = minted + 1)
      /\ minted' \in Nat /\ minted <= minted'
      /\ got.id \in Nat /\ got.id <= minted'
      /\ cache' \in [Clients -> Token]
  <2>1. NoToken.id = 0 /\ got.id \in Nat
    BY NoTokenType DEF Token
  <2>2. cache[call[c].client].id <= minted
    BY <1>1 DEF Issued
  <2> QED  BY <1>1, <1>2, <1>4, <2>1, <2>2 DEF TypeOK
<1>6. TypeOK'
  BY <1>1, <1>3, <1>4, <1>5 DEF TypeOK
<1>7. Issued'
  <2>1. refused' \subseteq 1..minted' /\ bridge'.token.id <= minted'
    BY <1>1, <1>5 DEF Issued, TypeOK, Bridge, Token
  <2>2. ASSUME NEW k \in Clients PROVE cache'[k].id <= minted'
    BY <1>1, <1>5 DEF Issued, TypeOK, Token
  <2>3. ASSUME NEW d \in Callbacks PROVE call'[d].got.id <= minted'
    BY <1>1, <1>3, <1>5 DEF Issued, TypeOK, Call, Token
  <2>4. ASSUME NEW q \in Requests
        PROVE  /\ req'[q].tok <= minted'
               /\ req'[q].pc \in {"sent", "refused"} => req'[q].tok # 0
    BY <1>1, <1>5 DEF Issued, TypeOK, Req
  <2> QED  BY <2>1, <2>2, <2>3, <2>4 DEF Issued
<1>8. \A d \in Callbacks : HolderOK(d)'
  BY <1>1, <1>3, <1>5 DEF HolderOK
<1>9. ClosedHoldsNothing'
  BY <1>1 DEF ClosedHoldsNothing
<1>10. OneClient => Fenced'
  <2> SUFFICES ASSUME OneClient PROVE Fenced'
    OBVIOUS
  <2>1. ~Telling /\ 0 \notin refused /\ minted + 1 \notin refused
    BY <1>1 DEF Telling, Issued
  <2>2. \A k \in Clients : cache'[k].id \in refused' => Behind'
    BY <1>1, <1>5, <2>1 DEF Fenced, Behind
  <2>3. got.id \in refused => Behind
    BY <1>1, <1>2, <2>1, NoTokenType DEF Fenced
  <2> QED  BY <1>1, <1>3, <1>5, <2>2, <2>3 DEF Fenced, Behind
<1> QED  BY <1>1, <1>6, <1>7, <1>8, <1>9, <1>10 DEF OneClient

LEMMA SettleWithoutIInv ==
    ASSUME IInv, NEW c \in Callbacks, SettleWithout(c)
    PROVE  IInv'
<1>1. PICK result \in {"ok", "failed", "closed"} :
        /\ call' = [call EXCEPT ![c] = Returned(c, result)]
        /\ result = "closed" => bridge.closed
        /\ bridge' = bridge \/ bridge' = [bridge EXCEPT !.requested = TRUE]
  BY DEF SettleWithout
<1> DEFINE rec == Returned(c, result)
<1>2. /\ rec \in Call /\ rec.pc \in {"observe", "awaiting", "idle"}
      /\ rec.got.id = 0 /\ (rec.closed => rec.pc = "observe" /\ result = "closed")
  BY ReturnedType, NoTokenType DEF IInv
<1>3. rec.got.id <= minted
  BY <1>2 DEF IInv, TypeOK
<1> HIDE DEF rec
<1>4. call' = [call EXCEPT ![c] = rec]
  BY <1>1 DEF rec
<1> QED  BY <1>1, <1>2, <1>3, <1>4, HolderLeaves DEF SettleWithout

(* The token is installed: no 401 came since the service began.              *)
LEMMA SettleIInv ==
    ASSUME IInv, NEW c \in Callbacks, Settle(c)
    PROVE  IInv'
<1> USE DEF IInv
<1> DEFINE rec == Returned(c, "ok")
<1>1. /\ rec \in Call /\ rec.pc \in {"observe", "awaiting", "idle"}
      /\ rec.got.id = 0 /\ ~rec.closed
  BY ReturnedType, NoTokenType
<1> HIDE DEF rec
<1>2. /\ call' = [call EXCEPT ![c] = rec] /\ call[c].pc = "settle" /\ ~bridge.closed
      /\ call[c] \in Call /\ call[c].gen = bridge.gen
      /\ servicing = c /\ servicing' = Nobody /\ req' = Woken(req)
      /\ UNCHANGED <<now, cache, minted, refused>> /\ minted \in Nat
  BY DEF Settle, TypeOK, rec
<1>3. /\ bridge' \in Bridge /\ bridge'.token = call[c].got /\ ~bridge'.closed
      /\ bridge'.gen = bridge.gen /\ bridge'.sourceGen = bridge.sourceGen
      /\ bridge.gen \in Nat /\ bridge.sourceGen \in Nat
  BY DEF Settle, TypeOK, Bridge, Call
<1>4. call'[c] = rec /\ \A d \in Callbacks \ {c} : call'[d] = call[d]
  BY <1>2 DEF TypeOK
<1>5. TypeOK'
  BY <1>1, <1>2, <1>3, WokenReq, NobodyAssumption DEF TypeOK
<1>6. Issued'
  <2>1. ASSUME NEW d \in Callbacks PROVE call'[d].got.id <= minted'
    BY <1>1, <1>2, <1>4 DEF Issued
  <2>2. ASSUME NEW q \in Requests
        PROVE  /\ req'[q].tok <= minted'
               /\ req'[q].pc \in {"sent", "refused"} => req'[q].tok # 0
    BY <1>2, WokenReq DEF Issued
  <2> QED  BY <1>2, <1>3, <2>1, <2>2 DEF Issued
<1>7. \A d \in Callbacks : HolderOK(d)'
  <2>1. HolderOK(c)'
    BY <1>1, <1>4 DEF HolderOK
  <2>2. ASSUME NEW d \in Callbacks \ {c} PROVE HolderOK(d)'
    BY <1>2, <1>3, <1>4 DEF HolderOK
  <2> QED  BY <2>1, <2>2
<1>8. ClosedHoldsNothing'
  BY <1>3 DEF ClosedHoldsNothing
<1>9. OneClient => Fenced'
  <2> SUFFICES ASSUME OneClient PROVE Fenced'
    OBVIOUS
  <2>1. ~Behind /\ ~Telling
    BY <1>2, <1>3 DEF HolderOK, Behind, Telling
  <2>2. call[c].got.id \notin refused
    BY <1>2, <2>1 DEF Fenced
  <2>3. \A k \in Clients : cache'[k].id \notin refused'
    BY <1>2, <2>1 DEF Fenced
  <2>4. ASSUME NEW d \in Callbacks, call'[d].pc = "settle", call'[d].got.id \in refused'
        PROVE  Behind'
    BY <1>1, <1>2, <1>3, <1>4, <2>4 DEF Fenced, Behind
  <2>5. ASSUME NEW q \in Requests, req'[q].retry
        PROVE  /\ req'[q].first \in refused' /\ req'[q].pc # "refused"
               /\ req'[q].pc = "sent" => req'[q].tok # req'[q].first
    BY <1>2, <2>5, WokenReq DEF Fenced
  <2> QED  BY <1>2, <1>3, <2>2, <2>3, <2>4, <2>5 DEF Fenced
<1> QED  BY <1>3, <1>5, <1>6, <1>7, <1>8, <1>9 DEF OneClient

(* The worker ends. *)
LEMMA CloseIInv == ASSUME IInv, Close PROVE IInv'
<1> USE DEF IInv
<1>1. /\ bridge' \in Bridge /\ bridge'.token = NoToken /\ bridge'.closed
      /\ bridge'.gen = bridge.gen /\ bridge'.sourceGen = bridge.sourceGen
  BY NoTokenType DEF Close, TypeOK, Bridge
<1>2. /\ req' = Woken(req)
      /\ UNCHANGED <<now, refused, servicing, call, cache, minted>> /\ minted \in Nat
  BY DEF Close, host, TypeOK
<1>3. TypeOK'
  BY <1>1, <1>2, WokenReq DEF TypeOK
<1>4. Issued'
  <2>1. ASSUME NEW q \in Requests
        PROVE  /\ req'[q].tok <= minted'
               /\ req'[q].pc \in {"sent", "refused"} => req'[q].tok # 0
    BY <1>2, WokenReq DEF Issued
  <2> QED  BY <1>1, <1>2, <2>1, NoTokenType DEF Issued
<1>5. \A c \in Callbacks : HolderOK(c)'
  BY <1>1, <1>2 DEF HolderOK
<1>6. ClosedHoldsNothing'
  BY <1>1 DEF ClosedHoldsNothing
<1>7. OneClient => Fenced'
  <2> SUFFICES ASSUME OneClient PROVE Fenced'
    OBVIOUS
  <2>1. bridge'.token.id \notin refused'
    BY <1>1, <1>2, NoTokenType DEF Issued
  <2>2. ASSUME NEW q \in Requests, req'[q].retry
        PROVE  /\ req'[q].first \in refused' /\ req'[q].pc # "refused"
               /\ req'[q].pc = "sent" => req'[q].tok # req'[q].first
    BY <1>2, <2>2, WokenReq DEF Fenced
  <2> QED  BY <1>1, <1>2, <2>1, <2>2 DEF Fenced, Behind, Telling
<1> QED  BY <1>1, <1>3, <1>4, <1>5, <1>6, <1>7 DEF OneClient

LEMMA TickIInv == ASSUME IInv, Tick \/ UNCHANGED vars PROVE IInv'
<1>1. /\ UNCHANGED <<bridge, servicing, call, req, cache, minted, refused>>
      /\ now' \in Nat
  BY DEF Tick, vars, host, IInv, TypeOK
<1> QED  BY <1>1 DEF IInv, TypeOK, Issued, HolderOK, ClosedHoldsNothing, OneClient,
                      Fenced, Behind, Telling

-----------------------------------------------------------------------------
LEMMA NextIInv == IInv /\ [Next]_vars => IInv'
<1> SUFFICES ASSUME IInv, [Next]_vars PROVE IInv'
  OBVIOUS
<1>1. ASSUME NEW r \in Requests, TokenCancelled(r) \/ RequestStep(r) PROVE IInv'
  BY <1>1, RequestIInv, InvalidateIInv DEF RequestStep
<1>2. ASSUME NEW c \in Callbacks,
             \/ Poll(c) \/ AwaitServes(c) \/ AwaitEnds(c)
             \/ AcquireFails(c) \/ ServiceStep(c)
      PROVE  IInv'
  BY <1>2, CallIInv, AcquireIInv, InvalidateSourceIInv, FetchIInv, SettleWithoutIInv,
     SettleIInv DEF ServiceStep
<1> QED  BY <1>1, <1>2, CloseIInv, TickIInv DEF Next

LEMMA Invariance == Spec => []IInv
BY InitIInv, NextIInv, PTL DEF Spec

(* The bridge, its callbacks and the worker's requests keep their types, and *)
(* at most one callback at a time asks the source for a token, the one that  *)
(* holds the slot (auth_bridge.go:132-152).                                  *)
THEOREM BridgeTypes == Spec => []TypeOK
<1>1. IInv => TypeOK
  BY DEF IInv
<1> QED  BY <1>1, Invariance, PTL

(* No credential stays on a bridge whose worker has ended, also when a       *)
(* callback was fetching one for it (auth_bridge.go:166,197).                *)
THEOREM ClosedBridgesAreEmpty == Spec => []ClosedHoldsNothing
<1>1. IInv => ClosedHoldsNothing
  BY DEF IInv
<1> QED  BY <1>1, Invariance, PTL

(* While the host keeps one API client, the bridge never holds a token again *)
(* that a 401 made the worker invalidate (auth_bridge.go:153,175).           *)
THEOREM RefusedTokensStayOut == Spec => [](OneClient => RefusedStaysOut)
<1>1. IInv => (OneClient => RefusedStaysOut)
  BY DEF IInv, Fenced, RefusedStaysOut
<1> QED  BY <1>1, Invariance, PTL

(* And the one retry of a request never carries the token that was refused   *)
(* (transport.go:78).                                                        *)
THEOREM RetriesAreFresh == Spec => [](OneClient => RetryIsFresh)
<1>1. IInv => (OneClient => RetryIsFresh)
  BY DEF IInv, Fenced, RetryIsFresh
<1> QED  BY <1>1, Invariance, PTL

(* The end of the worker during a service is never reported as an error of   *)
(* the callback (flight_lifecycle.go:120-133).                               *)
THEOREM EndsAreNoErrors == Spec => []EndIsNoError
<1>1. IInv => EndIsNoError
  BY DEF IInv, HolderOK, EndIsNoError
<1> QED  BY <1>1, Invariance, PTL
=============================================================================
