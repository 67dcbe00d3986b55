----------------------------- MODULE AuthBridge -----------------------------
(***************************************************************************)
(* The credential bridge between a Helm worker and the plugin's callbacks  *)
(* (pkg/resources/helm/auth_bridge.go).  The worker outlives the callback  *)
(* that started it and holds no credential source: its requests queue in   *)
(* Token until a callback fetches a token in Service, on its own stack,    *)
(* from the token cache of its client.  The worker's requests go through   *)
(* TokenTransport (pkg/auth/transport.go), which answers a 401 by          *)
(* invalidating the bridge and trying once more.                           *)
(*                                                                         *)
(* Every region under b.mu is one action.  The token cache is what the     *)
(* module TokenCache promises: a call of Token never returns a token       *)
(* fetched before an Invalidate that preceded the call.                    *)
(***************************************************************************)
EXTENDS Integers, FiniteSets

CONSTANTS
    Requests,    \* API requests of the worker
    Callbacks,   \* calls of the plugin that may service the bridge
    Starter,     \* the callback that started the worker and waits for it
    Nobody,      \* nobody holds the servicing slot
    Clients,     \* API clients of the callbacks, each with a token cache
    CallTimeout, PollInterval, RetryDelay, ThrottleMaxDelay,
                 \* the host's operation metadata
    Reserve,     \* what bridgeWindow adds: Service's own timeout and a margin
    Allowance,   \* the time the action may take
    Safety,      \* no token is used this close to its end
    Lives,       \* what is left of a token's life when it is issued
    MaxTokens,   \* bound on the tokens the identity provider issues
    MaxTime      \* bound on the clock

ASSUME NobodyAssumption == Nobody \notin Callbacks /\ Starter \in Callbacks
ASSUME TimesAssumption ==
    /\ {CallTimeout, PollInterval, RetryDelay, ThrottleMaxDelay,
        Reserve, Allowance, Safety, MaxTokens, MaxTime} \subseteq Nat
    /\ Lives \subseteq Nat

(* What may pass between two services: one call of the host and the longest  *)
(* pause between two.                                                        *)
BridgeWindow ==
    LET gap == CHOOSE g \in {PollInterval, RetryDelay, ThrottleMaxDelay} :
                  \A h \in {PollInterval, RetryDelay, ThrottleMaxDelay} : h <= g
    IN  CallTimeout + gap + Reserve

(* The action starts only if it may last for one window at least.            *)
ASSUME AllowanceAssumption == Allowance >= BridgeWindow /\ Allowance > 0

VARIABLES
    now,        \* the clock
    bridge,     \* the authBridge
    servicing,  \* b.servicing: the callback that services the bridge
    call,       \* where each callback is
    req,        \* where each request of the worker is
    cache,      \* the token in the token cache of each client
    minted,     \* tokens issued so far; a token is known by its number
    refused     \* history: tokens a 401 made the worker invalidate

vars == <<now, bridge, servicing, call, req, cache, minted, refused>>
host == <<servicing, call, cache, minted>>

-----------------------------------------------------------------------------
Token == [id : Nat, exp : Nat]

NoToken == [id |-> 0, exp |-> 0]

Bridge == [token : Token,          \* b.token and b.expiry
           serviced : Nat,         \* b.serviced
           closed : BOOLEAN,       \* b.closed, set when the flight is finished
           requested : BOOLEAN,    \* b.requests holds a request
           gen : Nat,              \* b.generation
           sourceGen : Nat]        \* b.sourceGeneration

Call == [pc : {"idle", "awaiting", "acquire", "invalidate", "fetch", "settle",
               "observe"},
         client : Clients,         \* the client it got from the client cache
         starts : BOOLEAN,         \* the callback waits for the worker's record
         gen : Nat,                \* Service's copy of b.generation
         got : Token,              \* what the source answered
         closed : BOOLEAN]         \* the error of a closed bridge is returned

Req == [pc : {"token", "wait", "sent", "refused", "over"},
        retry : BOOLEAN,           \* this is the second attempt
        tok : Nat,                 \* the token the attempt carries
        first : Nat]               \* the token the first attempt carried

(* A request that got its answer or failed; which of the two is not kept.    *)
Over == [pc |-> "over", retry |-> FALSE, tok |-> 0, first |-> 0]

(* Without a service until this moment, no token is handed out.              *)
Limit == IF Allowance < bridge.serviced + BridgeWindow
         THEN Allowance ELSE bridge.serviced + BridgeWindow

Usable(t) == t.id # 0 /\ now + Safety < t.exp

(* Requests that wait on b.changed wake when it is closed.                   *)
Woken(reqs) == [r \in Requests |->
                  IF reqs[r].pc = "wait" THEN [reqs[r] EXCEPT !.pc = "token"] ELSE reqs[r]]

Awaiting == \E c \in Callbacks : call[c].pc # "idle" /\ call[c].starts

-----------------------------------------------------------------------------
Init ==
    /\ now = 0
    /\ bridge = [token |-> NoToken, serviced |-> 0, closed |-> FALSE,
                 requested |-> FALSE, gen |-> 0, sourceGen |-> 0]
    /\ servicing = Nobody
    /\ \E k \in Clients : call = [c \in Callbacks |->
                 [pc |-> IF c = Starter THEN "awaiting" ELSE "idle",
                  client |-> k, starts |-> c = Starter, gen |-> 0, got |-> NoToken,
                  closed |-> FALSE]]
    /\ req = [r \in Requests |->
                 [pc |-> "token", retry |-> FALSE, tok |-> 0, first |-> 0]]
    /\ cache = [k \in Clients |-> NoToken]
    /\ minted = 0
    /\ refused = {}

-----------------------------------------------------------------------------
(* The worker's requests: TokenTransport over authBridge.Token *)

(* The request's context ends.                                               *)
TokenCancelled(r) ==
    /\ req[r].pc \in {"token", "wait"}
    /\ req' = [req EXCEPT ![r] = Over]
    /\ UNCHANGED <<now, bridge, refused>> /\ UNCHANGED host

(* The bridge is closed, or nobody serviced it in time.                      *)
TokenFails(r) ==
    /\ req[r].pc = "token" /\ (bridge.closed \/ now >= Limit)
    /\ req' = [req EXCEPT ![r] = Over]
    /\ UNCHANGED <<now, bridge, refused>> /\ UNCHANGED host

TokenReady(r) ==
    /\ req[r].pc = "token" /\ ~bridge.closed /\ now < Limit
    /\ Usable(bridge.token)
    /\ req' = [req EXCEPT ![r].pc = "sent", ![r].tok = bridge.token.id]
    /\ UNCHANGED <<now, bridge, refused>> /\ UNCHANGED host

(* Mutation: the request is not queued. *)
MutTokenQueues(r) ==
    /\ req[r].pc = "token" /\ ~bridge.closed /\ now < Limit
    /\ ~Usable(bridge.token)
    /\ req' = [req EXCEPT ![r].pc = "wait"]
    /\ UNCHANGED <<now, bridge, refused>> /\ UNCHANGED host

TokenQueues(r) ==
    /\ req[r].pc = "token" /\ ~bridge.closed /\ now < Limit
    /\ ~Usable(bridge.token)
    /\ bridge' = [bridge EXCEPT !.requested = TRUE]
    /\ req' = [req EXCEPT ![r].pc = "wait"]
    /\ UNCHANGED <<now, refused>> /\ UNCHANGED host

TimerFires(r) ==
    /\ req[r].pc = "wait" /\ now >= Limit
    /\ req' = [req EXCEPT ![r].pc = "token"]
    /\ UNCHANGED <<now, bridge, refused>> /\ UNCHANGED host

(* The API server answers, or the connection fails.  A 401 is tried again if *)
(* this is the first attempt and the body can be sent once more.             *)
Answered(r) ==
    /\ req[r].pc = "sent"
    /\ \/ req' = [req EXCEPT ![r] = Over]
       \/ ~req[r].retry /\ req' = [req EXCEPT ![r].pc = "refused"]
    /\ UNCHANGED <<now, bridge, refused>> /\ UNCHANGED host

(* RoundTrip invalidates its source, the bridge, and sends the request again. *)
Invalidate(r) ==
    /\ req[r].pc = "refused"
    /\ bridge' = [bridge EXCEPT !.token = NoToken, !.gen = @ + 1, !.requested = TRUE]
    /\ req' = [Woken(req) EXCEPT ![r].pc = "token", ![r].retry = TRUE,
                                 ![r].first = req[r].tok]
    /\ refused' = refused \cup {req[r].tok}
    /\ UNCHANGED now /\ UNCHANGED host

-----------------------------------------------------------------------------
(* The callbacks: serviceFlight, awaitRecordedWithService, authBridge.Service *)

Poll(c) ==
    /\ call[c].pc = "idle"
    /\ \E k \in Clients :
          call' = [call EXCEPT ![c].pc = "acquire", ![c].client = k,
                               ![c].starts = FALSE, ![c].closed = FALSE]
    /\ UNCHANGED <<now, bridge, servicing, req, cache, minted, refused>>

(* While it waits for the worker's record, the callback serves the queue.    *)
AwaitServes(c) ==
    /\ call[c].pc = "awaiting" /\ bridge.requested
    /\ bridge' = [bridge EXCEPT !.requested = FALSE]
    /\ call' = [call EXCEPT ![c].pc = "acquire"]
    /\ UNCHANGED <<now, servicing, req, cache, minted, refused>>

(* The record is there, the worker has ended, or the callback's time is up.  *)
AwaitEnds(c) ==
    /\ call[c].pc = "awaiting"
    /\ call' = [call EXCEPT ![c].pc = "idle"]
    /\ UNCHANGED <<now, bridge, servicing, req, cache, minted, refused>>

(* Where a callback goes on with what Service returned: serviceFlight        *)
(* re-reads the flight; a waiting callback waits on or gives up.             *)
Returned(c, result) ==
    [call[c] EXCEPT !.pc = IF ~call[c].starts THEN "observe"
                           ELSE IF result = "ok" THEN "awaiting" ELSE "idle",
                    !.closed = result = "closed" /\ ~call[c].starts, !.gen = 0, !.got = NoToken]

(* The slot did not come free within Service's time.                         *)
AcquireFails(c) ==
    /\ call[c].pc = "acquire"
    /\ call' = [call EXCEPT ![c] = Returned(c, "failed")]
    /\ UNCHANGED <<now, bridge, servicing, req, cache, minted, refused>>

(* Mutation: the callback's cache is not told of the worker's 401. *)
MutAcquire(c) ==
    /\ call[c].pc = "acquire" /\ servicing = Nobody
    /\ IF bridge.closed
       THEN /\ call' = [call EXCEPT ![c] = Returned(c, "closed")]
            /\ UNCHANGED <<bridge, servicing>>
       ELSE /\ servicing' = c
            /\ call' = [call EXCEPT ![c].gen = bridge.gen, ![c].pc = "fetch"]
            /\ bridge' = [bridge EXCEPT !.sourceGen = bridge.gen]
    /\ UNCHANGED <<now, req, cache, minted, refused>>

Acquire(c) ==
    /\ call[c].pc = "acquire" /\ servicing = Nobody
    /\ IF bridge.closed
       THEN /\ call' = [call EXCEPT ![c] = Returned(c, "closed")]
            /\ UNCHANGED <<bridge, servicing>>
       ELSE /\ servicing' = c
            /\ call' = [call EXCEPT ![c].gen = bridge.gen,
                            ![c].pc = IF bridge.gen # bridge.sourceGen
                                      THEN "invalidate" ELSE "fetch"]
            /\ bridge' = [bridge EXCEPT !.sourceGen = bridge.gen]
    /\ UNCHANGED <<now, req, cache, minted, refused>>

InvalidateSource(c) ==
    /\ call[c].pc = "invalidate"
    /\ cache' = [cache EXCEPT ![call[c].client] = NoToken]
    /\ call' = [call EXCEPT ![c].pc = "fetch"]
    /\ UNCHANGED <<now, bridge, servicing, req, minted, refused>>

(* source.Token: the cached token, a new one, or an error.                   *)
Fetch(c) ==
    /\ call[c].pc = "fetch"
    /\ \/ /\ Usable(cache[call[c].client])
          /\ call' = [call EXCEPT ![c].pc = "settle", ![c].got = cache[call[c].client]]
          /\ UNCHANGED <<cache, minted>>
       \/ /\ minted < MaxTokens
          /\ minted' = minted + 1
          /\ \E life \in Lives :
                LET new == [id |-> minted + 1, exp |-> now + life]
                IN  /\ cache' = [cache EXCEPT ![call[c].client] = new]
                    /\ call' = [call EXCEPT ![c].pc = "settle", ![c].got = new]
       \/ /\ call' = [call EXCEPT ![c].pc = "settle", ![c].got = NoToken]
          /\ UNCHANGED <<cache, minted>>
    /\ UNCHANGED <<now, bridge, servicing, req, refused>>

(* The token is not kept: the bridge is closed, the fetch failed, or a 401   *)
(* invalidated the bridge meanwhile.                                         *)
SettleWithout(c) ==
    /\ call[c].pc = "settle"
    /\ \/ /\ bridge.closed
          /\ call' = [call EXCEPT ![c] = Returned(c, "closed")]
          /\ UNCHANGED bridge
       \/ /\ ~bridge.closed /\ ~Usable(call[c].got)
          /\ call' = [call EXCEPT ![c] = Returned(c, "failed")]
          /\ UNCHANGED bridge
       \/ /\ ~bridge.closed /\ Usable(call[c].got) /\ call[c].gen # bridge.gen
          /\ bridge' = [bridge EXCEPT !.requested = TRUE]
          /\ call' = [call EXCEPT ![c] = Returned(c, "ok")]
    /\ servicing' = Nobody
    /\ UNCHANGED <<now, req, cache, minted, refused>>

(* Mutation: a refresh in flight is not fenced by a simultaneous 401. *)
MutSettleUnfenced(c) ==
    /\ call[c].pc = "settle"
    /\ ~bridge.closed /\ Usable(call[c].got)
    /\ bridge' = [bridge EXCEPT !.token = call[c].got, !.serviced = now, !.requested = FALSE]
    /\ req' = Woken(req)
    /\ call' = [call EXCEPT ![c] = Returned(c, "ok")]
    /\ servicing' = Nobody
    /\ UNCHANGED <<now, cache, minted, refused>>

(* Mutation: the bridge may have been closed during the fetch. *)
MutSettleClosed(c) ==
    /\ call[c].pc = "settle"
    /\ Usable(call[c].got) /\ call[c].gen = bridge.gen
    /\ bridge' = [bridge EXCEPT !.token = call[c].got, !.serviced = now, !.requested = FALSE]
    /\ req' = Woken(req)
    /\ call' = [call EXCEPT ![c] = Returned(c, "ok")]
    /\ servicing' = Nobody
    /\ UNCHANGED <<now, cache, minted, refused>>

Settle(c) ==
    /\ call[c].pc = "settle"
    /\ ~bridge.closed /\ Usable(call[c].got) /\ call[c].gen = bridge.gen
    /\ bridge' = [bridge EXCEPT !.token = call[c].got, !.serviced = now, !.requested = FALSE]
    /\ req' = Woken(req)
    /\ call' = [call EXCEPT ![c] = Returned(c, "ok")]
    /\ servicing' = Nobody
    /\ UNCHANGED <<now, cache, minted, refused>>

(* Mutation: what Service returned is believed without reading the flight again. *)
MutObserve(c) ==
    /\ call[c].pc = "observe"
    /\ call' = [call EXCEPT ![c].pc = "idle"]
    /\ UNCHANGED <<now, bridge, servicing, req, cache, minted, refused>>

(* After the service the flight is read again: a finished one is reported,   *)
(* whatever Service returned.                                                *)
Observe(c) ==
    /\ call[c].pc = "observe"
    /\ call' = [call EXCEPT ![c].pc = "idle",
                            ![c].closed = @ /\ ~bridge.closed]
    /\ UNCHANGED <<now, bridge, servicing, req, cache, minted, refused>>

-----------------------------------------------------------------------------
(* finishFlight: the worker has ended and its bridge is closed.              *)
Close ==
    /\ ~bridge.closed
    /\ bridge' = [bridge EXCEPT !.closed = TRUE, !.token = NoToken]
    /\ req' = Woken(req)
    /\ UNCHANGED <<now, refused>> /\ UNCHANGED host

Tick ==
    /\ now < MaxTime
    /\ now' = now + 1
    /\ UNCHANGED <<bridge, req, refused>> /\ UNCHANGED host

RequestStep(r) ==
    \/ TokenReady(r) \/ TokenQueues(r) \/ TimerFires(r)
    \/ TokenFails(r) \/ Answered(r) \/ Invalidate(r)

ServiceStep(c) ==
    \/ Acquire(c) \/ InvalidateSource(c) \/ Fetch(c)
    \/ SettleWithout(c) \/ Settle(c) \/ Observe(c)

Next ==
    \/ \E r \in Requests : TokenCancelled(r) \/ RequestStep(r)
    \/ \E c \in Callbacks : \/ Poll(c) \/ AwaitServes(c) \/ AwaitEnds(c)
                            \/ AcquireFails(c) \/ ServiceStep(c)
    \/ Close \/ Tick

(* The worker's goroutines and a callback inside Service run on; a callback  *)
(* whose select finds a request in the queue takes it in the end.  The slot  *)
(* is a channel, whose blocked senders Go serves in turn.  Neither the clock *)
(* nor a further poll of the host is assumed.                                *)
Spec == /\ Init /\ [][Next]_vars
        /\ \A r \in Requests : WF_vars(RequestStep(r))
        /\ \A c \in Callbacks : /\ WF_vars(ServiceStep(c)) /\ SF_vars(Acquire(c))
                                 /\ WF_vars(AwaitServes(c))

-----------------------------------------------------------------------------
(* Properties *)

(* Types; and the servicing slot is held by the callback that fetches.       *)
TypeOK ==
    /\ now \in Nat /\ bridge \in Bridge
    /\ servicing \in Callbacks \cup {Nobody}
    /\ \A c \in Callbacks :
          call[c].pc \in {"invalidate", "fetch", "settle"} <=> servicing = c
    /\ call \in [Callbacks -> Call] /\ req \in [Requests -> Req]
    /\ cache \in [Clients -> Token] /\ minted \in Nat /\ refused \subseteq Nat

(* auth_bridge.go:153,175: once a 401 made the worker invalidate a token,    *)
(* the bridge never holds that token again: not from a fetch that was under  *)
(* way, and not from the callbacks' cache.  True while all callbacks share   *)
(* one client.                                                               *)
RefusedStaysOut == bridge.token.id \notin refused

(* transport.go:78: the one retry of a request carries another token than    *)
(* the one that was refused, whatever the other requests and callbacks did.  *)
RetryIsFresh ==
    \A r \in Requests : req[r].retry /\ req[r].pc = "sent" =>
        req[r].tok # req[r].first

(* auth_bridge.go:166: a closed bridge keeps no credential, not even one a   *)
(* callback was fetching when the worker ended.                              *)
ClosedHoldsNothing == bridge.closed => bridge.token = NoToken

(* flight_lifecycle.go:120-125: that the worker ended during a service is    *)
(* never reported as a failed callback.                                      *)
EndIsNoError ==
    \A c \in Callbacks : call[c].pc = "idle" => ~call[c].closed

(* auth_bridge.go:98-121: a request of the worker that needs a token gets    *)
(* its answer while the callback that started the worker waits for it, by a  *)
(* service and not by a timer, so that neither waits for the other for ever; *)
(* and once the action's deadline is past though no callback ever comes.     *)
Attended == Awaiting \/ now >= Allowance

RequestsEnd ==
    \A r \in Requests :
        req[r].pc \in {"token", "wait"} /\ Attended
            ~> (req[r].pc \notin {"token", "wait"} \/ ~Attended)
=============================================================================
