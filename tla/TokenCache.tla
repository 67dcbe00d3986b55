----------------------------- MODULE TokenCache -----------------------------
(***************************************************************************)
(* The bearer token cache of an OIDC client (pkg/auth/cache.go): callers   *)
(* of CachedTokenSource.Token, at most one of which refreshes the token on *)
(* its own stack while the others wait for it, and Invalidate, which the   *)
(* transport calls on a 401 and the credential bridge on behalf of its     *)
(* worker.                                                                 *)
(*                                                                         *)
(* Every region under c.mu is one action; the identity provider answers    *)
(* between two of them.  A call of Token is issued once.                   *)
(***************************************************************************)
EXTENDS Integers, FiniteSets

CONSTANTS
    Calls,      \* calls of Token
    Tokens,     \* bearer tokens the identity provider may issue
    Nothing,    \* no token, no call
    Safety,     \* tokenSafetyMargin: no token is served this close to its end
    Recheck,    \* after this long a token due for renewal is asked for again
    MinMargin,  \* a token is due at least this long before its end
    Lives,      \* what is left of a token's life when the provider returns it
    Instants,   \* bound: the moments the clock may show
    MaxGen      \* bound on the number of invalidations

ASSUME NothingAssumption == Nothing \notin Calls /\ Nothing \notin Tokens
ASSUME TimesAssumption ==
    /\ Safety \in Nat /\ MinMargin \in Nat
    /\ Recheck \in Nat \ {0}
    /\ Lives \subseteq Nat /\ Instants \subseteq Nat

VARIABLES
    now,            \* the clock
    current,        \* c.current
    generation,     \* c.generation
    refreshing,     \* c.refreshing: the call that leads a refresh
    call            \* where each call of Token is, and what it carries

vars == <<now, current, generation, refreshing, call>>

-----------------------------------------------------------------------------
(* Data *)

(* What the code keeps of a token is tok, exp and next.  The rest is history *)
(* for the properties: when it was last stored and first seen, and the       *)
(* generation in which the refresh that brought it began.                    *)
Entry == [tok : Tokens \cup {Nothing}, exp : Nat, next : Nat,
          at : Nat, first : Nat, born : Nat]

NoEntry == [tok |-> Nothing, exp |-> 0, next |-> 0,
            at |-> 0, first |-> 0, born |-> 0]

Running == {"loop", "wait", "fetch", "settle"}

Call == [pc : Running \cup {"idle", "served", "failed"}, cancelled : BOOLEAN,
         began : Nat,       \* history: the generation when Token was called
         gen : Nat,         \* the leader's copy of generation
         prev : Entry,      \* the leader's copy of current
         got : Entry]       \* what the provider answered, or Token returns

(* Mutation: a token is used up to the last moment. *)
MutUsable(e) == e.tok # Nothing /\ now < e.exp

(* There is a token, and its final moments have not come. *)
Usable(e) == e.tok # Nothing /\ now + Safety < e.exp

Earlier(a, b) == IF a < b THEN a ELSE b

(* Mutation: a token the provider only repeats gets a margin of its own. *)
MutNextCheck(g, prev) ==
    LET fifth  == (g.exp - now) \div 5
        margin == IF fifth < MinMargin THEN MinMargin ELSE fifth
        due    == g.exp - margin
    IN  Earlier(IF due <= now THEN now + Recheck ELSE due, g.exp - Safety)

(* The token is the one the cache had, and its life was not extended. *)
Repeats(g, prev) == g.tok = prev.tok /\ g.exp <= prev.exp

(* When a stored token is next asked for: in the last fifth of what is left, *)
(* or soon if that has begun or the provider only repeats itself, and never  *)
(* after the safety margin.                                                  *)
NextCheck(g, prev) ==
    LET fifth  == (g.exp - now) \div 5
        margin == IF fifth < MinMargin THEN MinMargin ELSE fifth
        due    == g.exp - margin
    IN  Earlier(IF due <= now \/ Repeats(g, prev) THEN now + Recheck ELSE due,
                g.exp - Safety)

-----------------------------------------------------------------------------
Init ==
    /\ now = 0
    /\ current = NoEntry
    /\ generation = 0
    /\ refreshing = Nothing
    /\ call = [c \in Calls |-> [pc |-> "idle", cancelled |-> FALSE, began |-> 0,
                                gen |-> 0, prev |-> NoEntry, got |-> NoEntry]]

Begin(c) ==
    /\ call[c].pc = "idle"
    /\ call' = [call EXCEPT ![c].pc = "loop", ![c].began = generation]
    /\ UNCHANGED <<now, current, generation, refreshing>>

(* Not due for renewal and not at its end: served from the cache. *)
CanServe == now < current.next /\ Usable(current)

AtTop(c) == call[c].pc = "loop" /\ ~call[c].cancelled

Serve(c) ==
    /\ AtTop(c)
    /\ CanServe
    /\ call' = [call EXCEPT ![c].pc = "served", ![c].got = current]
    /\ UNCHANGED <<now, current, generation, refreshing>>

Wait(c) ==
    /\ AtTop(c)
    /\ ~CanServe
    /\ refreshing # Nothing
    /\ call' = [call EXCEPT ![c].pc = "wait"]
    /\ UNCHANGED <<now, current, generation, refreshing>>

(* Mutation: a refresh under way does not stop another. *)
MutLead(c) ==
    /\ AtTop(c)
    /\ ~CanServe
    /\ refreshing' = c
    /\ call' = [call EXCEPT ![c] = [@ EXCEPT !.pc = "fetch", !.gen = generation,
                                            !.prev = current]]
    /\ UNCHANGED <<now, current, generation>>

Lead(c) ==
    /\ AtTop(c)
    /\ ~CanServe
    /\ refreshing = Nothing
    /\ refreshing' = c
    /\ call' = [call EXCEPT ![c] = [@ EXCEPT !.pc = "fetch", !.gen = generation,
                                            !.prev = current]]
    /\ UNCHANGED <<now, current, generation>>

(* The caller's context ends while it waits or comes round the loop. *)
GiveUp(c) ==
    /\ call[c].pc \in {"loop", "wait"}
    /\ call[c].cancelled
    /\ call' = [call EXCEPT ![c].pc = "failed"]
    /\ UNCHANGED <<now, current, generation, refreshing>>

Fetched(c, tok, exp) ==
    [NoEntry EXCEPT !.tok = tok, !.exp = exp, !.born = call[c].gen]

(* The provider's answer: an error (Nothing), a token with some life left,   *)
(* or once more the one the cache had.  An error is what a leader whose      *)
(* context has ended makes of any answer.                                    *)
FetchReturns(c) ==
    /\ call[c].pc = "fetch"
    /\ \E tok \in Tokens \cup {Nothing},
          exp \in {now + life : life \in Lives} \cup {call[c].prev.exp} :
         /\ call[c].cancelled => tok = Nothing
         /\ tok = Nothing => exp = call[c].prev.exp    \* an error has no expiry
         /\ call' = [call EXCEPT ![c] = [@ EXCEPT !.pc = "settle",
                                                  !.got = Fetched(c, tok, exp)]]
    /\ UNCHANGED <<now, current, generation, refreshing>>

(* Mutation: nobody is told that the refresh is over. *)
MutWoken(c, rec) == [call EXCEPT ![c] = rec]

(* close(done): those who wait go round the loop; the leader becomes rec. *)
Woken(c, rec) ==
    [d \in Calls |-> IF d = c THEN rec
                     ELSE IF call[d].pc = "wait" THEN [call[d] EXCEPT !.pc = "loop"]
                     ELSE call[d]]

(* A leader after its refresh: the copies are local to a round of the loop. *)
Settled(c, pc, got) ==
    [call[c] EXCEPT !.pc = pc, !.got = got, !.gen = 0, !.prev = NoEntry]

(* Mutation: an invalidation during the refresh goes unnoticed. *)
MutInvalidated(c) == FALSE

Invalidated(c) == call[c].gen # generation

(* The refresh ends with the token it fetched, also for those who wait when  *)
(* the leader itself is no longer interested.                                *)
SettleGood(c) ==
    /\ call[c].pc = "settle"
    /\ Usable(call[c].got)
    /\ ~Invalidated(c)
    /\ LET got   == call[c].got
           prev  == call[c].prev
           fresh == [got EXCEPT !.next = NextCheck(got, prev), !.at = now,
                        !.first = IF Repeats(got, prev) THEN prev.first ELSE now]
           end   == IF call[c].cancelled THEN "failed" ELSE "served"
       IN  /\ current' = fresh
           /\ call' = Woken(c, Settled(c, end, fresh))
    /\ refreshing' = Nothing
    /\ UNCHANGED <<now, generation>>

(* The token was fetched before an invalidation: thrown away, once more. *)
SettleOvertaken(c) ==
    /\ call[c].pc = "settle"
    /\ Usable(call[c].got)
    /\ Invalidated(c)
    /\ call' = Woken(c, Settled(c, "loop", NoEntry))
    /\ refreshing' = Nothing
    /\ UNCHANGED <<now, current, generation>>

(* Mutation: a failed refresh is always an error. *)
MutMayReuse(c) == FALSE

(* The refresh failed, early enough for the token before it to serve a while. *)
MayReuse(c) ==
    /\ ~call[c].cancelled
    /\ ~Invalidated(c)
    /\ Usable(call[c].prev)

SettleReuse(c) ==
    /\ call[c].pc = "settle"
    /\ ~Usable(call[c].got)
    /\ MayReuse(c)
    /\ LET prev  == call[c].prev
           again == [prev EXCEPT !.next = Earlier(now + Recheck, prev.exp - Safety),
                                 !.at = now]
       IN  /\ current' = again
           /\ call' = Woken(c, Settled(c, "served", again))
    /\ refreshing' = Nothing
    /\ UNCHANGED <<now, generation>>

SettleFails(c) ==
    /\ call[c].pc = "settle"
    /\ ~Usable(call[c].got)
    /\ ~MayReuse(c)
    /\ call' = Woken(c, Settled(c, "failed", NoEntry))
    /\ refreshing' = Nothing
    /\ UNCHANGED <<now, current, generation>>

Invalidate ==
    /\ generation < MaxGen
    /\ current' = NoEntry
    /\ generation' = generation + 1
    /\ UNCHANGED <<now, refreshing, call>>

(* Callers' contexts: cancelled, or past the thirty seconds of a service. *)
Cancel(c) ==
    /\ call[c].pc \in Running
    /\ ~call[c].cancelled
    /\ call' = [call EXCEPT ![c].cancelled = TRUE]
    /\ UNCHANGED <<now, current, generation, refreshing>>

Tick ==
    /\ now' \in {t \in Instants : t > now}
    /\ UNCHANGED <<current, generation, refreshing, call>>

Settle(c) ==
    SettleGood(c) \/ SettleOvertaken(c) \/ SettleReuse(c) \/ SettleFails(c)

Proceed(c) ==
    Serve(c) \/ Wait(c) \/ Lead(c) \/ GiveUp(c) \/ FetchReturns(c) \/ Settle(c)

Next ==
    \/ \E c \in Calls : Begin(c) \/ Proceed(c) \/ Cancel(c)
    \/ Invalidate
    \/ Tick

Spec == Init /\ [][Next]_vars

(* A call that was made runs on; the provider answers or the context of the  *)
(* request ends.                                                             *)
FairSpec == Spec /\ \A c \in Calls : WF_vars(Proceed(c))

-----------------------------------------------------------------------------
(* Properties *)

(* Types of all variables. *)
TypeOK ==
    /\ now \in Nat
    /\ current \in Entry
    /\ generation \in Nat
    /\ refreshing \in Calls \cup {Nothing}
    /\ call \in [Calls -> Call]

(* A token invalidated before a call of Token began is never returned by     *)
(* that call, although a refresh that began earlier may bring it back        *)
(* afterwards: whatever is served was asked for in the call's generation or  *)
(* a later one.                                                              *)
FencedTokens ==
    \A c \in Calls :
        call[c].pc = "served" => call[c].began <= call[c].got.born

(* There is one refresh at a time: whoever is between taking the lead and    *)
(* settling is the call the cache knows, however often the token is          *)
(* invalidated and whoever is cancelled meanwhile.                           *)
OneRefresh ==
    \A c \in Calls : call[c].pc \in {"fetch", "settle"} <=> c = refreshing

Returns(c, end) == call[c].pc # end /\ call'[c].pc = end

(* No call returns a token in its safety margin, fetched, cached or reused   *)
(* after a failed refresh.                                                   *)
NotExpired ==
    [][\A c \in Calls :
         Returns(c, "served") => now + Safety < call'[c].got.exp]_vars

(* Nobody fails for somebody else: a call whose context is alive returns an  *)
(* error only if its own refresh failed, and then only if the cache holds no *)
(* token that could still serve.                                             *)
LiveCallsServed ==
    [][\A c \in Calls :
         Returns(c, "failed") /\ ~call[c].cancelled =>
             c = refreshing /\ ~Usable(current)]_vars

(* In the last fifth of a token's life (no less than MinMargin), counted     *)
(* from when it was first seen, the cache serves it without a refresh only   *)
(* for Recheck after it last asked for a new one.                            *)
CheckedInTime ==
    [][\A c \in Calls :
         Returns(c, "served") /\ c # refreshing =>
             LET e     == call'[c].got
                 fifth == (e.exp - e.first) \div 5
             IN  \/ now < e.at + Recheck
                 \/ now + fifth < e.exp /\ now + MinMargin < e.exp]_vars

(* Every call of Token returns, also when the call that leads the refresh is *)
(* cancelled, fails or is overtaken by an invalidation.                      *)
CallsReturn ==
    \A c \in Calls :
        call[c].pc \in Running ~> call[c].pc \in {"served", "failed"}
=============================================================================
