-------------------------- MODULE TokenCacheProofs --------------------------
(***************************************************************************)
(* Safety of the token cache for any number of calls, any tokens and       *)
(* lives, and any safety margin, recheck interval and minimum margin.      *)
(***************************************************************************)
EXTENDS TokenCache, TLAPS

Leading(c) == call[c].pc \in {"fetch", "settle"}

(* A call and the cache agree.  Only the leader refreshes.  Its copy of the  *)
(* generation lies between the one its call began in and the present one;    *)
(* while it is the present one nothing was stored since the copy of current  *)
(* was taken, and afterwards nothing is cached at all.                       *)
CallOK(c) ==
    /\ call[c].began <= generation
    /\ Leading(c) <=> c = refreshing
    /\ Leading(c) =>
         /\ call[c].began <= call[c].gen
         /\ call[c].gen <= generation
         /\ current = IF Invalidated(c) THEN NoEntry ELSE call[c].prev
    /\ call[c].pc = "settle" => call[c].got.born = call[c].gen
    /\ call[c].pc = "served" => call[c].began <= call[c].got.born

(* A cached token is of the present generation, and its next check respects  *)
(* the recheck interval or the margins, counted from when it was first seen. *)
CacheOK ==
    /\ current.tok # Nothing => current.born = generation
    /\ \/ current.next <= current.at + Recheck
       \/ /\ current.next + (current.exp - current.first) \div 5 <= current.exp
          /\ current.next + MinMargin <= current.exp

IInv == TypeOK /\ CacheOK /\ \A c \in Calls : CallOK(c)

-----------------------------------------------------------------------------
(* Operators *)

LEMMA NoEntryType == NoEntry \in Entry
BY DEF NoEntry, Entry

(* The next check of a usable token lies ahead and not in its safety margin. *)
LEMMA NextCheckBounds ==
    ASSUME NEW g \in Entry, NEW prev \in Entry, now \in Nat, Usable(g)
    PROVE  /\ NextCheck(g, prev) \in Nat
           /\ now < NextCheck(g, prev)
           /\ NextCheck(g, prev) + Safety <= g.exp
<1>1. g.exp \in Nat /\ now + Safety < g.exp
  BY DEF Entry, Usable
<1>2. (g.exp - now) \div 5 \in Int
  BY <1>1
<1> QED  BY <1>1, <1>2, TimesAssumption DEF NextCheck, Earlier

(* It is soon, or leaves the margins, those of the token before it too when  *)
(* the provider repeats that one.                                            *)
LEMMA NextCheckInTime ==
    ASSUME NEW g \in Entry, NEW prev \in Entry, now \in Nat, Usable(g)
    PROVE  \/ NextCheck(g, prev) <= now + Recheck
           \/ /\ ~Repeats(g, prev)
              /\ NextCheck(g, prev) + (g.exp - now) \div 5 <= g.exp
              /\ NextCheck(g, prev) + MinMargin <= g.exp
<1>1. g.exp \in Nat
  BY DEF Entry
<1>2. (g.exp - now) \div 5 \in Int
  BY <1>1
<1> QED  BY <1>1, <1>2, TimesAssumption DEF NextCheck, Earlier

-----------------------------------------------------------------------------
(* The invariant *)

LEMMA InitIInv == Init => IInv
<1> SUFFICES ASSUME Init PROVE IInv
  OBVIOUS
<1> USE NoEntryType, NothingAssumption, TimesAssumption
<1>1. TypeOK
  BY DEF Init, TypeOK, Call
<1>2. CacheOK
  BY DEF Init, CacheOK, NoEntry
<1>3. \A c \in Calls : CallOK(c)
  BY DEF Init, CallOK, Leading
<1> QED  BY <1>1, <1>2, <1>3 DEF IInv

(* Every step of a call that settles nothing keeps the types. *)
LEMMA CallTypes ==
    ASSUME TypeOK, NEW p \in Calls,
           \/ Begin(p) \/ Serve(p) \/ Wait(p) \/ Lead(p)
           \/ GiveUp(p) \/ FetchReturns(p) \/ Cancel(p)
    PROVE  TypeOK'
<1> USE DEF TypeOK, Call, Running
<1>1. CASE Begin(p)
  <2>1. UNCHANGED <<now, generation, current, refreshing>>
    BY <1>1 DEF Begin
  <2>2. [call[p] EXCEPT !.pc = "loop", !.began = generation] \in Call
    OBVIOUS
  <2>3. call' = [call EXCEPT ![p] = [call[p] EXCEPT !.pc = "loop", !.began = generation]]
    BY <1>1 DEF Begin
  <2> QED  BY <2>1, <2>2, <2>3
<1>2. CASE Serve(p)
  BY <1>2 DEF Serve
<1>3. CASE Wait(p)
  BY <1>3 DEF Wait
<1>4. CASE Lead(p)
  <2>1. [call[p] EXCEPT !.pc = "fetch", !.gen = generation, !.prev = current] \in Call
    OBVIOUS
  <2> QED  BY <1>4, <2>1 DEF Lead
<1>5. CASE GiveUp(p)
  BY <1>5 DEF GiveUp
<1>6. CASE FetchReturns(p)
  <2>1. PICK tok \in Tokens \cup {Nothing},
             exp \in {now + life : life \in Lives} \cup {call[p].prev.exp} :
          call' = [call EXCEPT ![p] = [@ EXCEPT !.pc = "settle",
                                                !.got = Fetched(p, tok, exp)]]
    BY <1>6 DEF FetchReturns
  <2>2. exp \in Nat
    BY TimesAssumption DEF Entry
  <2>3. Fetched(p, tok, exp) \in Entry
    BY <2>2, NoEntryType DEF Entry, Fetched
  <2>4. [call[p] EXCEPT !.pc = "settle", !.got = Fetched(p, tok, exp)] \in Call
    BY <2>3
  <2> QED  BY <2>1, <2>4, <1>6 DEF FetchReturns
<1>7. CASE Cancel(p)
  BY <1>7 DEF Cancel
<1> QED  BY <1>1, <1>2, <1>3, <1>4, <1>5, <1>6, <1>7

(* A step of one call beside which the cache and the other calls stay.       *)
LEMMA CallStep ==
    ASSUME IInv, NEW p \in Calls,
           \/ Begin(p) \/ Serve(p) \/ Wait(p) \/ Lead(p)
           \/ GiveUp(p) \/ FetchReturns(p) \/ Cancel(p)
    PROVE  CacheOK' /\ \A c \in Calls : CallOK(c)'
<1> USE DEF IInv, TypeOK
<1>1. UNCHANGED <<now, current, generation>>
  BY DEF Begin, Serve, Wait, Lead, GiveUp, FetchReturns, Cancel
<1>2. CacheOK'
  BY <1>1 DEF CacheOK
<1>3. call' = [call EXCEPT ![p] = call'[p]]
  BY DEF Begin, Serve, Wait, Lead, GiveUp, FetchReturns, Cancel
<1>4. \/ refreshing' = refreshing
      \/ refreshing = Nothing /\ refreshing' = p
  BY DEF Begin, Serve, Wait, Lead, GiveUp, FetchReturns, Cancel
<1>5. ASSUME NEW c \in Calls, c # p  PROVE CallOK(c)'
  <2>1. call'[c] = call[c]
    BY <1>3, <1>5
  <2> QED  BY <1>1, <1>4, <1>5, <2>1, NothingAssumption
           DEF CallOK, Leading, Invalidated
<1>6. CallOK(p)'
  <2> USE <1>1 DEF CallOK, Leading, Invalidated, Call, Running
  <2>1. CASE Begin(p)
    BY <2>1 DEF Begin
  <2>2. CASE Serve(p)
    BY <2>2 DEF Serve, AtTop, CanServe, Usable, CacheOK
  <2>3. CASE Wait(p)
    BY <2>3 DEF Wait, AtTop
  <2>4. CASE Lead(p)
    BY <2>4 DEF Lead, AtTop
  <2>5. CASE GiveUp(p)
    BY <2>5 DEF GiveUp
  <2>6. CASE FetchReturns(p)
    <3>1. PICK tok, exp :
            call' = [call EXCEPT ![p] = [@ EXCEPT !.pc = "settle",
                                                  !.got = Fetched(p, tok, exp)]]
      BY <2>6 DEF FetchReturns
    <3>2. Fetched(p, tok, exp).born = call[p].gen
      BY DEF Fetched, NoEntry
    <3>3. /\ call[p].pc = "fetch" /\ call'[p].pc = "settle"
          /\ call'[p].got.born = call[p].gen
          /\ call'[p].gen = call[p].gen /\ call'[p].prev = call[p].prev
          /\ call'[p].began = call[p].began
          /\ refreshing' = refreshing
      <4> DEFINE ans == Fetched(p, tok, exp)
      <4>1. call[p].pc = "fetch" /\ refreshing' = refreshing
        BY <2>6 DEF FetchReturns
      <4>2. ans.born = call[p].gen
        BY <3>2
      <4> HIDE DEF ans
      <4>3. call'[p] = [call[p] EXCEPT !.pc = "settle", !.got = ans]
        BY <3>1 DEF ans
      <4> QED  BY <4>1, <4>2, <4>3
    <3> QED  BY <3>3
  <2>7. CASE Cancel(p)
    BY <2>7 DEF Cancel
  <2> QED  BY <2>1, <2>2, <2>3, <2>4, <2>5, <2>6, <2>7
<1> QED  BY <1>2, <1>5, <1>6

(* What the four ways to end a refresh have in common: nobody refreshes any  *)
(* more, the others are woken, and the generation stays.                     *)
LEMMA SettleStep ==
    ASSUME IInv, NEW p \in Calls, NEW rec \in Call, Leading(p),
           call' = Woken(p, rec), refreshing' = Nothing,
           generation' = generation, now' = now, current' \in Entry,
           rec.pc \in {"loop", "served", "failed"}, rec.began = call[p].began,
           rec.pc = "served" => rec.began <= rec.got.born
    PROVE  TypeOK' /\ \A c \in Calls : CallOK(c)'
<1> USE DEF IInv, TypeOK
<1>1. /\ call' \in [Calls -> Call]
      /\ call'[p] = rec
      /\ \A d \in Calls \ {p} :
           \/ call'[d] = call[d]
           \/ call[d].pc = "wait" /\ call'[d] = [call[d] EXCEPT !.pc = "loop"]
  <2>1. \A d \in Calls : [call[d] EXCEPT !.pc = "loop"] \in Call
    BY DEF Call, Running
  <2> QED  BY <2>1 DEF Woken
<1>2. refreshing = p
  BY DEF CallOK
<1>3. CallOK(p)'
  BY <1>1, <1>2, NothingAssumption DEF CallOK, Leading
<1>4. ASSUME NEW c \in Calls, c # p  PROVE CallOK(c)'
  <2>1. ~Leading(c)
    BY <1>2, <1>4 DEF CallOK
  <2>2. CASE call'[c] = call[c]
    BY <2>1, <2>2, NothingAssumption DEF CallOK, Leading
  <2>3. CASE call[c].pc = "wait" /\ call'[c] = [call[c] EXCEPT !.pc = "loop"]
    <3>1. call'[c].pc = "loop" /\ call'[c].began = call[c].began
      BY <2>3 DEF Call
    <3> QED  BY <3>1, NothingAssumption DEF CallOK, Leading
  <2> QED  BY <1>1, <1>4, <2>2, <2>3
<1> QED  BY <1>1, <1>3, <1>4

LEMMA SettledType ==
    ASSUME TypeOK, NEW p \in Calls, NEW end \in {"loop", "served", "failed"},
           NEW got \in Entry
    PROVE  /\ Settled(p, end, got) \in Call
           /\ Settled(p, end, got).pc = end
           /\ Settled(p, end, got).got = got
           /\ Settled(p, end, got).began = call[p].began
BY NoEntryType DEF TypeOK, Settled, Call, Running

LEMMA SettleGoodIInv ==
    ASSUME IInv, NEW p \in Calls, SettleGood(p)
    PROVE  IInv'
<1> DEFINE got   == call[p].got
           prev  == call[p].prev
           first == IF Repeats(got, prev) THEN prev.first ELSE now
           fresh == [got EXCEPT !.next = NextCheck(got, prev), !.at = now,
                                !.first = first]
           end   == IF call[p].cancelled THEN "failed" ELSE "served"
           rec   == Settled(p, end, fresh)
<1>1. /\ TypeOK /\ got \in Entry /\ prev \in Entry /\ now \in Nat
      /\ call[p].pc = "settle" /\ Usable(got) /\ ~Invalidated(p)
      /\ current' = fresh /\ call' = Woken(p, rec) /\ refreshing' = Nothing
      /\ UNCHANGED <<now, generation>>
  BY DEF IInv, TypeOK, Call, SettleGood
<1>2. NextCheck(got, prev) \in Nat /\ first \in Nat
  BY <1>1, NextCheckBounds DEF Entry
<1>3. /\ fresh \in Entry /\ fresh.born = got.born /\ fresh.exp = got.exp
      /\ fresh.next = NextCheck(got, prev) /\ fresh.at = now /\ fresh.first = first
  BY <1>1, <1>2 DEF Entry
<1>4. call[p].began <= got.born /\ got.born = generation
  BY <1>1 DEF IInv, CallOK, Leading, Invalidated
<1>5. /\ rec \in Call /\ rec.pc = end /\ rec.began = call[p].began /\ rec.got = fresh
      /\ end \in {"loop", "served", "failed"}
  <2>1. end \in {"loop", "served", "failed"}
    OBVIOUS
  <2> HIDE DEF fresh, end
  <2> QED  BY <1>1, <1>3, <2>1, SettledType
<1>6. TypeOK' /\ \A c \in Calls : CallOK(c)'
  <2> HIDE DEF rec, fresh, end
  <2> QED  BY <1>1, <1>3, <1>4, <1>5, SettleStep DEF Leading
<1>7. CacheOK'
  <2>1. ~Repeats(got, prev) => first = now
    OBVIOUS
  <2> HIDE DEF fresh, first, got, prev
  <2> QED  BY <1>1, <1>3, <1>4, <2>1, NextCheckInTime DEF CacheOK
<1> QED  BY <1>6, <1>7 DEF IInv

LEMMA SettleReuseIInv ==
    ASSUME IInv, NEW p \in Calls, SettleReuse(p)
    PROVE  IInv'
<1> DEFINE prev  == call[p].prev
           next  == Earlier(now + Recheck, prev.exp - Safety)
           again == [prev EXCEPT !.next = next, !.at = now]
           rec   == Settled(p, "served", again)
<1>1. /\ TypeOK /\ prev \in Entry /\ now \in Nat
      /\ call[p].pc = "settle" /\ Usable(prev) /\ ~Invalidated(p)
      /\ current' = again /\ call' = Woken(p, rec) /\ refreshing' = Nothing
      /\ UNCHANGED <<now, generation>>
  BY DEF IInv, TypeOK, Call, SettleReuse, MayReuse
<1>2. next \in Nat /\ next <= now + Recheck
  BY <1>1, TimesAssumption DEF Earlier, Usable, Entry
<1>3. /\ again \in Entry /\ again.born = prev.born
      /\ again.next = next /\ again.at = now
  BY <1>1, <1>2 DEF Entry
<1>4. prev.born = generation /\ call[p].began <= prev.born
  BY <1>1 DEF IInv, CallOK, CacheOK, Leading, Invalidated, Usable
<1>5. /\ rec \in Call /\ rec.pc = "served" /\ rec.began = call[p].began
      /\ rec.got = again
  <2> HIDE DEF again
  <2> QED  BY <1>1, <1>3, SettledType
<1>6. TypeOK' /\ \A c \in Calls : CallOK(c)'
  <2> HIDE DEF rec, again
  <2> QED  BY <1>1, <1>3, <1>4, <1>5, SettleStep DEF Leading
<1>7. CacheOK'
  <2> HIDE DEF again, next, prev
  <2> QED  BY <1>1, <1>2, <1>3, <1>4 DEF CacheOK
<1> QED  BY <1>6, <1>7 DEF IInv

LEMMA SettleEmptyIInv ==
    ASSUME IInv, NEW p \in Calls, SettleOvertaken(p) \/ SettleFails(p)
    PROVE  IInv'
<1>1. PICK end \in {"loop", "failed"} :
        /\ call[p].pc = "settle"
        /\ call' = Woken(p, Settled(p, end, NoEntry))
        /\ refreshing' = Nothing
        /\ UNCHANGED <<now, current, generation>>
  BY DEF SettleOvertaken, SettleFails
<1>2. TypeOK /\ end \in {"loop", "served", "failed"}
  BY DEF IInv
<1>3. TypeOK' /\ \A c \in Calls : CallOK(c)'
  <2> DEFINE rec == Settled(p, end, NoEntry)
  <2>1. rec \in Call /\ rec.pc = end /\ rec.began = call[p].began
    BY <1>2, SettledType, NoEntryType
  <2>2. current' \in Entry
    BY <1>1, <1>2 DEF TypeOK
  <2> HIDE DEF rec
  <2>3. call' = Woken(p, rec)
    BY <1>1 DEF rec
  <2> QED  BY <1>1, <2>1, <2>2, <2>3, SettleStep DEF Leading
<1>4. CacheOK'
  BY <1>1 DEF IInv, CacheOK
<1> QED  BY <1>3, <1>4 DEF IInv

(* An invalidation leaves nothing cached and every leader behind. *)
LEMMA InvalidateIInv == ASSUME IInv, Invalidate PROVE IInv'
<1> USE DEF IInv, TypeOK, Invalidate
<1>1. TypeOK'
  BY NoEntryType
<1>2. CacheOK'
  BY TimesAssumption DEF CacheOK, NoEntry
<1>3. ASSUME NEW c \in Calls  PROVE CallOK(c)'
  BY DEF CallOK, Leading, Invalidated, Call
<1> QED  BY <1>1, <1>2, <1>3

LEMMA TickIInv == ASSUME IInv, Tick PROVE IInv'
<1> USE DEF IInv, TypeOK, Tick
<1>1. TypeOK'
  BY TimesAssumption
<1>2. CacheOK'
  BY DEF CacheOK
<1>3. ASSUME NEW c \in Calls  PROVE CallOK(c)'
  BY DEF CallOK, Leading, Invalidated
<1> QED  BY <1>1, <1>2, <1>3

LEMMA NextIInv == IInv /\ [Next]_vars => IInv'
<1> SUFFICES ASSUME IInv, [Next]_vars PROVE IInv'
  OBVIOUS
<1>1. ASSUME NEW p \in Calls,
             \/ Begin(p) \/ Serve(p) \/ Wait(p) \/ Lead(p)
             \/ GiveUp(p) \/ FetchReturns(p) \/ Cancel(p)
      PROVE  IInv'
  BY <1>1, CallTypes, CallStep DEF IInv
<1>2. CASE UNCHANGED vars
  BY <1>2 DEF vars, IInv, TypeOK, CacheOK, CallOK, Leading, Invalidated
<1> QED
  BY <1>1, <1>2, SettleGoodIInv, SettleReuseIInv, SettleEmptyIInv, InvalidateIInv,
     TickIInv DEF Next, Proceed, Settle

-----------------------------------------------------------------------------
(* How a call ends *)

(* A call that returns a token found it in the cache, fetched it, or falls   *)
(* back to the one before; only the second and third lead a refresh.         *)
LEMMA ServedBy ==
    ASSUME IInv, [Next]_vars, NEW c \in Calls, Returns(c, "served")
    PROVE  LET g == call'[c].got
           IN  /\ now + Safety < g.exp
               /\ c # refreshing => CanServe /\ g = current
<1> USE DEF IInv, TypeOK
<1>0. call[c].pc # "served" /\ call'[c].pc = "served"
  BY DEF Returns
<1>1. ASSUME NEW p \in Calls, Begin(p) \/ Wait(p) \/ Lead(p) \/ GiveUp(p) \/ Cancel(p)
      PROVE  call'[c].pc # "served" \/ call[c].pc = "served"
  <2>1. CASE Lead(p)
    BY <2>1 DEF Lead, Call
  <2>2. CASE Cancel(p)
    BY <2>2 DEF Cancel, Call
  <2>3. CASE Begin(p) \/ Wait(p) \/ GiveUp(p)
    BY <2>3 DEF Begin, Wait, GiveUp, Call
  <2> QED  BY <1>1, <2>1, <2>2, <2>3
<1>2. ASSUME NEW p \in Calls, FetchReturns(p)
      PROVE  call'[c].pc # "served" \/ call[c].pc = "served"
  <2>1. PICK tok, exp :
          call' = [call EXCEPT ![p] = [@ EXCEPT !.pc = "settle",
                                                !.got = Fetched(p, tok, exp)]]
    BY <1>2 DEF FetchReturns
  <2> QED  BY <2>1 DEF Call
<1>3. CASE Invalidate \/ Tick \/ UNCHANGED vars
  BY <1>0, <1>3 DEF Invalidate, Tick, vars
<1>4. ASSUME NEW p \in Calls, Serve(p)
      PROVE  CanServe /\ call'[c].got = current
  BY <1>0, <1>4 DEF Serve, Call
<1>5. ASSUME NEW p \in Calls, Settle(p)
      PROVE  c = p /\ Leading(p) /\ now + Safety < call'[c].got.exp
  <2>1. PICK end \in {"loop", "served", "failed"}, got \in Entry :
          /\ call' = Woken(p, Settled(p, end, got)) /\ Leading(p)
          /\ end = "served" => now + Safety < got.exp
    <3>1. CASE SettleGood(p)
      <4> DEFINE fresh == [call[p].got EXCEPT
                             !.next = NextCheck(call[p].got, call[p].prev), !.at = now,
                             !.first = IF Repeats(call[p].got, call[p].prev)
                                       THEN call[p].prev.first ELSE now]
      <4>1. fresh \in Entry
        <5>1. call[p].got \in Entry /\ call[p].prev \in Entry /\ Usable(call[p].got)
          BY <3>1 DEF SettleGood, Call
        <5> QED  BY <5>1, NextCheckBounds DEF Entry
      <4>2. now + Safety < fresh.exp
        BY <3>1 DEF SettleGood, Usable, Call, Entry
      <4> QED  BY <3>1, <4>1, <4>2 DEF SettleGood, Leading
    <3>2. CASE SettleReuse(p)
      <4> DEFINE again == [call[p].prev EXCEPT
                             !.next = Earlier(now + Recheck, call[p].prev.exp - Safety),
                             !.at = now]
      <4>1. again \in Entry /\ now + Safety < again.exp
        <5>1. call[p].prev \in Entry /\ Usable(call[p].prev)
          BY <3>2 DEF SettleReuse, MayReuse, Call
        <5>2. Earlier(now + Recheck, call[p].prev.exp - Safety) \in Nat
          BY <5>1, TimesAssumption DEF Entry, Usable, Earlier
        <5>3. again \in Entry /\ again.exp = call[p].prev.exp
          BY <5>1, <5>2 DEF Entry
        <5> QED  BY <5>1, <5>3 DEF Usable
      <4> QED  BY <3>2, <4>1 DEF SettleReuse, Leading
    <3>3. CASE SettleOvertaken(p) \/ SettleFails(p)
      BY <3>3, NoEntryType DEF SettleOvertaken, SettleFails, Leading
    <3> QED  BY <1>5, <3>1, <3>2, <3>3 DEF Settle
  <2>2. /\ Settled(p, end, got).pc = end /\ Settled(p, end, got).got = got
    BY SettledType
  <2>3. CASE c = p
    BY <1>0, <2>1, <2>2, <2>3 DEF Woken
  <2>4. CASE c # p
    <3>1. \/ call'[c] = call[c]
          \/ call'[c] = [call[c] EXCEPT !.pc = "loop"]
      BY <2>1, <2>4 DEF Woken
    <3> QED  BY <1>0, <3>1 DEF Call
  <2> QED  BY <2>3, <2>4
<1>6. \A p \in Calls : Leading(p) => p = refreshing
  BY DEF CallOK
<1> QED
  BY <1>0, <1>1, <1>2, <1>3, <1>4, <1>5, <1>6
     DEF Next, Proceed, CanServe, Usable

(* A live call fails only as the leader, with nothing usable left. *)
LEMMA FailedBy ==
    ASSUME IInv, [Next]_vars, NEW c \in Calls, Returns(c, "failed"), ~call[c].cancelled
    PROVE  c = refreshing /\ ~Usable(current)
<1> USE DEF IInv, TypeOK
<1>0. call[c].pc # "failed" /\ call'[c].pc = "failed"
  BY DEF Returns
<1>1. ASSUME NEW p \in Calls,
             Begin(p) \/ Serve(p) \/ Wait(p) \/ Lead(p) \/ Cancel(p) \/ GiveUp(p)
      PROVE  FALSE
  <2>1. CASE Lead(p)
    BY <1>0, <2>1 DEF Lead, Call
  <2>2. CASE Cancel(p)
    BY <1>0, <2>2 DEF Cancel, Call
  <2>3. CASE Begin(p) \/ Wait(p)
    BY <1>0, <2>3 DEF Begin, Wait, Call
  <2>4. CASE Serve(p)
    BY <1>0, <2>4 DEF Serve, Call
  <2>5. CASE GiveUp(p)
    BY <1>0, <2>5 DEF GiveUp, Call
  <2> QED  BY <1>1, <2>1, <2>2, <2>3, <2>4, <2>5
<1>2. ASSUME NEW p \in Calls, FetchReturns(p)
      PROVE  FALSE
  <2>1. PICK tok, exp :
          call' = [call EXCEPT ![p] = [@ EXCEPT !.pc = "settle",
                                                !.got = Fetched(p, tok, exp)]]
    BY <1>2 DEF FetchReturns
  <2> QED  BY <1>0, <2>1 DEF Call
<1>3. CASE Invalidate \/ Tick \/ UNCHANGED vars
  BY <1>0, <1>3 DEF Invalidate, Tick, vars
<1>4. ASSUME NEW p \in Calls, Settle(p)
      PROVE  c = p /\ SettleFails(p)
  <2>0. \A pc, got : Settled(p, pc, got).pc = pc
    BY DEF Settled, Call
  <2>1. PICK rec :
          /\ call' = Woken(p, rec)
          /\ rec.pc = "failed" => call[p].cancelled \/ SettleFails(p)
    <3>1. CASE SettleGood(p)
      <4>1. PICK fresh : call' = Woken(p, Settled(p,
                    IF call[p].cancelled THEN "failed" ELSE "served", fresh))
        BY <3>1 DEF SettleGood
      <4> QED  BY <2>0, <4>1
    <3>2. CASE SettleReuse(p)
      <4>1. PICK again : call' = Woken(p, Settled(p, "served", again))
        BY <3>2 DEF SettleReuse
      <4> QED  BY <2>0, <4>1
    <3>3. CASE SettleOvertaken(p)
      BY <2>0, <3>3 DEF SettleOvertaken
    <3>4. CASE SettleFails(p)
      BY <3>4 DEF SettleFails
    <3> QED  BY <1>4, <3>1, <3>2, <3>3, <3>4 DEF Settle
  <2>2. CASE c = p
    BY <1>0, <2>1, <2>2 DEF Woken
  <2>3. CASE c # p
    <3>1. \/ call'[c] = call[c]
          \/ call'[c] = [call[c] EXCEPT !.pc = "loop"]
      BY <2>1, <2>3 DEF Woken
    <3> QED  BY <1>0, <3>1 DEF Call
  <2> QED  BY <2>2, <2>3
<1>5. ASSUME SettleFails(c)
      PROVE  c = refreshing /\ ~Usable(current)
  <2>1. Leading(c)
    BY <1>5 DEF SettleFails, Leading
  <2>2. c = refreshing /\ current = IF Invalidated(c) THEN NoEntry ELSE call[c].prev
    BY <2>1 DEF CallOK
  <2>3. Invalidated(c) \/ ~Usable(call[c].prev)
    BY <1>5 DEF SettleFails, MayReuse
  <2> QED  BY <2>2, <2>3 DEF Usable, NoEntry
<1> QED
  BY <1>1, <1>2, <1>3, <1>4, <1>5 DEF Next, Proceed

-----------------------------------------------------------------------------
(* Theorems *)

(* The invariant holds in every reachable state. *)
THEOREM CacheInvariant == Spec => []IInv
<1> QED  BY InitIInv, NextIInv, PTL DEF Spec

(* The variables of the cache keep their types. *)
THEOREM CacheTypes == Spec => []TypeOK
<1>1. IInv => TypeOK
  BY DEF IInv
<1> QED  BY CacheInvariant, <1>1, PTL

(* Token never returns what was fetched in a generation before its call,     *)
(* whatever is invalidated, cancelled or refreshed in between.               *)
THEOREM TokensAreFenced == Spec => []FencedTokens
<1>1. IInv => FencedTokens
  BY DEF IInv, CallOK, FencedTokens
<1> QED  BY CacheInvariant, <1>1, PTL

(* At most one call at a time asks the identity provider. *)
THEOREM RefreshesAreAlone == Spec => []OneRefresh
<1>1. IInv => OneRefresh
  BY DEF IInv, CallOK, Leading, OneRefresh
<1> QED  BY CacheInvariant, <1>1, PTL

(* No token is returned in its safety margin. *)
THEOREM TokensAreLive == Spec => NotExpired
<1>1. IInv /\ [Next]_vars =>
        [\A c \in Calls :
           Returns(c, "served") => now + Safety < call'[c].got.exp]_vars
  BY ServedBy
<1> QED  BY CacheInvariant, <1>1, PTL DEF Spec, NotExpired

(* A call whose context is alive is never failed by another's refresh. *)
THEOREM LiveCallsAreServed == Spec => LiveCallsServed
<1>1. IInv /\ [Next]_vars =>
        [\A c \in Calls :
           Returns(c, "failed") /\ ~call[c].cancelled =>
               c = refreshing /\ ~Usable(current)]_vars
  BY FailedBy
<1> QED  BY CacheInvariant, <1>1, PTL DEF Spec, LiveCallsServed

(* Near its end a token is served from the cache only for Recheck after the  *)
(* provider was last asked.                                                  *)
THEOREM TokensAreChecked == Spec => CheckedInTime
<1> DEFINE A == \A c \in Calls :
         Returns(c, "served") /\ c # refreshing =>
             LET e     == call'[c].got
                 fifth == (e.exp - e.first) \div 5
             IN  \/ now < e.at + Recheck
                 \/ now + fifth < e.exp /\ now + MinMargin < e.exp
<1>1. ASSUME IInv, [Next]_vars  PROVE A
  <2> SUFFICES ASSUME NEW c \in Calls, Returns(c, "served"), c # refreshing
               PROVE  \/ now < current.at + Recheck
                      \/ /\ now + (current.exp - current.first) \div 5 < current.exp
                         /\ now + MinMargin < current.exp
    BY <1>1, ServedBy
  <2>1. now < current.next
    BY <1>1, ServedBy DEF CanServe
  <2>2. (current.exp - current.first) \div 5 \in Int
    BY <1>1 DEF IInv, TypeOK, Entry
  <2> QED  BY <1>1, <2>1, <2>2, TimesAssumption DEF IInv, TypeOK, Entry, CacheOK
<1>2. IInv /\ [Next]_vars => [A]_vars
  BY <1>1
<1> HIDE DEF A
<1>3. Spec => [][A]_vars
  BY CacheInvariant, <1>2, PTL DEF Spec
<1> QED  BY <1>3 DEF CheckedInTime, A

=============================================================================
