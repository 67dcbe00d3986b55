--------------------------- MODULE DiscoveryProofs ---------------------------
(***************************************************************************)
(* The inventory cache serves what the plugin's own workers have done, and *)
(* the filters hide what releases own, for every number of calls, targets, *)
(* objects, owner references and changes.                                  *)
(***************************************************************************)
EXTENDS Discovery, TLAPS

PCs == {"idle", "cached", "build", "store", "filter", "owners"}

Entry == [here : BOOLEAN, fresh : BOOLEAN, objs : SUBSET Objects, ver : Nat]

(* A call keeps all its fields, whatever the filters put in some of them.    *)
HasFields(x) ==
    x \in [pc : {x.pc}, kind : {x.kind}, key : {x.key}, floor : {x.floor}, gen : {x.gen},
           objs : {x.objs}, ver : {x.ver}, hidden : {x.hidden}, lost : {x.lost},
           todo : {x.todo}, memo : {x.memo}, at : {x.at}, chain : {x.chain}]

(* The parts of the state that carry a version or a generation.              *)
Shape ==
    /\ ver \in Nat /\ settled \in Nat /\ writer \in Nat /\ generation \in Nat
    /\ rendered \subseteq Objects
    /\ entry \in [Keys -> Entry]
    /\ \A c \in Calls :
          /\ HasFields(call[c])
          /\ call[c].pc \in PCs /\ call[c].key \in Keys \cup {Uncached}
          /\ call[c].pc \in {"cached", "store"} => call[c].key \in Keys
          /\ call[c].floor \in Nat /\ call[c].gen \in Nat /\ call[c].ver \in Nat
          /\ call[c].objs \subseteq Objects

(* Versions only grow, and a worker's change is not older than a settled one.*)
Ordered == settled <= ver /\ writer <= ver /\ (writer # 0 => settled <= writer)

(* An entry is at least as new as the last settled change.                   *)
EntryOK(k) == entry[k].here => entry[k].ver >= settled

(* A call asks for no more than is settled.  One about to store its build    *)
(* has a build that was settled when its generation was drawn: if that is    *)
(* still the generation, no change was settled since.                        *)
CallOK(c) ==
    /\ call[c].floor <= settled /\ call[c].gen <= generation
    /\ call[c].pc \in {"store", "filter"} => call[c].ver >= call[c].floor
    /\ call[c].pc = "store" /\ call[c].gen = generation => call[c].ver >= settled

IInv ==
    /\ Shape /\ Ordered
    /\ \A k \in Keys : EntryOK(k)
    /\ \A c \in Calls : CallOK(c)

LEMMA InitIInv == Init => IInv
<1> SUFFICES ASSUME Init PROVE IInv
  OBVIOUS
<1>1. NoEntry \in Entry /\ ~NoEntry.here
  BY DEF NoEntry, Entry
<1>2. \A c \in Calls : /\ call[c].pc = "idle" /\ call[c].key = Uncached /\ call[c].floor = 0
                       /\ call[c].gen = 0 /\ call[c].ver = 0 /\ call[c].objs = {}
                       /\ HasFields(call[c])
  BY DEF Init, Idle, HasFields
<1>3. Shape
  BY <1>1, <1>2 DEF Init, Shape, PCs
<1>4. Ordered /\ \A k \in Keys : EntryOK(k)
  BY <1>1 DEF Init, Ordered, EntryOK
<1>5. \A c \in Calls : CallOK(c)
  BY <1>2 DEF Init, CallOK
<1> QED  BY <1>3, <1>4, <1>5 DEF IInv

(* A step of one call: it is enough to look at that call and at the entries. *)
LEMMA StepOfCall ==
    ASSUME IInv, NEW c \in Calls, NEW new, Steps(c, new), UNCHANGED generation,
           \/ UNCHANGED entry
           \/ /\ entry' \in [Keys -> Entry]
              /\ \A k \in Keys : EntryOK(k)'
           ,
           HasFields(new), new.pc \in PCs, new.key \in Keys \cup {Uncached},
           new.pc \in {"cached", "store"} => new.key \in Keys,
           new.floor \in Nat, new.gen \in Nat, new.ver \in Nat, new.objs \subseteq Objects,
           new.floor <= settled, new.gen <= generation,
           new.pc \in {"store", "filter"} => new.ver >= new.floor,
           new.pc = "store" /\ new.gen = generation => new.ver >= settled
    PROVE  IInv'
<1>1. /\ UNCHANGED <<rendered, ver, settled, writer, generation>>
      /\ call' = [call EXCEPT ![c] = new]
  BY DEF Steps, releases
<1>2. \A d \in Calls : call'[d] = call[d] \/ call'[d] = new
  BY <1>1
<1>3. Shape'
  BY <1>1, <1>2 DEF IInv, Shape
<1>4. Ordered' /\ \A k \in Keys : EntryOK(k)'
  BY <1>1 DEF IInv, Ordered, EntryOK
<1>5. \A d \in Calls : CallOK(d)'
  BY <1>1, <1>2 DEF IInv, CallOK
<1> QED  BY <1>3, <1>4, <1>5 DEF IInv

-----------------------------------------------------------------------------
(* One lemma for each step of List *)

(* What the invariant says of the call and the entry it looks at.            *)
LEMMA Here ==
    ASSUME IInv, NEW c \in Calls
    PROVE  /\ HasFields(call[c])
           /\ call[c].pc \in PCs /\ call[c].key \in Keys \cup {Uncached}
           /\ call[c].pc \in {"cached", "store"} => call[c].key \in Keys
           /\ call[c].floor \in Nat /\ call[c].gen \in Nat /\ call[c].ver \in Nat
           /\ call[c].objs \subseteq Objects
           /\ ver \in Nat /\ settled \in Nat /\ generation \in Nat
           /\ settled <= ver /\ rendered \subseteq Objects
           /\ CallOK(c)
BY DEF IInv, Shape, Ordered

(* A call that has nothing to remember.                                      *)
LEMMA Forgets ==
    ASSUME IInv, NEW c \in Calls, NEW new, Steps(c, new), UNCHANGED <<generation, entry>>,
           HasFields(new), new.pc \in {"idle", "owners"}, new.key = Uncached,
           new.floor = 0, new.gen = 0, new.ver = 0, new.objs \subseteq Objects
    PROVE  IInv'
<1>1. settled \in Nat /\ generation \in Nat
  BY Here
<1> QED  BY <1>1, StepOfCall DEF PCs

LEMMA ListObjectsI ==
    ASSUME IInv, NEW c \in Calls, ListObjects(c)
    PROVE  IInv'
<1>1. PICK key \in Keys \cup {Uncached} :
        Steps(c, [Idle EXCEPT !.pc = IF key = Uncached THEN "build" ELSE "cached",
                              !.key = key, !.floor = settled])
  BY DEF ListObjects
<1> DEFINE new == [Idle EXCEPT !.pc = IF key = Uncached THEN "build" ELSE "cached",
                               !.key = key, !.floor = settled]
<1>2. /\ new.pc \in {"build", "cached"} /\ new.key = key /\ new.floor = settled
      /\ new.gen = 0 /\ new.ver = 0 /\ new.objs = {} /\ HasFields(new)
      /\ new.pc = "cached" => key \in Keys
  BY DEF Idle, HasFields
<1>3. Steps(c, new) /\ UNCHANGED <<generation, entry>>
  BY <1>1 DEF ListObjects
<1>4. settled \in Nat /\ generation \in Nat
  BY Here
<1> HIDE DEF new
<1> QED  BY <1>2, <1>3, <1>4, StepOfCall DEF PCs

(* The entry it finds is as new as anything settled, so as its floor.        *)
LEMMA ReadCacheI ==
    ASSUME IInv, NEW c \in Calls, ReadCache(c)
    PROVE  IInv'
<1> DEFINE e == entry[call[c].key]
           hit == [call[c] EXCEPT !.pc = "filter", !.objs = e.objs, !.ver = e.ver]
           miss == [call[c] EXCEPT !.pc = "build", !.gen = generation]
<1> USE Here
<1>1. /\ call[c].pc = "cached" /\ call[c].key \in Keys
      /\ UNCHANGED <<generation, entry>>
      /\ Steps(c, IF e.here /\ e.fresh THEN hit ELSE miss)
  BY DEF ReadCache
<1>2. e \in Entry /\ (e.here => e.ver >= settled)
  BY <1>1 DEF IInv, Shape, EntryOK
<1>3. CASE e.here /\ e.fresh
  <2>1. /\ hit.pc = "filter" /\ hit.objs = e.objs /\ hit.ver = e.ver
        /\ hit.key = call[c].key /\ hit.floor = call[c].floor /\ hit.gen = call[c].gen
        /\ HasFields(hit)
    BY DEF HasFields
  <2>2. Steps(c, hit) /\ e.objs \subseteq Objects /\ e.ver \in Nat /\ e.ver >= settled
    BY <1>1, <1>2, <1>3 DEF Entry
  <2> HIDE DEF hit, e
  <2>3. hit.ver >= hit.floor
    BY <2>1, <2>2 DEF CallOK
  <2> QED  BY <1>1, <2>1, <2>2, <2>3, StepOfCall DEF CallOK, PCs
<1>4. CASE ~(e.here /\ e.fresh)
  <2>1. /\ miss.pc = "build" /\ miss.gen = generation /\ miss.objs = call[c].objs
        /\ miss.ver = call[c].ver /\ miss.key = call[c].key
        /\ miss.floor = call[c].floor /\ HasFields(miss)
    BY DEF HasFields
  <2>2. Steps(c, miss)
    BY <1>1, <1>4
  <2> HIDE DEF miss, e
  <2> QED  BY <1>1, <2>1, <2>2, StepOfCall DEF CallOK, PCs
<1> QED  BY <1>3, <1>4

(* What is built now is as new as anything settled.                          *)
LEMMA BuildInventoryI ==
    ASSUME IInv, NEW c \in Calls, BuildInventory(c)
    PROVE  IInv'
<1> DEFINE new == [call[c] EXCEPT !.pc = IF call[c].key = Uncached THEN "filter" ELSE "store",
                                  !.objs = rendered, !.ver = ver]
<1> USE Here
<1>1. Steps(c, new) /\ UNCHANGED <<generation, entry>>
  BY DEF BuildInventory
<1>2. /\ new.pc \in {"filter", "store"} /\ (new.pc = "store" => call[c].key \in Keys)
      /\ new.key = call[c].key /\ new.floor = call[c].floor /\ new.gen = call[c].gen
      /\ new.objs = rendered /\ new.ver = ver /\ HasFields(new)
  BY DEF HasFields
<1> HIDE DEF new
<1>3. new.ver >= new.floor /\ new.ver >= settled
  BY <1>2 DEF CallOK
<1> QED  BY <1>1, <1>2, <1>3, StepOfCall DEF CallOK, PCs

(* An entry is written only by a build that no invalidation has overtaken.   *)
LEMMA StoreI ==
    ASSUME IInv, NEW c \in Calls, Store(c)
    PROVE  IInv'
<1> DEFINE new == [call[c] EXCEPT !.pc = "filter", !.gen = 0]
           kept == [here |-> TRUE, fresh |-> TRUE, objs |-> call[c].objs, ver |-> call[c].ver]
<1> USE Here
<1>1. /\ Steps(c, new) /\ UNCHANGED generation /\ call[c].pc = "store"
      /\ entry' = IF call[c].gen # generation THEN entry
                  ELSE [entry EXCEPT ![call[c].key] = kept]
  BY DEF Store
<1>2. /\ new.pc = "filter" /\ new.gen = 0 /\ new.key = call[c].key
      /\ new.floor = call[c].floor /\ new.objs = call[c].objs /\ new.ver = call[c].ver
      /\ HasFields(new)
  BY DEF HasFields
<1>3. kept \in Entry /\ kept.ver = call[c].ver
  BY DEF Entry
<1>4. \/ UNCHANGED entry
      \/ entry' \in [Keys -> Entry] /\ \A k \in Keys : EntryOK(k)'
  <2>1. CASE call[c].gen # generation
    BY <1>1, <2>1
  <2>2. CASE call[c].gen = generation
    <3> HIDE DEF kept
    <3>1. entry' = [entry EXCEPT ![call[c].key] = kept] /\ entry \in [Keys -> Entry]
          /\ UNCHANGED settled
      BY <1>1, <2>2 DEF IInv, Shape, Steps, releases
    <3>2. kept.ver >= settled
      BY <1>1, <1>3, <2>2 DEF CallOK
    <3> QED  BY <1>3, <3>1, <3>2 DEF EntryOK, IInv
  <2> QED  BY <2>1, <2>2
<1> HIDE DEF new, kept
<1>5. new.ver >= new.floor
  BY <1>1, <1>2 DEF CallOK
<1> QED  BY <1>1, <1>2, <1>4, <1>5, StepOfCall DEF CallOK, PCs

LEMMA CollapseI ==
    ASSUME IInv, NEW c \in Calls, CollapseHelmOwned(c)
    PROVE  IInv'
<1>1. PICK kind, hidden, todo :
        Steps(c, [Idle EXCEPT !.pc = "owners", !.kind = kind, !.objs = call[c].objs,
                              !.hidden = hidden, !.todo = todo])
  BY DEF CollapseHelmOwned
<1> DEFINE new == [Idle EXCEPT !.pc = "owners", !.kind = kind, !.objs = call[c].objs,
                               !.hidden = hidden, !.todo = todo]
<1>2. /\ new.pc = "owners" /\ new.key = Uncached /\ new.floor = 0 /\ new.gen = 0
      /\ new.ver = 0 /\ new.objs = call[c].objs /\ HasFields(new)
  BY DEF Idle, HasFields
<1>3. Steps(c, new) /\ UNCHANGED <<generation, entry>> /\ call[c].objs \subseteq Objects
  BY <1>1, Here DEF CollapseHelmOwned
<1> HIDE DEF new
<1> QED  BY <1>2, <1>3, Forgets

(* The walks leave alone what the inventory came from.                       *)
SameSource(new, x) ==
    /\ new.pc = x.pc /\ new.kind = x.kind /\ new.key = x.key /\ new.floor = x.floor
    /\ new.gen = x.gen /\ new.ver = x.ver /\ new.objs = x.objs /\ HasFields(new)

LEMMA OwnersI ==
    ASSUME IInv, NEW c \in Calls, NextObject(c) \/ ReachesRelease(c)
    PROVE  IInv'
<1>1. HasFields(call[c])
  BY Here
<1>2. ASSUME NEW owned, NEW chain PROVE SameSource(Answered(call[c], owned, chain), call[c])
  BY <1>1 DEF SameSource, Answered, HasFields
<1>3. PICK new : Steps(c, new) /\ SameSource(new, call[c])
  <2>1. ASSUME NEW todo, NEW o
        PROVE  SameSource([call[c] EXCEPT !.todo = todo, !.at = o], call[c])
    BY <1>1 DEF SameSource, HasFields
  <2>2. ASSUME NEW at, NEW chain
        PROVE  SameSource([call[c] EXCEPT !.at = at, !.chain = chain], call[c])
    BY <1>1 DEF SameSource, HasFields
  <2>3. ASSUME NEW lost
        PROVE  SameSource([call[c] EXCEPT !.at = NoRef, !.chain = <<>>, !.lost = lost], call[c])
    BY <1>1 DEF SameSource, HasFields
  <2>4. CASE NextObject(c)
    BY <2>1, <2>4 DEF NextObject
  <2>5. CASE Recall(c) \/ MeetItself(c)
    BY <1>2, <2>5 DEF Recall, MeetItself
  <2>6. CASE LookUp(c)
    BY <1>2, <2>2, <2>6 DEF LookUp
  <2>7. CASE LookUpFails(c)
    BY <2>3, <2>7 DEF LookUpFails
  <2> QED  BY <2>4, <2>5, <2>6, <2>7 DEF ReachesRelease
<1>4. call[c].pc = "owners" /\ UNCHANGED <<generation, entry>>
  BY DEF NextObject, ReachesRelease, Recall, MeetItself, LookUp, LookUpFails, LooksUp, Walking
<1>5. /\ new.pc \in PCs /\ new.pc \notin {"cached", "store", "filter"}
      /\ new.key \in Keys \cup {Uncached} /\ new.floor \in Nat /\ new.gen \in Nat
      /\ new.ver \in Nat /\ new.objs \subseteq Objects
      /\ new.floor <= settled /\ new.gen <= generation /\ HasFields(new)
  BY <1>3, <1>4, Here DEF SameSource, CallOK, PCs
<1> QED  BY <1>3, <1>4, <1>5, StepOfCall

LEMMA ListI ==
    ASSUME IInv, NEW c \in Calls, List(c)
    PROVE  IInv'
<1>1. CASE BuildFails(c) \/ Return(c)
  <2>1. /\ Idle.pc = "idle" /\ Idle.key = Uncached /\ Idle.floor = 0 /\ Idle.gen = 0
        /\ Idle.ver = 0 /\ Idle.objs = {} /\ HasFields(Idle)
    BY DEF Idle, HasFields
  <2>2. Steps(c, Idle) /\ UNCHANGED <<generation, entry>>
    BY <1>1 DEF BuildFails, Return
  <2> QED  BY <2>1, <2>2, Forgets
<1> QED  BY <1>1, ListObjectsI, ReadCacheI, BuildInventoryI, StoreI, CollapseI, OwnersI DEF List

-----------------------------------------------------------------------------
(* Changes of the releases, and invalidation *)

LEMMA WritesI ==
    ASSUME IInv, WorkerWrites \/ CliWrites
    PROVE  IInv'
<1>1. /\ UNCHANGED <<settled, entry, generation, call>>
      /\ ver' = ver + 1 /\ writer' \in {writer, ver + 1} /\ rendered' \in Changes
  BY DEF WorkerWrites, CliWrites
<1>2. rendered' \subseteq Objects
  BY <1>1 DEF Changes, IInv, Shape
<1>3. Shape' /\ Ordered'
  BY <1>1, <1>2 DEF IInv, Shape, Ordered
<1>4. (\A k \in Keys : EntryOK(k)') /\ \A c \in Calls : CallOK(c)'
  BY <1>1 DEF IInv, EntryOK, CallOK
<1> QED  BY <1>3, <1>4 DEF IInv

(* No entry survives, and no build under way still has the generation.       *)
LEMMA InvalidateI ==
    ASSUME IInv, InvalidateInventory
    PROVE  IInv'
<1>1. /\ UNCHANGED <<rendered, ver, call>>
      /\ generation' = generation + 1 /\ settled' = writer /\ writer' = 0 /\ writer # 0
      /\ entry' = [k \in Keys |-> NoEntry]
  BY DEF InvalidateInventory
<1>2. NoEntry \in Entry /\ ~NoEntry.here
  BY DEF NoEntry, Entry
<1>3. Shape' /\ Ordered'
  BY <1>1, <1>2 DEF IInv, Shape, Ordered
<1>4. \A k \in Keys : EntryOK(k)'
  BY <1>1, <1>2 DEF EntryOK
<1>5. ASSUME NEW c \in Calls PROVE CallOK(c)'
  BY <1>1, <1>5, Here DEF IInv, Ordered, Shape, CallOK
<1> QED  BY <1>3, <1>4, <1>5 DEF IInv

LEMMA ExpiresI ==
    ASSUME IInv, NEW k \in Keys, EntryExpires(k)
    PROVE  IInv'
<1> DEFINE stale == [entry[k] EXCEPT !.fresh = FALSE]
<1>1. /\ UNCHANGED <<generation, call, rendered, ver, settled, writer>>
      /\ entry' = [entry EXCEPT ![k] = stale] /\ entry \in [Keys -> Entry]
  BY DEF EntryExpires, releases, IInv, Shape
<1>2. stale \in Entry /\ stale.here = entry[k].here /\ stale.ver = entry[k].ver
  BY <1>1 DEF Entry
<1> HIDE DEF stale
<1>3. Shape' /\ Ordered'
  BY <1>1, <1>2 DEF IInv, Shape, Ordered
<1>4. (\A j \in Keys : EntryOK(j)') /\ \A c \in Calls : CallOK(c)'
  BY <1>1, <1>2 DEF IInv, EntryOK, CallOK
<1> QED  BY <1>3, <1>4 DEF IInv

-----------------------------------------------------------------------------
(* Every step preserves the invariant; builds, entries and generations agree.*)
THEOREM Invariance == Spec => []IInv
<1>1. IInv /\ [Next]_vars => IInv'
  <2> SUFFICES ASSUME IInv, [Next]_vars PROVE IInv'
    OBVIOUS
  <2>1. CASE UNCHANGED vars
    BY <2>1 DEF vars, IInv, Shape, Ordered, EntryOK, CallOK
  <2> QED  BY <2>1, WritesI, InvalidateI, ExpiresI, ListI DEF Next
<1> QED  BY InitIInv, <1>1, PTL DEF Spec

(* A List that begins after a worker has invalidated the inventory works on  *)
(* releases at least as that worker left them, however many builds overlap,  *)
(* whichever targets share the cluster and whenever entries expire.          *)
THEOREM OwnWritesAreSeen == Spec => []OwnWritesSeen
<1>1. IInv => OwnWritesSeen
  BY DEF IInv, CallOK, OwnWritesSeen
<1> QED  BY Invariance, <1>1, PTL

-----------------------------------------------------------------------------
(* The filters *)

(* A place in the owner graph: a kind and a name in the namespace where the  *)
(* walk began, which is none only for objects that have none.                *)
Node == {x \in Kinds \X (Spaces \cup {Cluster}) \X Names :
            x[2] = Cluster => x[1] \in ClusterKinds}

ObjectAt(x) == Object(x[1], x[2], x[3])

OwnersOK == /\ owner \in [Objects -> (OwnerKinds \X Names) \cup {NoRef}]
            /\ \A o \in Objects : owner[o] \in OwnersOf(o) \cup {NoRef}

(* An object of that kind and name, in whatever namespace.                   *)
Namesake(o, objs) == \E q \in objs : q[1] = o[1] /\ q[3] = o[3]

(* Some object o's owners lead to has a namesake in a release's manifest.    *)
LedTo(o, objs) == \E p \in Above(o) : Namesake(p, objs)

NoFar(x) == \A o \in Listed(x.kind) : Owned(o, x.objs) => Near(o, x.objs)

WalkTypes(x) ==
    /\ x.objs \subseteq Objects /\ x.kind \in Kinds
    /\ x.hidden \subseteq Listed(x.kind) /\ x.todo \subseteq Listed(x.kind) \ x.objs
    /\ x.memo \in [BOOLEAN -> SUBSET Node]
    /\ x.at \in Node \cup {NoRef} /\ x.chain \in Seq(Node)
    /\ x.at = NoRef => x.chain = <<>>
    /\ x.at # NoRef => /\ Begun(x) \in Listed(x.kind)
                       /\ Len(x.chain) < MaxOwnerDepth
    /\ x.kind = NamespaceKind => (x.hidden = {} /\ x.todo = {} /\ x.at = NoRef)

(* The walk has followed the owners of the object it began at, and met no    *)
(* object of a release.                                                      *)
Followed(x, n) ==
    /\ ObjectAt(n) \in Above(Begun(x)) /\ ObjectAt(n) \notin x.objs
    /\ ObjectAt(x.at) \in Above(ObjectAt(n))
    /\ \E m \in Nodes(x.chain) \cup {x.at} : ParentOf(ObjectAt(n)) = ObjectAt(m)

WalkOK(x) ==
    x.at # NoRef =>
       /\ ObjectAt(x.at) \in Above(Begun(x)) /\ ObjectAt(x.at) \notin x.objs
       /\ \A n \in Nodes(x.chain) : Followed(x, n)
       /\ \A p \in Paths(Begun(x)) :
             /\ p[Len(x.chain)] = ObjectAt(x.at)
             /\ \A i \in 1..Len(x.chain) : p[i - 1] = ObjectAt(x.chain[i])

(* What is remembered is true, and what is hidden is above a namesake; "not  *)
(* owned" may be wrong when some chain is longer than the walks go.          *)
MemoOK(x) ==
    /\ \A n \in x.memo[TRUE] : LedTo(ObjectAt(n), x.objs)
    /\ NoFar(x) => \A n \in x.memo[FALSE] : ~Owned(ObjectAt(n), x.objs)

HiddenOK(x) == \A o \in x.hidden : LedTo(o, x.objs)

(* Whatever is not hidden, lost or yet to be walked from is not owned.       *)
KeptOK(x) ==
    NoFar(x) /\ x.kind # NamespaceKind =>
       \A o \in Listed(x.kind) \ (x.hidden \cup x.lost \cup x.todo) :
          (x.at # NoRef /\ o = Begun(x)) \/ ~Owned(o, x.objs)

FilterOK(x) == WalkTypes(x) /\ WalkOK(x) /\ MemoOK(x) /\ HiddenOK(x) /\ KeptOK(x)

FInv ==
    /\ OwnersOK
    /\ \A c \in Calls : IF call[c].pc = "owners" THEN FilterOK(call[c])
                        ELSE call[c].hidden = {}

(* Objects and places. *)
LEMMA ObjectIsNode ==
    ASSUME NEW o \in Objects
    PROVE  o \in Node /\ ObjectAt(o) = o /\ Spaces # {}
<1>1. PICK k \in Kinds, s \in Spaces, n \in Names : o = Object(k, s, n)
  BY DEF Objects
<1> QED  BY <1>1, KindsAssumption, NothingAssumption DEF Object, Node, ObjectAt

LEMMA NodeIsObject ==
    ASSUME NEW x \in Node, Spaces # {}
    PROVE  /\ ObjectAt(x) \in Objects
           /\ ObjectAt(x)[1] = x[1] /\ ObjectAt(x)[3] = x[3]
<1>1. PICK k \in Kinds, s \in Spaces \cup {Cluster}, n \in Names : x = <<k, s, n>>
  BY DEF Node
<1>2. PICK t \in Spaces : s \in Spaces => s = t
  OBVIOUS
<1>3. ObjectAt(x) = Object(k, t, n)
  BY <1>1, <1>2 DEF ObjectAt, Object, Node
<1> QED  BY <1>1, <1>3 DEF Objects, Object

(* A reference leads from a place to the place of the parent.                *)
LEMMA UpIsParent ==
    ASSUME OwnersOK, NEW x \in Node, Spaces # {}
    PROVE  /\ Up(x) = NoRef => ParentOf(ObjectAt(x)) = ObjectAt(x)
           /\ Up(x) # NoRef => /\ Up(x) \in Node
                               /\ ParentOf(ObjectAt(x)) = ObjectAt(Up(x))
<1> DEFINE o == ObjectAt(x)
<1>1. PICK k \in Kinds, s \in Spaces \cup {Cluster}, n \in Names : x = <<k, s, n>>
  BY DEF Node
<1>2. o \in Objects /\ o = <<k, IF k \in ClusterKinds THEN Cluster ELSE s, n>>
      /\ (s = Cluster => k \in ClusterKinds)
  BY <1>1, NodeIsObject DEF ObjectAt, Object, Node
<1>3. CASE owner[o] = NoRef
  BY <1>3 DEF Up, ParentOf, ObjectAt, Object
<1>4. CASE owner[o] # NoRef
  <2>1. owner[o] \in OwnersOf(o)
    BY <1>2, <1>4 DEF OwnersOK
  <2>2. PICK ok \in OwnerKinds, on \in Names :
          owner[o] = <<ok, on>> /\ (k \in ClusterKinds => ok \in ClusterKinds)
    BY <1>2, <2>1 DEF OwnersOf
  <2>3. Up(x) = <<ok, s, on>>
    BY <1>1, <1>4, <2>2 DEF Up, ObjectAt
  <2>4. Up(x) \in Node /\ Up(x) # NoRef
    BY <1>2, <2>2, <2>3, KindsAssumption, NothingAssumption DEF Node
  <2>5. ParentOf(o) = Object(ok, o[2], on)
    BY <1>4, <2>2 DEF ParentOf
  <2>6. ObjectAt(Up(x)) = Object(ok, s, on)
    BY <2>3 DEF ObjectAt
  <2> QED  BY <1>2, <2>2, <2>4, <2>5, <2>6 DEF Object
<1> QED  BY <1>3, <1>4

LEMMA ParentIsObject ==
    ASSUME OwnersOK, NEW o \in Objects
    PROVE  ParentOf(o) \in Objects
<1>1. o \in Node /\ ObjectAt(o) = o /\ Spaces # {}
  BY ObjectIsNode
<1> QED  BY <1>1, UpIsParent, NodeIsObject

(* What is above an object is closed under parents, and no more than that.   *)
LEMMA AboveFacts ==
    ASSUME OwnersOK, NEW o \in Objects
    PROVE  /\ o \in Above(o) /\ Above(o) \subseteq Objects
           /\ \A p \in Above(o) : ParentOf(p) \in Above(o) /\ Above(p) \subseteq Above(o)
           /\ \A S \in SUBSET Objects :
                 o \in S /\ (\A q \in S : ParentOf(q) \in S) => Above(o) \subseteq S
<1>1. o \in Above(o) /\ Above(o) \subseteq Objects
  BY DEF Above, Closed
<1>2. \A S \in SUBSET Objects :
         o \in S /\ (\A q \in S : ParentOf(q) \in S) => Above(o) \subseteq S
  BY DEF Above, Closed
<1>3. ASSUME NEW p \in Above(o) PROVE ParentOf(p) \in Above(o)
  BY <1>1, ParentIsObject DEF Above, Closed
<1>4. ASSUME NEW p \in Above(o) PROVE Above(p) \subseteq Above(o)
  <2>1. Closed(o) \subseteq Closed(p)
    BY DEF Above, Closed
  <2> QED  BY <2>1 DEF Above
<1> QED  BY <1>1, <1>2, <1>3, <1>4

(* A release that names an object is found at its place; one found there     *)
(* names an object of that kind and name.                                    *)
LEMMA NamedFacts ==
    ASSUME NEW objs \in SUBSET Objects, NEW x \in Node
    PROVE  /\ ObjectAt(x) \in objs => Named(objs, x)
           /\ Named(objs, x) => Namesake(ObjectAt(x), objs)
<1>1. PICK k \in Kinds, s \in Spaces \cup {Cluster}, n \in Names : x = <<k, s, n>>
  BY DEF Node
<1>2. ObjectAt(x) \in {<<k, s, n>>, <<k, Cluster, n>>}
  BY <1>1 DEF ObjectAt, Object
<1>3. ObjectAt(x) \in objs => Named(objs, x)
  BY <1>1, <1>2 DEF Named, Indexed
<1>4. ASSUME Named(objs, x) PROVE Namesake(ObjectAt(x), objs)
  <2>1. PICK y \in Indexed(objs) : y[1] = k /\ y[3] = n
    BY <1>1, <1>4 DEF Named
  <2>2. PICK q \in objs : q[1] = k /\ q[3] = n
    BY <2>1 DEF Indexed
  <2> QED  BY <1>2, <2>2 DEF Namesake
<1> QED  BY <1>3, <1>4

(* A walk begins. *)
LEMMA BeginOK ==
    ASSUME OwnersOK, NEW x, HasFields(x), FilterOK(x), x.at = NoRef, NEW o \in x.todo
    PROVE  FilterOK([x EXCEPT !.todo = @ \ {o}, !.at = o])
<1> DEFINE y == [x EXCEPT !.todo = @ \ {o}, !.at = o]
<1>1. /\ y.objs = x.objs /\ y.kind = x.kind /\ y.hidden = x.hidden /\ y.lost = x.lost
      /\ y.todo = x.todo \ {o} /\ y.memo = x.memo /\ y.at = o /\ y.chain = x.chain
  BY DEF HasFields
<1> HIDE DEF y
<1>2. /\ x.chain = <<>> /\ Len(y.chain) = 0 /\ Begun(y) = o /\ Nodes(y.chain) = {}
  BY <1>1 DEF FilterOK, WalkTypes, Begun, Nodes
<1>3. /\ o \in Listed(x.kind) /\ o \in Objects /\ o \notin x.objs
      /\ o \in Node /\ ObjectAt(o) = o /\ o # NoRef
  BY ObjectIsNode, NothingAssumption DEF FilterOK, WalkTypes, Listed, Node
<1>4. WalkTypes(y)
  BY <1>1, <1>2, <1>3, DepthAssumption DEF FilterOK, WalkTypes
<1>5. WalkOK(y)
  BY <1>1, <1>2, <1>3, AboveFacts DEF WalkOK, Paths
<1>6. MemoOK(y) /\ HiddenOK(y)
  BY <1>1 DEF FilterOK, MemoOK, HiddenOK, NoFar
<1>7. KeptOK(y)
  BY <1>1, <1>2, <1>3 DEF FilterOK, KeptOK, NoFar
<1> QED  BY <1>4, <1>5, <1>6, <1>7 DEF FilterOK, y

(* A walk ends with an answer: it is enough that the answer is true of the   *)
(* object it began at, and of the chain if that is to be "owned".            *)
LEMMA AnsweredOK ==
    ASSUME OwnersOK, NEW x, HasFields(x), FilterOK(x), x.at # NoRef,
           NEW b \in BOOLEAN, NEW chain \in Seq(Node),
           \A n \in Nodes(chain) : ObjectAt(n) \in Above(Begun(x)),
           b => /\ LedTo(Begun(x), x.objs)
                /\ \A n \in Nodes(chain) : LedTo(ObjectAt(n), x.objs),
           ~b /\ NoFar(x) => ~Owned(Begun(x), x.objs)
    PROVE  FilterOK(Answered(x, b, chain))
<1> DEFINE y == Answered(x, b, chain)
<1>1. /\ y.objs = x.objs /\ y.kind = x.kind /\ y.lost = x.lost
      /\ y.hidden = (IF b THEN x.hidden \cup {Begun(x)} ELSE x.hidden)
      /\ y.todo = x.todo /\ y.memo = [x.memo EXCEPT ![b] = @ \cup Nodes(chain)]
      /\ y.at = NoRef /\ y.chain = <<>>
  BY DEF HasFields, Answered
<1> HIDE DEF y
<1>2. /\ WalkTypes(x) /\ Begun(x) \in Listed(x.kind) /\ Begun(x) \in Objects
      /\ x.kind # NamespaceKind
  BY DEF FilterOK, WalkTypes, Listed
<1>3. Nodes(chain) \subseteq Node
  BY DEF Nodes
<1>4. /\ y.memo \in [BOOLEAN -> SUBSET Node]
      /\ y.memo[b] = x.memo[b] \cup Nodes(chain) /\ y.memo[~b] = x.memo[~b]
  BY <1>1, <1>2, <1>3 DEF WalkTypes
<1>5. WalkTypes(y) /\ WalkOK(y)
  BY <1>1, <1>2, <1>4 DEF WalkTypes, WalkOK
<1>6. MemoOK(y)
  <2>1. NoFar(y) <=> NoFar(x)
    BY <1>1 DEF NoFar
  <2>2. ASSUME ~b, NoFar(x) PROVE \A n \in Nodes(chain) : ~Owned(ObjectAt(n), x.objs)
    BY <1>2, <2>2, AboveFacts DEF Owned
  <2> QED  BY <1>1, <1>4, <2>1, <2>2 DEF FilterOK, MemoOK
<1>7. HiddenOK(y)
  BY <1>1 DEF FilterOK, HiddenOK
<1>8. KeptOK(y)
  BY <1>1, <1>2 DEF FilterOK, KeptOK, NoFar
<1> QED  BY <1>5, <1>6, <1>7, <1>8 DEF FilterOK, y

(* The lookup of a node fails. *)
LEMMA FailsOK ==
    ASSUME OwnersOK, NEW x, HasFields(x), FilterOK(x), x.at # NoRef
    PROVE  FilterOK([x EXCEPT !.at = NoRef, !.chain = <<>>, !.lost = @ \cup {Begun(x)}])
<1> DEFINE y == [x EXCEPT !.at = NoRef, !.chain = <<>>, !.lost = @ \cup {Begun(x)}]
<1>1. /\ y.objs = x.objs /\ y.kind = x.kind /\ y.hidden = x.hidden
      /\ y.lost = x.lost \cup {Begun(x)} /\ y.todo = x.todo /\ y.memo = x.memo
      /\ y.at = NoRef /\ y.chain = <<>>
  BY DEF HasFields
<1> HIDE DEF y
<1>2. WalkTypes(y) /\ WalkOK(y)
  BY <1>1 DEF FilterOK, WalkTypes, WalkOK
<1>3. MemoOK(y) /\ HiddenOK(y) /\ KeptOK(y)
  BY <1>1 DEF FilterOK, MemoOK, HiddenOK, KeptOK, NoFar
<1> QED  BY <1>2, <1>3 DEF FilterOK, y

(* What the invariant says of a walk under way. *)
LEMMA WalkFacts ==
    ASSUME OwnersOK, NEW x, FilterOK(x), x.at # NoRef
    PROVE  /\ x.objs \in SUBSET Objects /\ Spaces # {} /\ Begun(x) \in Objects
           /\ x.at \in Node /\ ObjectAt(x.at) \in Objects /\ x.chain \in Seq(Node)
           /\ \A n \in Nodes(x.chain) : n \in Node /\ ObjectAt(n) \in Objects /\ Followed(x, n)
           /\ ObjectAt(x.at) \in Above(Begun(x)) /\ ObjectAt(x.at) \notin x.objs
           /\ \E m \in Nodes(x.chain) \cup {x.at} : Begun(x) = ObjectAt(m)
<1>1. /\ x.objs \in SUBSET Objects /\ x.at \in Node /\ x.chain \in Seq(Node)
      /\ Begun(x) \in Objects
  BY DEF FilterOK, WalkTypes, Listed
<1>2. Spaces # {} /\ ObjectAt(Begun(x)) = Begun(x)
  BY <1>1, ObjectIsNode
<1>3. \A n \in Nodes(x.chain) \cup {x.at} : n \in Node /\ ObjectAt(n) \in Objects
  BY <1>1, <1>2, NodeIsObject DEF Nodes
<1>4. Begun(x) \in Nodes(x.chain) \cup {x.at}
  BY <1>1 DEF Begun, Nodes
<1>5. /\ \A n \in Nodes(x.chain) : Followed(x, n)
      /\ ObjectAt(x.at) \in Above(Begun(x)) /\ ObjectAt(x.at) \notin x.objs
  BY DEF FilterOK, WalkOK
<1> QED  BY <1>1, <1>2, <1>3, <1>4, <1>5

(* The memo answers: if "owned", that is above the whole chain; if not, the  *)
(* chain leads nowhere but there.                                            *)
LEMMA RecallOK ==
    ASSUME OwnersOK, NEW x, HasFields(x), FilterOK(x), x.at # NoRef, Known(x)
    PROVE  FilterOK(Answered(x, x.at \in x.memo[TRUE], x.chain))
<1> DEFINE b == x.at \in x.memo[TRUE]
           a == ObjectAt(x.at)
<1> USE WalkFacts
<1>1. \A n \in Nodes(x.chain) : ObjectAt(n) \in Above(Begun(x)) /\ a \in Above(ObjectAt(n))
  BY DEF Followed
<1>2. ASSUME b PROVE /\ LedTo(Begun(x), x.objs)
                     /\ \A n \in Nodes(x.chain) : LedTo(ObjectAt(n), x.objs)
  <2>1. LedTo(a, x.objs)
    BY <1>2 DEF FilterOK, MemoOK
  <2> QED  BY <2>1, <1>1, AboveFacts DEF LedTo
<1>3. ASSUME ~b, NoFar(x) PROVE ~Owned(Begun(x), x.objs)
  <2> DEFINE S == {ObjectAt(n) : n \in Nodes(x.chain)} \cup Above(a)
  <2>1. Above(a) \cap x.objs = {}
    BY <1>3 DEF FilterOK, MemoOK, Known, Owned
  <2>2. a \in Above(a) /\ Above(a) \subseteq Objects
        /\ \A q \in Above(a) : ParentOf(q) \in Above(a)
    BY AboveFacts
  <2>3. S \subseteq Objects /\ Begun(x) \in S /\ S \cap x.objs = {}
    BY <2>1, <2>2 DEF Followed
  <2>4. \A q \in S : ParentOf(q) \in S
    BY <2>2 DEF Followed
  <2> HIDE DEF S
  <2> QED  BY <2>3, <2>4, AboveFacts DEF Owned
<1> HIDE DEF b
<1>4. b \in BOOLEAN
  BY DEF b
<1> QED  BY <1>1, <1>2, <1>3, <1>4, AnsweredOK DEF b

(* A chain that is closed under parents and without an object of a release   *)
(* leads to none.                                                            *)
LEMMA ClosedChain ==
    ASSUME OwnersOK, NEW x, FilterOK(x), x.at # NoRef,
           \E m \in Nodes(x.chain) \cup {x.at} : ParentOf(ObjectAt(x.at)) = ObjectAt(m)
    PROVE  ~Owned(Begun(x), x.objs)
<1> DEFINE S == {ObjectAt(n) : n \in Nodes(x.chain) \cup {x.at}}
<1> USE WalkFacts
<1>1. S \subseteq Objects /\ Begun(x) \in S /\ S \cap x.objs = {}
  BY DEF Followed
<1>2. \A q \in S : ParentOf(q) \in S
  BY DEF Followed
<1> HIDE DEF S
<1> QED  BY <1>1, <1>2, AboveFacts DEF Owned

LEMMA MeetItselfOK ==
    ASSUME OwnersOK, NEW x, HasFields(x), FilterOK(x), x.at # NoRef,
           x.at \in Nodes(x.chain)
    PROVE  FilterOK(Answered(x, FALSE, x.chain))
<1>1. ~Owned(Begun(x), x.objs)
  BY ClosedChain, WalkFacts DEF Followed
<1> QED  BY <1>1, AnsweredOK, WalkFacts DEF Followed

(* The chain with the node that was looked up.                               *)
LEMMA SeenFacts ==
    ASSUME OwnersOK, NEW x, FilterOK(x), x.at # NoRef
    PROVE  LET seen == Append(x.chain, x.at)
           IN  /\ seen \in Seq(Node) /\ Len(seen) = Len(x.chain) + 1 /\ seen # <<>>
               /\ Nodes(seen) = Nodes(x.chain) \cup {x.at}
               /\ \A i \in 1..Len(x.chain) : seen[i] = x.chain[i]
               /\ seen[Len(seen)] = x.at /\ seen[1] = Begun(x)
               /\ \A n \in Nodes(seen) : ObjectAt(n) \in Above(Begun(x))
<1> DEFINE seen == Append(x.chain, x.at)
<1>1. x.chain \in Seq(Node) /\ x.at \in Node
  BY WalkFacts
<1>2. /\ seen \in Seq(Node) /\ Len(seen) = Len(x.chain) + 1 /\ seen # <<>>
      /\ \A i \in 1..Len(x.chain) : seen[i] = x.chain[i]
      /\ seen[Len(seen)] = x.at /\ Len(x.chain) \in Nat
  BY <1>1
<1> HIDE DEF seen
<1>3. Nodes(seen) = Nodes(x.chain) \cup {x.at}
  <2>1. \A i \in 1..Len(seen) : i \in 1..Len(x.chain) \/ i = Len(seen)
    BY <1>2
  <2>2. Nodes(seen) \subseteq Nodes(x.chain) \cup {x.at}
    BY <1>2, <2>1 DEF Nodes
  <2>3. Nodes(x.chain) \subseteq Nodes(seen)
    BY <1>2 DEF Nodes
  <2>4. Len(seen) \in 1..Len(seen)
    BY <1>2
  <2>5. x.at \in Nodes(seen)
    BY <1>2, <2>4 DEF Nodes
  <2> QED  BY <2>2, <2>3, <2>5
<1>4. seen[1] = Begun(x)
  BY <1>1, <1>2 DEF Begun
<1>5. \A n \in Nodes(seen) : ObjectAt(n) \in Above(Begun(x))
  BY <1>3, WalkFacts DEF Followed
<1> QED  BY <1>2, <1>3, <1>4, <1>5 DEF seen

(* After MaxOwnerDepth references without an object of a release, there is   *)
(* none near; and if none is far, there is none at all.                      *)
LEMMA CutOff ==
    ASSUME OwnersOK, NEW x, FilterOK(x), x.at # NoRef,
           Up(x.at) # NoRef, ~Named(x.objs, Up(x.at)), Len(x.chain) + 1 = MaxOwnerDepth
    PROVE  ~Near(Begun(x), x.objs)
<1> USE WalkFacts
<1>1. ParentOf(ObjectAt(x.at)) \notin x.objs
  BY UpIsParent, NamedFacts
<1>2. SUFFICES ASSUME NEW p \in Paths(Begun(x)), NEW i \in 0..MaxOwnerDepth
               PROVE  p[i] \notin x.objs
  BY DEF Near
<1>3. /\ p[Len(x.chain)] = ObjectAt(x.at) /\ Len(x.chain) \in Nat
      /\ \A j \in 1..Len(x.chain) : p[j - 1] = ObjectAt(x.chain[j])
  BY DEF FilterOK, WalkOK
<1>4. CASE i = MaxOwnerDepth
  <2>1. p[i] = ParentOf(p[i - 1])
    BY <1>4, DepthAssumption DEF Paths
  <2> QED  BY <1>1, <1>3, <1>4, <2>1
<1>5. CASE i = Len(x.chain)
  BY <1>3, <1>5
<1>6. CASE i < Len(x.chain)
  <2>1. i + 1 \in 1..Len(x.chain) /\ i = (i + 1) - 1
    BY <1>3, <1>6
  <2>2. p[i] = ObjectAt(x.chain[i + 1]) /\ x.chain[i + 1] \in Nodes(x.chain)
    BY <1>3, <2>1 DEF Nodes
  <2> QED  BY <2>2 DEF Followed
<1> QED  BY <1>3, <1>4, <1>5, <1>6, DepthAssumption

(* The walk goes on to the owner. *)
LEMMA GoOnOK ==
    ASSUME OwnersOK, NEW x, HasFields(x), FilterOK(x), x.at # NoRef,
           Up(x.at) # NoRef, ~Named(x.objs, Up(x.at)), Len(x.chain) + 1 # MaxOwnerDepth
    PROVE  FilterOK([x EXCEPT !.at = Up(x.at), !.chain = Append(x.chain, x.at)])
<1> DEFINE y == [x EXCEPT !.at = Up(x.at), !.chain = Append(x.chain, x.at)]
           seen == Append(x.chain, x.at)
           a == ObjectAt(x.at)
<1> USE WalkFacts
<1>1. /\ y.objs = x.objs /\ y.kind = x.kind /\ y.hidden = x.hidden /\ y.lost = x.lost
      /\ y.todo = x.todo /\ y.memo = x.memo /\ y.at = Up(x.at) /\ y.chain = seen
  BY DEF HasFields
<1>2. /\ seen \in Seq(Node) /\ Len(seen) = Len(x.chain) + 1 /\ seen # <<>>
      /\ Nodes(seen) = Nodes(x.chain) \cup {x.at}
      /\ \A i \in 1..Len(x.chain) : seen[i] = x.chain[i]
      /\ seen[Len(seen)] = x.at /\ seen[1] = Begun(x)
  BY SeenFacts
<1>3. Len(x.chain) \in Nat /\ Len(x.chain) < MaxOwnerDepth
  BY DEF FilterOK, WalkTypes
<1> HIDE DEF y, seen
<1>4. Begun(y) = Begun(x)
  BY <1>1, <1>2 DEF Begun
<1>5. /\ Up(x.at) \in Node /\ ObjectAt(Up(x.at)) = ParentOf(a)
      /\ ParentOf(a) \notin x.objs
  BY UpIsParent, NamedFacts
<1>6. WalkTypes(y)
  BY <1>1, <1>2, <1>3, <1>4, <1>5, DepthAssumption, NothingAssumption DEF FilterOK, WalkTypes
<1>7. WalkOK(y)
  <2>1. ParentOf(a) \in Above(a) /\ ParentOf(a) \in Above(Begun(x)) /\ a \in Above(a)
    BY AboveFacts
  <2>2. ASSUME NEW n \in Nodes(seen) PROVE Followed(y, n)
    <3>1. CASE n = x.at
      BY <1>1, <1>4, <1>5, <2>1, <3>1 DEF Followed
    <3>2. CASE n \in Nodes(x.chain)
      <4>1. Followed(x, n) /\ ObjectAt(n) \in Objects
        BY <3>2
      <4>2. ParentOf(a) \in Above(ObjectAt(n))
        BY <4>1, AboveFacts DEF Followed
      <4> QED  BY <1>1, <1>2, <1>4, <1>5, <4>1, <4>2 DEF Followed
    <3> QED  BY <1>2, <2>2, <3>1, <3>2
  <2>3. ASSUME NEW p \in Paths(Begun(x))
        PROVE  /\ p[Len(seen)] = ObjectAt(Up(x.at))
               /\ \A i \in 1..Len(seen) : p[i - 1] = ObjectAt(seen[i])
    <3>1. /\ p[Len(x.chain)] = a
          /\ \A i \in 1..Len(x.chain) : p[i - 1] = ObjectAt(x.chain[i])
      BY DEF FilterOK, WalkOK
    <3>2. Len(seen) \in 1..MaxOwnerDepth
      BY <1>2, <1>3, DepthAssumption
    <3>3. p[Len(seen)] = ParentOf(p[Len(seen) - 1])
      BY <3>2 DEF Paths
    <3>4. Len(seen) - 1 = Len(x.chain)
      BY <1>2, <1>3
    <3>5. \A i \in 1..Len(seen) : i \in 1..Len(x.chain) \/ i = Len(seen)
      BY <1>2, <1>3
    <3> QED  BY <1>2, <1>5, <3>1, <3>3, <3>4, <3>5
  <2> QED  BY <1>1, <1>4, <1>5, <2>1, <2>2, <2>3 DEF WalkOK
<1>8. MemoOK(y) /\ HiddenOK(y)
  BY <1>1 DEF FilterOK, MemoOK, HiddenOK, NoFar
<1>9. KeptOK(y)
  BY <1>1, <1>4, <1>5, NothingAssumption DEF FilterOK, KeptOK, NoFar, Node
<1> QED  BY <1>6, <1>7, <1>8, <1>9 DEF FilterOK, y, seen

LEMMA LookUpOK ==
    ASSUME OwnersOK, NEW x, HasFields(x), FilterOK(x), x.at # NoRef
    PROVE  LET above == Up(x.at)
               seen == Append(x.chain, x.at)
           IN  FilterOK(IF above = NoRef THEN Answered(x, FALSE, seen)
                        ELSE IF Named(x.objs, above) THEN Answered(x, TRUE, seen)
                        ELSE IF Len(seen) = MaxOwnerDepth THEN Answered(x, FALSE, seen)
                        ELSE [x EXCEPT !.at = above, !.chain = seen])
<1> DEFINE above == Up(x.at)
           seen == Append(x.chain, x.at)
           a == ObjectAt(x.at)
<1> USE WalkFacts
<1>1. /\ seen \in Seq(Node) /\ Len(seen) = Len(x.chain) + 1
      /\ Nodes(seen) = Nodes(x.chain) \cup {x.at}
      /\ \A n \in Nodes(seen) : ObjectAt(n) \in Above(Begun(x))
  BY SeenFacts
<1> HIDE DEF seen
<1>2. CASE above = NoRef
  <2>1. ~Owned(Begun(x), x.objs)
    BY <1>2, UpIsParent, ClosedChain
  <2> QED  BY <1>1, <1>2, <2>1, AnsweredOK DEF seen
<1>3. CASE above # NoRef /\ Named(x.objs, above)
  <2>1. above \in Node /\ ObjectAt(above) = ParentOf(a) /\ Namesake(ParentOf(a), x.objs)
    BY <1>3, UpIsParent, NamedFacts
  <2>2. ParentOf(a) \in Above(a) /\ ParentOf(a) \in Above(Begun(x))
    BY AboveFacts
  <2>3. LedTo(Begun(x), x.objs) /\ LedTo(a, x.objs)
    BY <2>1, <2>2 DEF LedTo
  <2>4. ASSUME NEW n \in Nodes(x.chain) PROVE LedTo(ObjectAt(n), x.objs)
    BY <2>1, <2>2, AboveFacts DEF LedTo, Followed
  <2> QED  BY <1>1, <1>3, <2>3, <2>4, AnsweredOK DEF seen
<1>4. CASE above # NoRef /\ ~Named(x.objs, above) /\ Len(seen) = MaxOwnerDepth
  <2>1. ~Near(Begun(x), x.objs)
    BY <1>1, <1>4, CutOff
  <2>2. NoFar(x) => ~Owned(Begun(x), x.objs)
    BY <2>1 DEF NoFar, FilterOK, WalkTypes
  <2> QED  BY <1>1, <1>4, <2>2, AnsweredOK DEF seen
<1>5. CASE above # NoRef /\ ~Named(x.objs, above) /\ Len(seen) # MaxOwnerDepth
  BY <1>1, <1>5, GoOnOK DEF seen
<1> QED  BY <1>2, <1>3, <1>4, <1>5

-----------------------------------------------------------------------------
(* Owner references do not change, so what is said of a call stays true of   *)
(* its record.                                                               *)
LEMMA SameGraph ==
    ASSUME UNCHANGED owner, NEW x
    PROVE  FilterOK(x)' <=> FilterOK(x)
<1>1. \A o : ParentOf(o)' = ParentOf(o)
  BY DEF ParentOf
<1>2. \A o : Above(o)' = Above(o) /\ Paths(o)' = Paths(o)
  BY <1>1 DEF Above, Closed, Paths
<1>3. \A o, objs : /\ Owned(o, objs)' <=> Owned(o, objs)
                   /\ Near(o, objs)' <=> Near(o, objs)
                   /\ LedTo(o, objs)' <=> LedTo(o, objs)
  BY <1>2 DEF Owned, Near, LedTo
<1>4. NoFar(x)' <=> NoFar(x)
  BY <1>3 DEF NoFar
<1>5. WalkTypes(x)' <=> WalkTypes(x)
  BY DEF WalkTypes
<1>6. WalkOK(x)' <=> WalkOK(x)
  BY <1>1, <1>2 DEF WalkOK, Followed
<1>7. (MemoOK(x)' <=> MemoOK(x)) /\ (HiddenOK(x)' <=> HiddenOK(x))
  BY <1>3, <1>4 DEF MemoOK, HiddenOK
<1>8. KeptOK(x)' <=> KeptOK(x)
  BY <1>3, <1>4 DEF KeptOK
<1> QED  BY <1>5, <1>6, <1>7, <1>8 DEF FilterOK

CallFiltered(x) == IF x.pc = "owners" THEN FilterOK(x) ELSE x.hidden = {}

LEMMA FilterStep ==
    ASSUME FInv, UNCHANGED owner,
           \A c \in Calls : call'[c] = call[c] \/ CallFiltered(call'[c])
    PROVE  FInv'
<1>1. OwnersOK'
  BY DEF FInv, OwnersOK
<1>2. ASSUME NEW c \in Calls PROVE CallFiltered(call'[c])
  BY DEF FInv, CallFiltered
<1>3. ASSUME NEW c \in Calls
      PROVE  (IF call[c].pc = "owners" THEN FilterOK(call[c]) ELSE call[c].hidden = {})'
  <2> DEFINE x == call'[c]
  <2>1. CASE x.pc = "owners"
    <3>1. FilterOK(x)
      BY <1>2, <2>1 DEF CallFiltered
    <3> QED  BY <2>1, <3>1, SameGraph
  <2>2. CASE x.pc # "owners"
    BY <1>2, <2>2 DEF CallFiltered
  <2> QED  BY <2>1, <2>2
<1> QED  BY <1>1, <1>3 DEF FInv

(* A call whose walks have not begun hides nothing.                          *)
LEMMA CollapseF ==
    ASSUME IInv, FInv, NEW c \in Calls, CollapseHelmOwned(c)
    PROVE  FInv'
<1>1. PICK kind \in ListedKinds :
        LET direct == FilterHelmOwned(kind, call[c].objs)
        IN  Steps(c, [Idle EXCEPT !.pc = "owners", !.kind = kind, !.objs = call[c].objs,
                         !.hidden = direct,
                         !.todo = IF call[c].objs = {} \/ kind = NamespaceKind THEN {}
                                  ELSE Listed(kind) \ direct])
  BY DEF CollapseHelmOwned
<1> DEFINE objs == call[c].objs
           direct == FilterHelmOwned(kind, objs)
           y == [Idle EXCEPT !.pc = "owners", !.kind = kind, !.objs = objs,
                    !.hidden = direct,
                    !.todo = IF objs = {} \/ kind = NamespaceKind THEN {}
                             ELSE Listed(kind) \ direct]
<1>2. /\ y.pc = "owners" /\ y.kind = kind /\ y.objs = objs /\ y.hidden = direct
      /\ y.todo = (IF objs = {} \/ kind = NamespaceKind THEN {} ELSE Listed(kind) \ direct)
      /\ y.lost = {} /\ y.memo = [owned \in BOOLEAN |-> {}] /\ y.at = NoRef /\ y.chain = <<>>
  BY DEF Idle
<1>3. Steps(c, y) /\ objs \subseteq Objects /\ OwnersOK /\ kind \in Kinds
  BY <1>1, Here, KindsAssumption DEF FInv
<1> HIDE DEF y
<1>4. direct \subseteq Listed(kind) /\ (kind = NamespaceKind => direct = {})
      /\ (kind # NamespaceKind => direct = Listed(kind) \cap Indexed(objs))
  BY DEF FilterHelmOwned
<1>5. WalkTypes(y) /\ WalkOK(y)
  <2>1. objs \subseteq Indexed(objs)
    BY DEF Indexed
  <2> QED  BY <1>2, <1>3, <1>4, <2>1 DEF WalkTypes, WalkOK
<1>6. MemoOK(y)
  BY <1>2 DEF MemoOK
<1>7. ASSUME NEW o \in direct PROVE LedTo(o, objs)
  <2>1. o \in Objects /\ o \in Indexed(objs)
    BY <1>4, <1>7 DEF Listed
  <2>2. Namesake(o, objs)
    BY <2>1 DEF Indexed, Namesake
  <2> QED  BY <1>3, <2>1, <2>2, AboveFacts DEF LedTo
<1>8. HiddenOK(y)
  BY <1>2, <1>7 DEF HiddenOK
<1>9. KeptOK(y)
  BY <1>2, <1>4 DEF KeptOK, Owned
<1>10. CallFiltered(y)
  BY <1>2, <1>5, <1>6, <1>8, <1>9 DEF FilterOK, CallFiltered
<1>11. UNCHANGED owner /\ \A d \in Calls : call'[d] = call[d] \/ call'[d] = y
  BY <1>3 DEF Steps
<1> QED  BY <1>10, <1>11, FilterStep

LEMMA WalksF ==
    ASSUME IInv, FInv, NEW c \in Calls, NextObject(c) \/ ReachesRelease(c)
    PROVE  FInv'
<1>1. /\ call[c].pc = "owners" /\ HasFields(call[c]) /\ FilterOK(call[c]) /\ OwnersOK
  BY Here DEF NextObject, ReachesRelease, Recall, MeetItself, LookUp, LookUpFails, LooksUp,
              Walking, FInv
<1>2. \A y : SameSource(y, call[c]) /\ FilterOK(y) => CallFiltered(y)
  BY <1>1 DEF SameSource, CallFiltered
<1>3. ASSUME NEW y, Steps(c, y), y.pc = "owners", FilterOK(y) PROVE FInv'
  <2>1. UNCHANGED owner /\ \A d \in Calls : call'[d] = call[d] \/ call'[d] = y
    BY <1>3 DEF Steps
  <2> QED  BY <1>3, <2>1, FilterStep DEF CallFiltered
<1>4. ASSUME NEW owned, NEW chain PROVE Answered(call[c], owned, chain).pc = "owners"
  BY <1>1 DEF Answered, HasFields
<1>5. CASE NextObject(c)
  <2>1. PICK o \in call[c].todo : Steps(c, [call[c] EXCEPT !.todo = @ \ {o}, !.at = o])
    BY <1>5 DEF NextObject
  <2>2. FilterOK([call[c] EXCEPT !.todo = @ \ {o}, !.at = o])
    BY <1>1, <1>5, BeginOK DEF NextObject
  <2>3. [call[c] EXCEPT !.todo = @ \ {o}, !.at = o].pc = "owners"
    BY <1>1 DEF HasFields
  <2> QED  BY <1>3, <2>1, <2>2, <2>3
<1>6. CASE Recall(c)
  BY <1>1, <1>3, <1>4, <1>6, RecallOK DEF Recall, Walking
<1>7. CASE MeetItself(c)
  BY <1>1, <1>3, <1>4, <1>7, MeetItselfOK DEF MeetItself, Walking
<1>8. CASE LookUp(c)
  <2> DEFINE x == call[c]
             seen == Append(x.chain, x.at)
             y == IF Up(x.at) = NoRef THEN Answered(x, FALSE, seen)
                  ELSE IF Named(x.objs, Up(x.at)) THEN Answered(x, TRUE, seen)
                  ELSE IF Len(seen) = MaxOwnerDepth THEN Answered(x, FALSE, seen)
                  ELSE [x EXCEPT !.at = Up(x.at), !.chain = seen]
  <2>1. Steps(c, y) /\ x.at # NoRef
    BY <1>8 DEF LookUp, LooksUp, Walking
  <2>2. FilterOK(y)
    BY <1>1, <2>1, LookUpOK
  <2>3. y.pc = "owners"
    <3>1. [x EXCEPT !.at = Up(x.at), !.chain = seen].pc = "owners"
      BY <1>1 DEF HasFields
    <3> QED  BY <1>4, <3>1
  <2> HIDE DEF y
  <2> QED  BY <1>3, <2>1, <2>2, <2>3
<1>9. CASE LookUpFails(c)
  <2> DEFINE y == [call[c] EXCEPT !.at = NoRef, !.chain = <<>>, !.lost = @ \cup {Begun(call[c])}]
  <2>1. Steps(c, y) /\ call[c].at # NoRef
    BY <1>9 DEF LookUpFails, LooksUp, Walking
  <2>2. FilterOK(y)
    BY <1>1, <2>1, FailsOK
  <2>3. y.pc = "owners"
    BY <1>1 DEF HasFields
  <2> QED  BY <1>3, <2>1, <2>2, <2>3
<1> QED  BY <1>5, <1>6, <1>7, <1>8, <1>9 DEF ReachesRelease

(* The steps that come before the walks, and the last one.                   *)
LEMMA OthersF ==
    ASSUME IInv, FInv, NEW c \in Calls,
           \/ ListObjects(c) \/ ReadCache(c) \/ BuildInventory(c) \/ BuildFails(c)
           \/ Store(c) \/ Return(c)
    PROVE  FInv'
<1>1. ASSUME NEW y, Steps(c, y), y.pc # "owners", y.hidden = {} PROVE FInv'
  <2>1. UNCHANGED owner /\ \A d \in Calls : call'[d] = call[d] \/ call'[d] = y
    BY <1>1 DEF Steps
  <2> QED  BY <1>1, <2>1, FilterStep DEF CallFiltered
<1> DEFINE x == call[c]
<1>2. HasFields(x) /\ (x.pc # "owners" => x.hidden = {})
  BY Here DEF FInv
<1>3. CASE ListObjects(c)
  <2>1. PICK key : Steps(c, [Idle EXCEPT !.pc = IF key = Uncached THEN "build" ELSE "cached",
                                         !.key = key, !.floor = settled])
    BY <1>3 DEF ListObjects
  <2> QED  BY <1>1, <2>1 DEF Idle
<1>4. CASE BuildFails(c) \/ Return(c)
  BY <1>1, <1>4 DEF BuildFails, Return, Idle
<1>5. CASE ReadCache(c)
  <2> DEFINE e == entry[x.key]
             hit == [x EXCEPT !.pc = "filter", !.objs = e.objs, !.ver = e.ver]
             miss == [x EXCEPT !.pc = "build", !.gen = generation]
  <2>1. Steps(c, hit) \/ Steps(c, miss)
    BY <1>5 DEF ReadCache
  <2>2. /\ hit.pc = "filter" /\ hit.hidden = x.hidden
        /\ miss.pc = "build" /\ miss.hidden = x.hidden
    BY <1>2 DEF HasFields
  <2> HIDE DEF hit, miss
  <2> QED  BY <1>1, <1>2, <1>5, <2>1, <2>2 DEF ReadCache
<1>6. CASE BuildInventory(c)
  <2> DEFINE y == [x EXCEPT !.pc = IF x.key = Uncached THEN "filter" ELSE "store",
                            !.objs = rendered, !.ver = ver]
  <2>1. Steps(c, y) /\ x.pc = "build"
    BY <1>6 DEF BuildInventory
  <2>2. y.pc # "owners" /\ y.hidden = x.hidden
    BY <1>2 DEF HasFields
  <2> HIDE DEF y
  <2> QED  BY <1>1, <1>2, <2>1, <2>2
<1>7. CASE Store(c)
  <2> DEFINE y == [x EXCEPT !.pc = "filter", !.gen = 0]
  <2>1. Steps(c, y) /\ x.pc = "store"
    BY <1>7 DEF Store
  <2>2. y.pc # "owners" /\ y.hidden = x.hidden
    BY <1>2 DEF HasFields
  <2> HIDE DEF y
  <2> QED  BY <1>1, <1>2, <2>1, <2>2
<1> QED  BY <1>3, <1>4, <1>5, <1>6, <1>7

(* Every step of every call keeps the walks and the memo true.               *)
THEOREM FiltersHold == Spec => []FInv
<1>1. Init => FInv
  BY DEF Init, FInv, OwnersOK, Idle
<1>2. IInv /\ FInv /\ [Next]_vars => FInv'
  <2> SUFFICES ASSUME IInv, FInv, [Next]_vars PROVE FInv'
    OBVIOUS
  <2>1. CASE UNCHANGED vars
    BY <2>1, FilterStep DEF vars
  <2>2. CASE WorkerWrites \/ InvalidateInventory \/ CliWrites \/ \E k \in Keys : EntryExpires(k)
    BY <2>2, FilterStep DEF WorkerWrites, InvalidateInventory, CliWrites, EntryExpires
  <2> QED  BY <2>1, <2>2, CollapseF, WalksF, OthersF DEF Next, List
<1> QED  BY Invariance, <1>1, <1>2, PTL DEF Spec

(* What List hides is led by its owners to an object of the kind and name of *)
(* one that a release's manifest has, and is no Namespace: in any number of  *)
(* namespaces, for any owner references, however walks are cut off, in       *)
(* whatever order the objects come and whichever lookups fail.               *)
HiddenHasNamesake ==
    \A c \in Calls : \A o \in call[c].hidden :
        o[1] # NamespaceKind /\ LedTo(o, call[c].objs)

LEMMA FInvHidden == FInv => HiddenHasNamesake
<1> SUFFICES ASSUME FInv, NEW c \in Calls, NEW o \in call[c].hidden
             PROVE  o[1] # NamespaceKind /\ LedTo(o, call[c].objs)
  BY DEF HiddenHasNamesake
<1>1. FilterOK(call[c])
  BY DEF FInv
<1> QED  BY <1>1 DEF FilterOK, WalkTypes, HiddenOK, Listed

THEOREM HiddenHaveNamesakes == Spec => []HiddenHasNamesake
BY FiltersHold, FInvHidden, PTL

(* With one namespace the namesake is the object of the release itself: what *)
(* List hides is in a manifest, or some object its owners lead to is.  (With *)
(* several the code takes an owner for the one in another namespace.)        *)
THEOREM HiddenAreOwned ==
    ASSUME \A s, t \in Spaces : s = t
    PROVE  Spec => []HiddenIsOwned
<1>1. FInv => HiddenIsOwned
  <2> SUFFICES ASSUME FInv, NEW c \in Calls, NEW o \in call[c].hidden
               PROVE  o[1] # NamespaceKind /\ Owned(o, call[c].objs)
    BY DEF HiddenIsOwned
  <2>1. o[1] # NamespaceKind /\ LedTo(o, call[c].objs)
    BY FInvHidden DEF HiddenHasNamesake
  <2>2. FilterOK(call[c]) /\ OwnersOK
    BY DEF FInv
  <2>3. o \in Objects /\ call[c].objs \subseteq Objects
    BY <2>2 DEF FilterOK, WalkTypes, Listed
  <2>4. PICK p \in Above(o), q \in call[c].objs : q[1] = p[1] /\ q[3] = p[3]
    BY <2>1 DEF LedTo, Namesake
  <2>5. p \in Objects /\ q \in Objects
    BY <2>2, <2>3, AboveFacts
  <2>6. p = q
    <3>1. PICK k \in Kinds, s \in Spaces, n \in Names : p = Object(k, s, n)
      BY <2>5 DEF Objects
    <3>2. PICK l \in Kinds, t \in Spaces, m \in Names : q = Object(l, t, m)
      BY <2>5 DEF Objects
    <3>3. k = l /\ n = m /\ s = t
      BY <2>4, <3>1, <3>2 DEF Object
    <3> QED  BY <3>1, <3>2, <3>3
  <2> QED  BY <2>1, <2>4, <2>6 DEF Owned
<1> QED  BY FiltersHold, <1>1, PTL

(* In any number of namespaces, when no listed object has its only object of *)
(* a release further up than MaxOwnerDepth references, every object with one *)
(* above it is hidden once the walks are over, unless its own lookup failed. *)
THEOREM OwnedAreHidden == Spec => []OwnedIsHidden
<1>1. FInv => OwnedIsHidden
  <2> SUFFICES ASSUME FInv, NEW c \in Calls, Filtered(c), call[c].kind # NamespaceKind,
                      NoneFar(c), NEW o \in Listed(call[c].kind) \ call[c].lost,
                      Owned(o, call[c].objs)
               PROVE  o \in call[c].hidden
    BY DEF OwnedIsHidden
  <2>1. FilterOK(call[c]) /\ NoFar(call[c])
    BY DEF FInv, Filtered, NoneFar, NoFar
  <2> QED  BY <2>1 DEF FilterOK, KeptOK, Filtered
<1> QED  BY FiltersHold, <1>1, PTL
=============================================================================
