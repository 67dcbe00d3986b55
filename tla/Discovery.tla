------------------------------ MODULE Discovery ------------------------------
(***************************************************************************)
(* Discovery beside Helm: List of k8s.go collapses the objects of Helm     *)
(* releases.  An inventory of what the releases render is cached           *)
(* (pkg/resources/helm/inventory.go), filled outside its lock and fenced   *)
(* by a generation; objects it names are hidden, and so are the objects    *)
(* whose owner references lead to one it names (owners.go).                *)
(*                                                                         *)
(* Every region under invMu is one action, and so is every lookup of owner *)
(* references.  These do not change while objects are listed; any lookup   *)
(* may fail.                                                               *)
(***************************************************************************)
EXTENDS Naturals, Sequences

CONSTANTS
    Kinds, ClusterKinds,  \* resource kinds; those without a namespace
    NamespaceKind,        \* the kind of namespaces
    OwnerKinds,           \* kinds that may own objects
    ListedKinds,          \* kinds that are discovered
    Spaces, Cluster,      \* namespaces; the empty one
    Names,
    NoRef,                \* no owner reference
    Calls,                \* List calls
    Keys,                 \* cache keys of the targets that name the cluster
    Uncached,             \* the key of a call whose inventory may not be kept
    MaxOwnerDepth,
    MaxWrites             \* bound on the changes of the releases

ASSUME KindsAssumption ==
    /\ ClusterKinds \subseteq Kinds /\ NamespaceKind \in ClusterKinds
    /\ OwnerKinds \subseteq Kinds \ {NamespaceKind} /\ ListedKinds \subseteq Kinds
ASSUME NothingAssumption ==
    /\ NoRef \notin Kinds \X Names /\ NoRef \notin Kinds \X (Spaces \cup {Cluster}) \X Names
    /\ Cluster \notin Spaces /\ Uncached \notin Keys
ASSUME DepthAssumption == MaxOwnerDepth \in Nat \ {0}

VARIABLES
    owner,       \* the first owner reference of each object
    rendered,    \* the objects that the manifests of all releases name
    ver,         \* history: the number of changes of the releases
    settled,     \* history: the last change followed by an invalidation
    writer,      \* the change a worker made and did not yet invalidate, or 0
    entry,       \* invCache
    generation,  \* invGeneration
    call         \* the List calls

vars == <<owner, rendered, ver, settled, writer, entry, generation, call>>
releases == <<rendered, ver, settled, writer>>

-----------------------------------------------------------------------------
Object(k, s, n) == <<k, IF k \in ClusterKinds THEN Cluster ELSE s, n>>

Objects == {Object(k, s, n) : k \in Kinds, s \in Spaces, n \in Names}

(* An owner is in the namespace of the object or in none.                    *)
OwnersOf(o) == CASE o[1] = NamespaceKind -> {}
                 [] o[1] \in ClusterKinds -> (ClusterKinds \cap OwnerKinds) \X Names
                 [] OTHER -> OwnerKinds \X Names

(* inv.byKind: objects are indexed in their namespace and in the empty one.  *)
Indexed(objs) == objs \cup {<<o[1], Cluster, o[3]>> : o \in objs}

NoEntry == [here |-> FALSE, fresh |-> FALSE, objs |-> {}, ver |-> 0]

Idle == [pc |-> "idle", kind |-> NamespaceKind, key |-> Uncached, floor |-> 0, gen |-> 0,
         objs |-> {}, ver |-> 0, hidden |-> {}, lost |-> {},
         todo |-> {}, memo |-> [owned \in BOOLEAN |-> {}], at |-> NoRef, chain |-> <<>>]

Init ==
    /\ owner \in [Objects -> (OwnerKinds \X Names) \cup {NoRef}]
    /\ \A o \in Objects : owner[o] \in OwnersOf(o) \cup {NoRef}
    /\ rendered = {} /\ ver = 0 /\ settled = 0 /\ writer = 0
    /\ entry = [k \in Keys |-> NoEntry]
    /\ generation = 0
    /\ call = [c \in Calls |-> Idle]

-----------------------------------------------------------------------------
(* The releases *)

Changes == {rendered \cup {o} : o \in Objects} \cup {rendered \ {o} : o \in Objects}

(* A worker of the plugin runs its Helm operation.                           *)
WorkerWrites ==
    /\ writer = 0 /\ ver < MaxWrites
    /\ rendered' \in Changes
    /\ ver' = ver + 1 /\ writer' = ver + 1
    /\ UNCHANGED <<owner, settled, entry, generation, call>>

InvalidateInventory ==
    /\ writer # 0
    /\ generation' = generation + 1
    /\ entry' = [k \in Keys |-> NoEntry]
    /\ settled' = writer /\ writer' = 0
    /\ UNCHANGED <<owner, rendered, ver, call>>

(* Somebody runs the Helm CLI.                                               *)
CliWrites ==
    /\ ver < MaxWrites
    /\ rendered' \in Changes
    /\ ver' = ver + 1
    /\ UNCHANGED <<owner, settled, writer, entry, generation, call>>

(* inventoryTTL passes.                                                      *)
EntryExpires(k) ==
    /\ entry[k].here /\ entry[k].fresh
    /\ entry' = [entry EXCEPT ![k].fresh = FALSE]
    /\ UNCHANGED <<owner, generation, call>> /\ UNCHANGED releases

-----------------------------------------------------------------------------
(* List and cachedInventory *)

Steps(c, new) ==
    /\ call' = [call EXCEPT ![c] = new]
    /\ UNCHANGED owner /\ UNCHANGED releases

(* The provisioner has listed objects; of which kind matters to the filters. *)
ListObjects(c) ==
    /\ call[c].pc = "idle"
    /\ \E key \in Keys \cup {Uncached} :
          Steps(c, [Idle EXCEPT !.pc = IF key = Uncached THEN "build" ELSE "cached",
                                !.key = key, !.floor = settled])
    /\ UNCHANGED <<entry, generation>>

ReadCache(c) ==
    /\ call[c].pc = "cached"
    /\ LET e == entry[call[c].key]
       IN  Steps(c, IF e.here /\ e.fresh
                    THEN [call[c] EXCEPT !.pc = "filter", !.objs = e.objs, !.ver = e.ver]
                    ELSE [call[c] EXCEPT !.pc = "build", !.gen = generation])
    /\ UNCHANGED <<entry, generation>>

(* All releases are read, pending and failed ones too.                       *)
BuildInventory(c) ==
    /\ call[c].pc = "build"
    /\ Steps(c, [call[c] EXCEPT !.pc = IF call[c].key = Uncached THEN "filter" ELSE "store",
                                !.objs = rendered, !.ver = ver])
    /\ UNCHANGED <<entry, generation>>

(* Helm is out of reach: the list is returned as it is.                      *)
BuildFails(c) ==
    /\ call[c].pc = "build"
    /\ Steps(c, Idle)
    /\ UNCHANGED <<entry, generation>>

(* Mutation: a build overtaken by an invalidation is kept. *)
MutStore(c) ==
    /\ call[c].pc = "store"
    /\ Steps(c, [call[c] EXCEPT !.pc = "filter", !.gen = 0])
    /\ entry' = [entry EXCEPT ![call[c].key] =
                    [here |-> TRUE, fresh |-> TRUE, objs |-> call[c].objs, ver |-> call[c].ver]]
    /\ UNCHANGED generation

Store(c) ==
    /\ call[c].pc = "store"
    /\ Steps(c, [call[c] EXCEPT !.pc = "filter", !.gen = 0])
    /\ entry' = IF call[c].gen # generation THEN entry
                ELSE [entry EXCEPT ![call[c].key] =
                        [here |-> TRUE, fresh |-> TRUE, objs |-> call[c].objs, ver |-> call[c].ver]]
    /\ UNCHANGED generation

-----------------------------------------------------------------------------
(* FilterHelmOwned and FilterControllerOwned *)

(* The node one reference above x; every node keeps the namespace of the     *)
(* object the walk began at, also where the owner has none.                  *)
Up(x) == LET ref == owner[Object(x[1], x[2], x[3])]
         IN  IF ref = NoRef THEN NoRef ELSE <<ref[1], x[2], ref[2]>>

Named(objs, x) == {x, <<x[1], Cluster, x[3]>>} \cap Indexed(objs) # {}

Listed(kind) == {o \in Objects : o[1] = kind}

(* A Namespace is a parent of what is discovered and never hidden.           *)
FilterHelmOwned(kind, objs) ==
    IF kind = NamespaceKind THEN {} ELSE Listed(kind) \cap Indexed(objs)

(* What the manifests name is hidden at once; from the others, if there are  *)
(* releases at all, the walks begin.                                         *)
CollapseHelmOwned(c) ==
    /\ call[c].pc = "filter"
    /\ \E kind \in ListedKinds :
          LET direct == FilterHelmOwned(kind, call[c].objs)
          IN  Steps(c, [Idle EXCEPT !.pc = "owners", !.kind = kind, !.objs = call[c].objs,
                           !.hidden = direct,
                           !.todo = IF call[c].objs = {} \/ kind = NamespaceKind THEN {}
                                    ELSE Listed(kind) \ direct])
    /\ UNCHANGED <<entry, generation>>

Walking(c) == call[c].pc = "owners" /\ call[c].at # NoRef

(* FilterControllerOwned takes the next object, in whatever order they came. *)
NextObject(c) ==
    /\ call[c].pc = "owners" /\ call[c].at = NoRef
    /\ \E o \in call[c].todo :
          Steps(c, [call[c] EXCEPT !.todo = @ \ {o}, !.at = o])
    /\ UNCHANGED <<entry, generation>>

(* The nodes of this walk that were looked up, and the object it began at.   *)
Nodes(chain) == {chain[i] : i \in 1..Len(chain)}
Begun(x) == IF x.chain = <<>> THEN x.at ELSE x.chain[1]

(* remember: the walk is over, and its answer holds for all of the chain.    *)
Answered(x, owned, chain) ==
    [x EXCEPT !.at = NoRef, !.chain = <<>>,
              !.memo[owned] = @ \cup Nodes(chain),
              !.hidden = IF owned THEN @ \cup {Begun(x)} ELSE @]

Known(x) == x.at \in x.memo[TRUE] \cup x.memo[FALSE]

(* Mutation: that the memo has an answer is taken for the answer "owned". *)
MutRecall(c) ==
    /\ Walking(c) /\ Known(call[c])
    /\ Steps(c, Answered(call[c], TRUE, call[c].chain))
    /\ UNCHANGED <<entry, generation>>

(* An earlier walk has answered for this node.                               *)
Recall(c) ==
    /\ Walking(c) /\ Known(call[c])
    /\ Steps(c, Answered(call[c], call[c].at \in call[c].memo[TRUE], call[c].chain))
    /\ UNCHANGED <<entry, generation>>

(* This walk has been here before: a cycle.                                  *)
MeetItself(c) ==
    /\ Walking(c) /\ ~Known(call[c]) /\ call[c].at \in Nodes(call[c].chain)
    /\ Steps(c, Answered(call[c], FALSE, call[c].chain))
    /\ UNCHANGED <<entry, generation>>

LooksUp(c) == Walking(c) /\ ~Known(call[c]) /\ call[c].at \notin Nodes(call[c].chain)

(* Mutation: the limit is tested before the owner. *)
MutLookUp(c) ==
    /\ LooksUp(c)
    /\ LET x == call[c]
           above == Up(x.at)
           seen == Append(x.chain, x.at)
       IN  Steps(c,
             IF above = NoRef \/ Len(seen) = MaxOwnerDepth THEN Answered(x, FALSE, seen)
             ELSE IF Named(x.objs, above) THEN Answered(x, TRUE, seen)
             ELSE [x EXCEPT !.at = above, !.chain = seen])
    /\ UNCHANGED <<entry, generation>>

(* The owner references are read: there is none, it names an object of a     *)
(* release, or the walk goes on from there unless it is too long.            *)
LookUp(c) ==
    /\ LooksUp(c)
    /\ LET x == call[c]
           above == Up(x.at)
           seen == Append(x.chain, x.at)
       IN  Steps(c,
             IF above = NoRef THEN Answered(x, FALSE, seen)
             ELSE IF Named(x.objs, above) THEN Answered(x, TRUE, seen)
             ELSE IF Len(seen) = MaxOwnerDepth THEN Answered(x, FALSE, seen)
             ELSE [x EXCEPT !.at = above, !.chain = seen])
    /\ UNCHANGED <<entry, generation>>

(* Mutation: an answer nobody got is remembered as "not owned". *)
MutLookUpFails(c) ==
    /\ LooksUp(c)
    /\ Steps(c, [Answered(call[c], FALSE, Append(call[c].chain, call[c].at))
                    EXCEPT !.lost = @ \cup {Begun(call[c])}])
    /\ UNCHANGED <<entry, generation>>

(* The object is kept, and nothing is remembered.                            *)
LookUpFails(c) ==
    /\ LooksUp(c)
    /\ Steps(c, [call[c] EXCEPT !.at = NoRef, !.chain = <<>>, !.lost = @ \cup {Begun(call[c])}])
    /\ UNCHANGED <<entry, generation>>

ReachesRelease(c) == Recall(c) \/ MeetItself(c) \/ LookUp(c) \/ LookUpFails(c)

Filtered(c) == call[c].pc = "owners" /\ call[c].at = NoRef /\ call[c].todo = {}

Return(c) ==
    /\ Filtered(c)
    /\ Steps(c, Idle)
    /\ UNCHANGED <<entry, generation>>

List(c) ==
    \/ ListObjects(c) \/ ReadCache(c) \/ BuildInventory(c) \/ BuildFails(c) \/ Store(c)
    \/ CollapseHelmOwned(c) \/ NextObject(c) \/ ReachesRelease(c) \/ Return(c)

Next ==
    \/ WorkerWrites \/ InvalidateInventory \/ CliWrites
    \/ \E k \in Keys : EntryExpires(k)
    \/ \E c \in Calls : List(c)

Spec == Init /\ [][Next]_vars

-----------------------------------------------------------------------------
(* Properties *)

(* inventory.go:273,332: a List that begins after a worker of the plugin has *)
(* invalidated the inventory sees the releases as that worker left them or   *)
(* later, whatever builds were under way and whichever target they served.   *)
OwnWritesSeen ==
    \A c \in Calls :
        call[c].pc \in {"store", "filter"} => call[c].ver >= call[c].floor

(* The object from which Kubernetes says o was created.                      *)
ParentOf(o) == IF owner[o] = NoRef THEN o ELSE Object(owner[o][1], o[2], owner[o][2])

Closed(o) == {S \in SUBSET Objects : o \in S /\ \A q \in S : ParentOf(q) \in S}

(* o and all objects its owners lead to: the least set that has them.        *)
Above(o) == LET closed == Closed(o)
            IN  {p \in Objects : \A S \in closed : p \in S}

Owned(o, objs) == Above(o) \cap objs # {}

(* An object of a release is found within MaxOwnerDepth references.          *)
Paths(o) ==
    {p \in [0..MaxOwnerDepth -> Objects] :
        p[0] = o /\ \A i \in 1..MaxOwnerDepth : p[i] = ParentOf(p[i - 1])}

Near(o, objs) == \E p \in Paths(o) : \E i \in 0..MaxOwnerDepth : p[i] \in objs

(* k8s.go:886, owners.go:43: "hiding a real resource ... would be a silent   *)
(* loss".  What List hides is in a release's manifest, or some object its    *)
(* owners lead to is; and it is no Namespace.  This is so with one namespace *)
(* only: inventory.go:234 indexes every object without its namespace too,    *)
(* and owners.go:147 asks the index without one, so that with two an owner   *)
(* passes for its namesake in the other.  HiddenHaveNamesakes in module      *)
(* DiscoveryProofs says what holds with any number.                          *)
HiddenIsOwned ==
    \A c \in Calls : \A o \in call[c].hidden :
        o[1] # NamespaceKind /\ Owned(o, call[c].objs)

(* owners.go:64: an object of a release, or above which one is found within  *)
(* MaxOwnerDepth references, is hidden, whichever objects share its owners,  *)
(* in whatever order they come, and though lookups for others failed.  Only  *)
(* a chain longer than that may disturb the answer for a shorter one.        *)
NoneFar(c) == \A o \in Listed(call[c].kind) :
                 Owned(o, call[c].objs) => Near(o, call[c].objs)

OwnedIsHidden ==
    \A c \in Calls :
        Filtered(c) /\ call[c].kind # NamespaceKind /\ NoneFar(c)
            => \A o \in Listed(call[c].kind) \ call[c].lost :
                  Owned(o, call[c].objs) => o \in call[c].hidden
=============================================================================
