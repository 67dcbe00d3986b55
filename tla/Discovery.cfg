SPECIFICATION Spec
CONSTANTS
    Kinds = {Namespace, Set, Root}
    ClusterKinds = {Namespace, Root}
    NamespaceKind = Namespace
    OwnerKinds = {Root}
    ListedKinds = {Namespace, Set, Root}
    Spaces = {s1}
    Cluster = Cluster
    Names = {n1, n2}
    NoRef = NoRef
    Calls = {c1}
    Keys = {t1}
    Uncached = Uncached
    MaxOwnerDepth = 2
    MaxWrites = 1
SYMMETRY Symmetry
INVARIANTS
    OwnWritesSeen
    HiddenIsOwned
    
