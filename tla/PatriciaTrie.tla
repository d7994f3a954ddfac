---------------------------- MODULE PatriciaTrie ----------------------------
(***************************************************************************)
(* The Patricia trie under the state of nano contracts                     *)
(* (hathor/nanocontracts/storage/patricia_trie.py): nodes are immutable,   *)
(* an update makes a new path up to a new root, and older roots stay       *)
(* readable in the store they were committed to.                           *)
(*                                                                         *)
(* A key is a sequence of hex digits.  The id of a node is the hash of its *)
(* key, its content and the ids of its children; here a node is its own id *)
(* and holds its children, so that equal ids are equal subtries.           *)
(***************************************************************************)
EXTENDS Naturals, FiniteSets, SequencesExt

CONSTANTS
    Keys,         \* the encoded keys, none of them empty
    Contents,     \* [key -> what may be stored at it, not 0]
    MaxVersions   \* bound: roots that were committed

VARIABLES
    root,       \* PatriciaTrie.root
    local,      \* _local_changes
    db,         \* the NodeTrieStore
    map,        \* history: the mapping the trie at root stands for
    versions    \* history: roots that were committed, with their mappings

vars == <<root, local, db, map, versions>>

None == 0
Node(key, content, children) == [key |-> key, content |-> content, children |-> children]
Empty == Node(<<>>, None, {})
NoContents == [k \in Keys |-> None]

Init ==
    /\ root = Empty /\ local = {} /\ db = {Empty}
    /\ map = NoContents
    /\ versions = {[root |-> Empty, map |-> NoContents]}

(* _find_nearest_node, with the nodes on the way to it.                    *)
RECURSIVE Path(_, _)
Path(node, key) ==
    LET next == {c \in node.children : IsPrefix(c.key, key)}
    IN IF node.key = key \/ next = {} THEN <<node>>
       ELSE <<node>> \o Path(CHOOSE c \in next : TRUE, key)

(* _get: a node without content is there for the prefix only.              *)
Get(node, key) ==
    LET nearest == Last(Path(node, key))
    IN IF nearest.key = key THEN nearest.content ELSE None

(* A mutant of WithKey: the new node is put beside the one it shares a     *)
(* prefix with.                                                            *)
WithKeyUnsplit(node, key, content) ==
    IF node.key = key THEN [node EXCEPT !.content = content]
    ELSE [node EXCEPT !.children = @ \cup {Node(key, content, {})}]

(* _update below the nearest node: a new content, a new child, or a split  *)
(* node between it and the child that shares a prefix with the key.        *)
WithKey(node, key, content) ==
    LET leaf == Node(key, content, {})
        Common(c) == LongestCommonPrefix({c.key, key})
        sharing == {c \in node.children : Len(Common(c)) > Len(node.key)}
        Split(c) == IF Common(c) = key THEN Node(key, content, {c})
                    ELSE Node(Common(c), None, {c, leaf})
    IN IF node.key = key THEN [node EXCEPT !.content = content]
       ELSE [node EXCEPT !.children = IF sharing = {} THEN @ \cup {leaf}
                                      ELSE (@ \ sharing) \cup {Split(c) : c \in sharing}]

(* _build_path: the nodes above are copied around the new one.             *)
RECURSIVE BuildPath(_, _)
BuildPath(path, new) ==
    IF Len(path) = 1 THEN new
    ELSE LET above == path[Len(path) - 1]
         IN BuildPath(Front(path), [above EXCEPT !.children = (@ \ {Last(path)}) \cup {new}])

Update(key, content) ==
    LET path == Path(root, key)
    IN /\ root' = BuildPath(path, WithKey(Last(path), key, content))
       /\ local' = local \cup ToSet(Path(root', key))
       /\ map' = [map EXCEPT ![key] = content]
       /\ UNCHANGED <<db, versions>>

(* _commit_dfs: what is new and can be reached from the root.              *)
RECURSIVE CommitDfs(_)
CommitDfs(node) == {node} \cup UNION {CommitDfs(c) : c \in node.children \cap local}

Commit ==
    /\ versions' = versions \cup {[root |-> root, map |-> map]}
    /\ Cardinality(versions') <= MaxVersions
    /\ db' = db \cup CommitDfs(root)
    /\ local' = {}
    /\ UNCHANGED <<root, map>>

(* A trie is opened at a committed root, the root of another block.        *)
Open(v) ==
    /\ root' = v.root /\ map' = v.map
    /\ local' = {}
    /\ UNCHANGED <<db, versions>>

Next ==
    \/ \E k \in Keys : \E c \in Contents[k] : Update(k, c)
    \/ Commit
    \/ \E v \in versions : Open(v)

Spec == Init /\ [][Next]_vars

----------------------------------------------------------------------------
RECURSIVE Subnodes(_)
Subnodes(node) == {node} \cup UNION {Subnodes(c) : c \in node.children}

(* What a trie with these keys looks like, whatever the order in which     *)
(* they came: a node for each key and one where two keys part.             *)
Shape(m) ==
    LET present == {k \in Keys : m[k] # None}
    IN {<<>>} \cup {LongestCommonPrefix({k, l}) : k, l \in present}

Represents(node, m) ==
    /\ \A k \in Keys : Get(node, k) = m[k]
    /\ {n.key : n \in Subnodes(node)} = Shape(m)

(* After any updates, commits and returns to older roots, the trie and     *)
(* every committed root hold exactly what was stored, with a structure     *)
(* that depends on the mapping only and not on the order of the updates    *)
(* (as the docstring of PatriciaTrie asks, since root ids are compared     *)
(* between nodes), and no node that can be reached is missing from the     *)
(* store.                                                                  *)
TrieRepresentsMap ==
    /\ Represents(root, map) /\ Subnodes(root) \subseteq local \cup db
    /\ \A v \in versions : Represents(v.root, v.map) /\ Subnodes(v.root) \subseteq db
=============================================================================
