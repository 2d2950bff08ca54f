------------------------------- MODULE CaseFS -------------------------------
(***************************************************************************)
(* The file system that refuses names whose case is not the real one       *)
(* (lib/fs/casefs.go) over a file system that may or may not tell case     *)
(* apart (lib/fs/fakefs.go stands for it): the check of a path against     *)
(* cached directory listings, the operation that follows, and the drop of  *)
(* the cache, on several threads, while users change the tree.             *)
(*                                                                         *)
(* Names are "a" and "A", trees are two levels deep.  Symbolic links,      *)
(* times, modes and contents are left out.                                 *)
(***************************************************************************)
EXTENDS Integers, Sequences, FiniteSets

CONSTANTS
    Threads,
    MaxOps       \* bound on operations and changes by users

VARIABLES
    insens,    \* the underlying file system does not tell case apart
    tree,      \* tree[k]: the entry with the keys k, [kind, name]
    cache,     \* cache[p]: the listing of directory p, if there
    loader,    \* the thread that holds the mutex of the cache and its listing
    op,        \* op[t]: what thread t does
    tainted,   \* history, tainted[t]: others changed the tree during the
               \* operation, or a listing it used was out of date
    overlap,   \* history: operations overlapped, or users changed the tree
    wrong,     \* history: an untainted operation touched or refused the wrong item
    opCount

caseVars == <<insens, tree, cache, loader, op, tainted, overlap, wrong, opCount>>

Names == {"a", "A"}
Paths == {<<n>> : n \in Names} \cup {<<n, "a">> : n \in Names}
Dirs == {<<>>} \cup {<<n>> : n \in Names}
None == [kind |-> "none", name |-> "a"]
Idle == [at |-> "idle"]
NoNode == [there |-> FALSE, names |-> {}, err |-> FALSE]
NoLoader == [thread |-> 0, names |-> {}, err |-> FALSE]

UnicodeLowercaseNormalized(n) == IF n = "A" THEN "a" ELSE n
Key(n) == IF insens THEN UnicodeLowercaseNormalized(n) ELSE n
Keys(p) == [i \in DOMAIN p |-> Key(p[i])]
Parent(p) == SubSeq(p, 1, Len(p) - 1)
Base(p) == p[Len(p)]

(* A file system that is empty or has a directory. *)
Init ==
    /\ insens \in BOOLEAN
    /\ \E n \in Names, there \in BOOLEAN :
         tree = [k \in Paths |-> IF there /\ k = <<IF insens THEN UnicodeLowercaseNormalized(n) ELSE n>>
                                   THEN [kind |-> "dir", name |-> n] ELSE None]
    /\ cache = [p \in Dirs |-> NoNode] /\ loader = NoLoader
    /\ op = [t \in Threads |-> Idle] /\ tainted = [t \in Threads |-> FALSE]
    /\ overlap = FALSE /\ wrong = FALSE /\ opCount = 0

-----------------------------------------------------------------------------
(* The underlying file system. *)
entryForName(p) == IF p = <<>> THEN [kind |-> "dir", name |-> "a"] ELSE tree[Keys(p)]
Exists(p) == entryForName(p).kind # "none"
Children(p) == {k \in Paths : Len(k) = Len(p) + 1 /\ Parent(k) = Keys(p) /\ tree[k].kind # "none"}
DirNames(p) == {tree[k].name : k \in Children(p)}
Below(p) == {k \in Paths : Len(k) > Len(p) /\ SubSeq(k, 1, Len(p)) = Keys(p)}
(* The path of the item that is reached by p. *)
Real(p) == [i \in DOMAIN p |-> tree[Keys(SubSeq(p, 1, i))].name]

Entry(p, kind) == [kind |-> kind, name |-> Base(p)]
NotDone == [ok |-> FALSE, tree |-> tree]
Done(new) == [ok |-> TRUE, tree |-> new]
Without(p) == [k \in Paths |-> IF k = Keys(p) \/ k \in Below(p) THEN None ELSE tree[k]]

create(p) ==
    IF Exists(p) THEN (IF entryForName(p).kind = "dir" THEN NotDone ELSE Done(tree))
    ELSE IF entryForName(Parent(p)).kind # "dir" THEN NotDone
    ELSE Done([tree EXCEPT ![Keys(p)] = Entry(p, "file")])

(* With O_CREATE: the entry is a new one, whatever was there. *)
OpenFile(p) ==
    IF entryForName(Parent(p)).kind # "dir" THEN NotDone
    ELSE Done([Without(p) EXCEPT ![Keys(p)] = Entry(p, "file")])

Mkdir(p) ==
    IF entryForName(Parent(p)).kind # "dir" \/ Exists(p) THEN NotDone
    ELSE Done([tree EXCEPT ![Keys(p)] = Entry(p, "dir")])

MkdirAll(p) ==
    LET todo == {i \in DOMAIN p : ~Exists(SubSeq(p, 1, i))} IN
    IF \E i \in DOMAIN p : entryForName(SubSeq(p, 1, i)).kind = "file" THEN NotDone
    ELSE Done([k \in Paths |-> IF \E i \in todo : k = Keys(SubSeq(p, 1, i))
                                 THEN [kind |-> "dir", name |-> p[Len(k)]] ELSE tree[k]])

Remove(p) == IF ~Exists(p) \/ Children(p) # {} THEN NotDone ELSE Done(Without(p))
RemoveAll(p) == Done(Without(p))

(* The children of a directory move with it. *)
Rename(p, q) ==
    IF ~Exists(p) \/ entryForName(Parent(q)).kind # "dir" THEN NotDone
    ELSE IF Exists(q) /\ insens /\ Key(Base(p)) = Key(Base(q))
      THEN Done([tree EXCEPT ![Keys(p)].name = Base(q)])
    ELSE IF entryForName(q).kind = "dir" THEN NotDone
    ELSE Done([k \in Paths |->
                 CASE k = Keys(q) -> Entry(q, entryForName(p).kind)
                   [] k # Keys(q) /\ Len(k) > Len(q) /\ SubSeq(k, 1, Len(q)) = Keys(q) ->
                        (IF Len(p) = Len(q) THEN tree[Keys(p) \o SubSeq(k, Len(q) + 1, Len(k))] ELSE None)
                   [] OTHER -> Without(p)[k]])

Result(o) ==
    CASE o.kind = "create" -> create(o.path)
      [] o.kind = "open" -> OpenFile(o.path)
      [] o.kind = "mkdir" -> Mkdir(o.path)
      [] o.kind = "mkdirall" -> MkdirAll(o.path)
      [] o.kind = "remove" -> Remove(o.path)
      [] o.kind = "removeall" -> RemoveAll(o.path)
      [] o.kind = "rename" -> Rename(o.path, o.to)
      [] o.kind = "stat" -> IF Exists(o.path) THEN Done(tree) ELSE NotDone

Kinds == {"create", "open", "mkdir", "mkdirall", "remove", "removeall", "rename", "stat"}

-----------------------------------------------------------------------------
(* The operations.  at: "lstat" before the check of the path named by       *)
(* check, "case" in realCase with the components resolved so far in real,   *)
(* "act" and "drop".                                                        *)
Sensible(k, p, q) ==
    /\ k # "rename" => q = p
    /\ k = "rename" => q # p /\ ~(Len(q) > Len(p) /\ SubSeq(q, 1, Len(p)) = p) /\ Len(p) = Len(q)

Start(t, k, p, q) ==
    /\ op[t] = Idle /\ opCount < MaxOps /\ Sensible(k, p, q)
    /\ op' = [op EXCEPT ![t] = [at |-> "lstat", kind |-> k, path |-> p, to |-> q, check |-> p,
                                real |-> <<>>, again |-> FALSE]]
    /\ opCount' = opCount + 1
    /\ tainted' = [tainted EXCEPT ![t] = FALSE]
    /\ overlap' = (overlap \/ \E u \in Threads \ {t} : op[u] # Idle)
    /\ UNCHANGED <<insens, tree, cache, loader, wrong>>

ThreadFrame == UNCHANGED <<insens, overlap, opCount>>
Returns(t) == op' = [op EXCEPT ![t] = Idle]

(* A path is found to be right: of a rename the new path is checked next.   *)
Checked(t) ==
    IF op[t].kind = "rename" /\ op[t].check = op[t].path
      THEN op' = [op EXCEPT ![t].at = "lstat", ![t].check = op[t].to, ![t].real = <<>>, ![t].again = FALSE]
      ELSE op' = [op EXCEPT ![t].at = "act"]

checkCase(t) ==
    /\ op[t].at = "lstat"
    /\ IF ~Exists(op[t].check) THEN Checked(t) ELSE op' = [op EXCEPT ![t].at = "case"]
    /\ UNCHANGED <<tree, cache, loader, tainted, wrong>> /\ ThreadFrame

(* newCaseNode, in two steps: the listing, and its place in the cache.      *)
newCaseNode(t) ==
    /\ op[t].at = "case" /\ Len(op[t].real) < Len(op[t].check)
    /\ ~cache[op[t].real].there /\ loader = NoLoader
    /\ loader' = [thread |-> t, names |-> DirNames(op[t].real), err |-> ~Exists(op[t].real)]
    /\ UNCHANGED <<tree, cache, op, tainted, wrong>> /\ ThreadFrame

(* What realCase does with a listing. *)
Resolve(t, node) ==
    LET o == op[t]
        comp == o.check[Len(o.real) + 1]
        same == {n \in node.names : UnicodeLowercaseNormalized(n) = UnicodeLowercaseNormalized(comp)}
    IN  /\ tainted' = [tainted EXCEPT ![t] = @ \/ node.names # DirNames(o.real) \/ node.err # ~Exists(o.real)]
        /\ IF node.err \/ same = {}
             THEN IF o.again THEN Returns(t)
                  ELSE op' = [op EXCEPT ![t].at = "stale"]
             ELSE op' = [op EXCEPT ![t].real = Append(@, IF comp \in same THEN comp ELSE CHOOSE n \in same : TRUE)]

getExpireAdd(t) ==
    /\ op[t].at = "case" /\ Len(op[t].real) < Len(op[t].check)
    /\ IF loader.thread = t
         THEN /\ cache' = [cache EXCEPT ![op[t].real] = [there |-> TRUE, names |-> loader.names, err |-> loader.err]]
              /\ loader' = NoLoader
              /\ Resolve(t, [there |-> TRUE, names |-> loader.names, err |-> loader.err])
         ELSE /\ cache[op[t].real].there /\ loader = NoLoader
              /\ Resolve(t, cache[op[t].real]) /\ UNCHANGED <<cache, loader>>
    /\ UNCHANGED <<tree, wrong>> /\ ThreadFrame

(* It did exist just before: the cache is dropped for another try. *)
Retry(t) ==
    /\ op[t].at = "stale" /\ cache' = [p \in Dirs |-> NoNode]
    /\ op' = [op EXCEPT ![t].at = "case", ![t].real = <<>>, ![t].again = TRUE]
    /\ UNCHANGED <<tree, loader, tainted, wrong>> /\ ThreadFrame

CaseOnlyRename(o) == o.kind = "rename" /\ o.check = o.to /\ o.real = o.path

checkCaseExisting(t) ==
    /\ op[t].at = "case" /\ Len(op[t].real) = Len(op[t].check)
    /\ IF op[t].real = op[t].check \/ CaseOnlyRename(op[t])
         THEN Checked(t) /\ UNCHANGED wrong
         ELSE /\ Returns(t)
              /\ wrong' = (wrong \/ (~tainted[t] /\ Exists(op[t].check) /\ Real(op[t].check) = op[t].check))
    /\ UNCHANGED <<tree, cache, loader, tainted>> /\ ThreadFrame

(* The item that is reached is not the one that is named. *)
Mistaken(o) ==
    \/ Exists(o.path) /\ Real(o.path) # o.path
    \/ o.kind = "rename" /\ Exists(o.to) /\ Real(o.to) # o.to /\ Real(o.to) # o.path

TaintOthers(t, new) ==
    tainted' = [u \in Threads |-> tainted[u] \/ (u # t /\ op[u] # Idle /\ new # tree)]

Act(t) ==
    LET r == Result(op[t]) IN
    /\ op[t].at = "act"
    /\ tree' = r.tree
    /\ IF r.ok /\ op[t].kind # "stat" THEN op' = [op EXCEPT ![t].at = "drop"] ELSE Returns(t)
    /\ wrong' = (wrong \/ (r.ok /\ ~tainted[t] /\ Mistaken(op[t])))
    /\ TaintOthers(t, r.tree)
    /\ UNCHANGED <<cache, loader>> /\ ThreadFrame

(* Mutant of dropCache: renames do not drop the cache. *)
dropCacheNotRenamed(t) ==
    /\ op[t].at = "drop" /\ Returns(t)
    /\ cache' = IF op[t].kind = "rename" THEN cache ELSE [p \in Dirs |-> NoNode]
    /\ UNCHANGED <<tree, loader, tainted, wrong>> /\ ThreadFrame
dropCache(t) ==
    /\ op[t].at = "drop" /\ Returns(t)
    /\ cache' = [p \in Dirs |-> NoNode]
    /\ UNCHANGED <<tree, loader, tainted, wrong>> /\ ThreadFrame

(* A listing is a second old, or the cleaner has come. *)
Expire(p) ==
    /\ cache[p] # NoNode /\ loader = NoLoader /\ cache' = [cache EXCEPT ![p] = NoNode]
    /\ UNCHANGED <<insens, tree, loader, op, tainted, overlap, wrong, opCount>>

UserChanges ==
    /\ opCount < MaxOps /\ opCount' = opCount + 1
    /\ \E r \in {Rename(p, q) : p, q \in {<<n>> : n \in Names}} \cup {Remove(p) : p \in Paths}
                  \cup {create(p) : p \in Paths} :
         r.tree # tree /\ tree' = r.tree /\ TaintOthers(0, r.tree)
    /\ overlap' = TRUE
    /\ UNCHANGED <<insens, cache, loader, op, wrong>>

CaseNext ==
    \/ UserChanges
    \/ \E p \in Dirs : Expire(p)
    \/ \E t \in Threads :
         \/ checkCase(t) \/ newCaseNode(t) \/ getExpireAdd(t) \/ Retry(t)
         \/ checkCaseExisting(t) \/ Act(t) \/ dropCache(t)
         \/ \E k \in Kinds, p, q \in Paths : Start(t, k, p, q)
CaseSpec == Init /\ [][CaseNext]_caseVars

-----------------------------------------------------------------------------
(* An operation that nobody interfered with never reaches an item by        *)
(* another name than its own, nor is it refused one by its own name; and    *)
(* without interference no listing in the cache is out of date between      *)
(* operations.                                                              *)
CaseSafe ==
    /\ ~wrong
    /\ ~overlap /\ (\A t \in Threads : op[t] = Idle) =>
         \A p \in Dirs : cache[p].there =>
             cache[p].names = DirNames(p) /\ cache[p].err = ~Exists(p)
    /\ \A k \in Paths : tree[k].kind # "none" => Len(k) = 1 \/ tree[Parent(k)].kind = "dir"
=============================================================================
