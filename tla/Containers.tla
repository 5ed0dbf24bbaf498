------------------------------ MODULE Containers ------------------------------
(***************************************************************************)
(* The containers of the standard library (stdlib.c) with the memory they  *)
(* keep, each next to the mathematical value it stands for:                *)
(*   "queue", "mailbox", "stream"   a ring that is copied when it grows,   *)
(*   "map", "set"                   hash chains,                           *)
(*   "list"                         a doubly linked list,                  *)
(*   "stack", "group"               an array.                              *)
(* dsKind says which one this is.  A call that is refused, or whose memory *)
(* cannot be had, changes nothing and has no action.                       *)
(***************************************************************************)
EXTENDS Integers, Sequences, SequencesExt

CONSTANTS
    Elems,          \* a set of numbers: elements, keys and values
    DsKinds,        \* containers that are looked at
    DsCap,          \* stands for the initial 64, 256 and 4096 slots
    DsSize          \* bound on the number of elements

ASSUME ContainersAssumption ==
    Elems \subseteq Nat /\ DsCap \in Nat \ {0} /\ DsSize \in Nat

VARIABLES dsKind, ring, hash, list, array, dsModel

containerVars == <<dsKind, ring, hash, list, array, dsModel>>

DsNull == -1
Buckets == {0, 1}
Nodes == 1 .. DsSize
Without(s, i) == SubSeq(s, 1, i - 1) \o SubSeq(s, i + 1, Len(s))

(* A hash function is any function: dsModel of a table is a set of pairs.  *)
HashOf(k) == k % 2

ContainersInit ==
    /\ dsKind \in DsKinds
    /\ \E cap \in 1 .. DsCap, max \in 0 .. DsCap :
        /\ dsKind = "mailbox" /\ max > 0 => cap = max
        /\ dsKind # "mailbox" => max = 0
        /\ dsKind \notin {"queue", "mailbox", "stream"} => cap = 1
        /\ ring = [cap |-> cap, max |-> max, head |-> 0, tail |-> 0, count |-> 0,
                   items |-> [i \in 0 .. cap - 1 |-> DsNull]]
    /\ hash = [size |-> 0, bucket |-> [b \in Buckets |-> <<>>]]
    /\ \E byValue \in BOOLEAN :
        /\ byValue => dsKind = "list"
        /\ list = [head |-> 0, tail |-> 0, len |-> 0, byValue |-> byValue, used |-> {},
                   next |-> [n \in Nodes |-> 0], prev |-> [n \in Nodes |-> 0],
                   data |-> [n \in Nodes |-> 0]]
    /\ array = <<>>
    /\ dsModel = IF dsKind \in {"map", "set", "group"} THEN {} ELSE <<>>

-----------------------------------------------------------------------------
(* Rings.                                                                  *)

(* The capacity is doubled while it is less than need: after need rounds   *)
(* at the latest it is not.                                                *)
Doubled(cap, need) ==
    LET f[n \in 0 .. need] == IF n = 0 THEN cap ELSE IF f[n - 1] >= need THEN f[n - 1] ELSE 2 * f[n - 1]
    IN  f[need]

Grow(r, need) ==
    LET cap == Doubled(r.cap, need)
    IN  [r EXCEPT !.cap = cap, !.head = 0, !.tail = r.count,
                  !.items = [i \in 0 .. cap - 1 |->
                                IF i < r.count THEN r.items[(r.head + i) % r.cap] ELSE DsNull]]

Store(r, x) == [r EXCEPT !.items[r.tail] = x, !.tail = (@ + 1) % r.cap, !.count = @ + 1]
Room(r, n) == IF r.count + n > r.cap THEN Grow(r, r.count + n) ELSE r
Written(r, s) == LET f[n \in 0 .. Len(s)] == IF n = 0 THEN r ELSE Store(f[n - 1], s[n]) IN f[Len(s)]

QueuePush(x) ==
    /\ dsKind = "queue"
    /\ ring' = Store(Room(ring, 1), x)
    /\ dsModel' = Append(dsModel, x)
    /\ UNCHANGED <<hash, list, array>>

QueuePop ==
    /\ dsKind = "queue" /\ ring.count > 0
    /\ ring' = [ring EXCEPT !.head = (@ + 1) % ring.cap, !.count = @ - 1]
    /\ dsModel' = Tail(dsModel)
    /\ UNCHANGED <<hash, list, array>>

MailboxPut(x) ==
    /\ dsKind = "mailbox"
    /\ ring.max > 0 => ring.count < ring.max
    /\ ring' = Store(Room(ring, 1), x)
    /\ dsModel' = Append(dsModel, x)
    /\ UNCHANGED <<hash, list, array>>

MailboxTake ==
    /\ dsKind = "mailbox" /\ ring.count > 0
    /\ ring' = [ring EXCEPT !.head = (@ + 1) % ring.cap, !.count = @ - 1]
    /\ dsModel' = Tail(dsModel)
    /\ UNCHANGED <<hash, list, array>>

StreamWrite(s) ==
    /\ dsKind = "stream" /\ Len(dsModel) + Len(s) <= DsSize
    /\ ring' = Written(Room(ring, Len(s)), s)
    /\ dsModel' = dsModel \o s
    /\ UNCHANGED <<hash, list, array>>

StreamRead(n) ==
    /\ dsKind = "stream"
    /\ LET got == IF ring.count < n THEN ring.count ELSE n
       IN  /\ ring' = [ring EXCEPT !.head = (@ + got) % ring.cap, !.count = @ - got]
           /\ dsModel' = SubSeq(dsModel, got + 1, Len(dsModel))
    /\ UNCHANGED <<hash, list, array>>

-----------------------------------------------------------------------------
(* Hash chains: new entries come first in their chain.                     *)

KeyAt(chain, k) == {i \in DOMAIN chain : chain[i].key = k}
First(S) == CHOOSE i \in S : \A j \in S : i <= j
Lookup(h, k) ==
    LET chain == h.bucket[HashOf(k)]
    IN  IF KeyAt(chain, k) = {} THEN DsNull ELSE chain[First(KeyAt(chain, k))].val

MapPut(k, v) ==
    /\ dsKind = "map"
    /\ LET chain == hash.bucket[HashOf(k)]
       IN  hash' = IF KeyAt(chain, k) # {}
                   THEN [hash EXCEPT !.bucket[HashOf(k)][First(KeyAt(chain, k))].val = v]
                   ELSE [size |-> hash.size + 1,
                         bucket |-> [hash.bucket EXCEPT ![HashOf(k)] = <<[key |-> k, val |-> v]>> \o @]]
    /\ dsModel' = {p \in dsModel : p[1] # k} \cup {<<k, v>>}
    /\ UNCHANGED <<ring, list, array>>

MapRemove(k) ==
    /\ dsKind = "map"
    /\ LET chain == hash.bucket[HashOf(k)]
       IN  /\ KeyAt(chain, k) # {}
           /\ hash' = [size |-> hash.size - 1,
                       bucket |-> [hash.bucket EXCEPT ![HashOf(k)] = Without(@, First(KeyAt(chain, k)))]]
    /\ dsModel' = {p \in dsModel : p[1] # k}
    /\ UNCHANGED <<ring, list, array>>

Cleared == [size |-> 0, bucket |-> [b \in Buckets |-> <<>>]]

MapClear ==
    /\ dsKind = "map"
    /\ hash' = Cleared /\ dsModel' = {}
    /\ UNCHANGED <<ring, list, array>>

SetAdd(k) ==
    /\ dsKind = "set"
    /\ KeyAt(hash.bucket[HashOf(k)], k) = {}
    /\ hash' = [size |-> hash.size + 1,
                bucket |-> [hash.bucket EXCEPT ![HashOf(k)] = <<[key |-> k, val |-> k]>> \o @]]
    /\ dsModel' = dsModel \cup {<<k, k>>}
    /\ UNCHANGED <<ring, list, array>>

SetRemove(k) ==
    /\ dsKind = "set"
    /\ LET chain == hash.bucket[HashOf(k)]
       IN  /\ KeyAt(chain, k) # {}
           /\ hash' = [size |-> hash.size - 1,
                       bucket |-> [hash.bucket EXCEPT ![HashOf(k)] = Without(@, First(KeyAt(chain, k)))]]
    /\ dsModel' = dsModel \ {<<k, k>>}
    /\ UNCHANGED <<ring, list, array>>

SetClear ==
    /\ dsKind = "set"
    /\ hash' = Cleared /\ dsModel' = {}
    /\ UNCHANGED <<ring, list, array>>

-----------------------------------------------------------------------------
(* The linked list; 0 is NULL, and used the nodes that are allocated.      *)

NodeAt(l, i) == LET f[j \in 0 .. i] == IF j = 0 THEN l.head ELSE l.next[f[j - 1]] IN f[i]
Data(l) == [i \in 1 .. l.len |-> l.data[NodeAt(l, i - 1)]]

(* list_alloc_node: which node malloc returns makes no difference.         *)
Fresh == CHOOSE n \in Nodes \ list.used : TRUE
Allocated(l, n, x) ==
    [l EXCEPT !.used = @ \cup {n}, !.data[n] = x, !.next[n] = 0, !.prev[n] = 0, !.len = @ + 1]

ListAppend(x) ==
    /\ dsKind = "list" /\ list.used # Nodes
    /\ LET n == Fresh
           l == Allocated(list, n, x)
       IN  list' = IF l.head = 0 THEN [l EXCEPT !.head = n, !.tail = n]
                   ELSE [l EXCEPT !.prev[n] = l.tail, !.next[l.tail] = n, !.tail = n]
    /\ dsModel' = Append(dsModel, x)
    /\ UNCHANGED <<ring, hash, array>>

AtHead(l, n) ==
    [l EXCEPT !.next[n] = l.head,
              !.prev = IF l.head # 0 THEN [l.prev EXCEPT ![l.head] = n] ELSE @,
              !.head = n,
              !.tail = IF @ = 0 THEN n ELSE @]

ListPrepend(x) ==
    /\ dsKind = "list" /\ list.used # Nodes
    /\ list' = AtHead(Allocated(list, Fresh, x), Fresh)
    /\ dsModel' = <<x>> \o dsModel
    /\ UNCHANGED <<ring, hash, array>>

(* pny_list_insert before position i; i = len appends.                     *)
ListInsert(i, x) ==
    /\ dsKind = "list" /\ list.used # Nodes /\ i <= list.len
    /\ LET n == Fresh
           l == Allocated(list, n, x)
           pos == NodeAt(list, i - 1)
       IN  list' = IF i = 0 THEN AtHead(l, n)
                   ELSE IF l.next[pos] # 0
                   THEN [l EXCEPT !.next = [@ EXCEPT ![n] = l.next[pos], ![pos] = n],
                                  !.prev = [@ EXCEPT ![n] = pos, ![l.next[pos]] = n]]
                   ELSE [l EXCEPT !.prev[n] = pos, !.tail = n, !.next[pos] = n]
    /\ dsModel' = SubSeq(dsModel, 1, i) \o <<x>> \o SubSeq(dsModel, i + 1, Len(dsModel))
    /\ UNCHANGED <<ring, hash, array>>

(* free: nothing reads a node's fields afterwards, so they are cleared.    *)
Freed(l, n) == [l EXCEPT !.used = @ \ {n}, !.len = @ - 1, !.next[n] = 0, !.prev[n] = 0, !.data[n] = 0]

(* Variant with a bug: the back pointer of the successor is forgotten.     *)
UnlinkedForward(l, n) ==
    Freed([l EXCEPT !.head = IF l.prev[n] = 0 THEN l.next[n] ELSE @,
              !.tail = IF l.next[n] = 0 THEN l.prev[n] ELSE @,
              !.next = IF l.prev[n] # 0 THEN [@ EXCEPT ![l.prev[n]] = l.next[n]] ELSE @], n)

Unlinked(l, n) ==
    Freed([l EXCEPT !.head = IF l.prev[n] = 0 THEN l.next[n] ELSE @,
              !.tail = IF l.next[n] = 0 THEN l.prev[n] ELSE @,
              !.next = IF l.prev[n] # 0 THEN [@ EXCEPT ![l.prev[n]] = l.next[n]] ELSE @,
              !.prev = IF l.next[n] # 0 THEN [@ EXCEPT ![l.next[n]] = l.prev[n]] ELSE @], n)

ListRemove(i) ==
    /\ dsKind = "list" /\ i < list.len
    /\ list' = Unlinked(list, NodeAt(list, i))
    /\ dsModel' = Without(dsModel, i + 1)
    /\ UNCHANGED <<ring, hash, array>>

(* The first element that compares equal.                                  *)
ListRemoveVal(x) ==
    LET found == {i \in 0 .. list.len - 1 : list.data[NodeAt(list, i)] = x}
    IN  /\ dsKind = "list" /\ found # {}
        /\ list' = Unlinked(list, NodeAt(list, First(found)))
        /\ dsModel' = Without(dsModel, First(found) + 1)
        /\ UNCHANGED <<ring, hash, array>>

ListPop ==
    /\ dsKind = "list" /\ list.tail # 0
    /\ LET n == list.tail
       IN  list' = Freed([list EXCEPT !.next = IF list.prev[n] # 0 THEN [@ EXCEPT ![list.prev[n]] = 0] ELSE @,
                                !.head = IF list.prev[n] # 0 THEN @ ELSE 0,
                                !.tail = list.prev[n]], n)
    /\ dsModel' = SubSeq(dsModel, 1, Len(dsModel) - 1)
    /\ UNCHANGED <<ring, hash, array>>

ListPopFront ==
    /\ dsKind = "list" /\ list.head # 0
    /\ LET n == list.head
       IN  list' = Freed([list EXCEPT !.prev = IF list.next[n] # 0 THEN [@ EXCEPT ![list.next[n]] = 0] ELSE @,
                                !.tail = IF list.next[n] # 0 THEN @ ELSE 0,
                                !.head = list.next[n]], n)
    /\ dsModel' = Tail(dsModel)
    /\ UNCHANGED <<ring, hash, array>>

ListSet(i, x) ==
    /\ dsKind = "list" /\ i < list.len
    /\ list' = [list EXCEPT !.data[NodeAt(list, i)] = x]
    /\ dsModel' = [dsModel EXCEPT ![i + 1] = x]
    /\ UNCHANGED <<ring, hash, array>>

(* Every node's pointers are exchanged, then the list's own two.           *)
ListReverse ==
    /\ dsKind = "list"
    /\ list' = [list EXCEPT !.next = [n \in Nodes |-> IF n \in list.used THEN list.prev[n] ELSE @[n]],
                            !.prev = [n \in Nodes |-> IF n \in list.used THEN list.next[n] ELSE @[n]],
                            !.head = list.tail, !.tail = list.head]
    /\ dsModel' = Reverse(dsModel)
    /\ UNCHANGED <<ring, hash, array>>

(* The bubble sort exchanges data, and only of elements kept by value.     *)
Bubble(l, j) ==
    LET a == NodeAt(l, j - 1)
        b == l.next[a]
    IN  IF l.data[a] > l.data[b]
        THEN [l EXCEPT !.data = [@ EXCEPT ![a] = l.data[b], ![b] = l.data[a]]] ELSE l

(* One pass over the first n pairs, and a pass for each element but one.   *)
Bubbled(l, n) == LET f[j \in 0 .. n] == IF j = 0 THEN l ELSE Bubble(f[j - 1], j) IN f[n]
Sorted(l, n) == LET f[i \in 0 .. n] == IF i = 0 THEN l ELSE Bubbled(f[i - 1], l.len - i) IN f[n]

(* The same elements, the smaller ones first.                              *)
Ascending(s) ==
    LET p == CHOOSE p \in [1 .. Len(s) -> 1 .. Len(s)] :
                /\ IsInjective(p)
                /\ \A i, j \in 1 .. Len(s) : i < j => s[p[i]] <= s[p[j]]
    IN  [i \in 1 .. Len(s) |-> s[p[i]]]

ListSort ==
    /\ dsKind = "list" /\ list.len > 1
    /\ list' = IF list.byValue THEN Sorted(list, list.len - 1) ELSE list
    /\ dsModel' = IF list.byValue THEN Ascending(dsModel) ELSE dsModel
    /\ UNCHANGED <<ring, hash, array>>

-----------------------------------------------------------------------------
(* Arrays.                                                                 *)

StackPush(x) ==
    /\ dsKind = "stack"
    /\ array' = Append(array, x) /\ dsModel' = <<x>> \o dsModel
    /\ UNCHANGED <<ring, hash, list>>

StackPop ==
    /\ dsKind = "stack" /\ array # <<>>
    /\ array' = SubSeq(array, 1, Len(array) - 1) /\ dsModel' = Tail(dsModel)
    /\ UNCHANGED <<ring, hash, list>>

GroupContains(id) == \E i \in DOMAIN array : array[i] = id

GroupAdd(id) ==
    /\ dsKind = "group" /\ ~GroupContains(id)
    /\ array' = Append(array, id) /\ dsModel' = dsModel \cup {<<id, id>>}
    /\ UNCHANGED <<ring, hash, list>>

(* The last member takes the place of the one that leaves.                 *)
GroupRemove(id) ==
    /\ dsKind = "group" /\ GroupContains(id)
    /\ array' = LET i == First({j \in DOMAIN array : array[j] = id})
                IN  SubSeq([array EXCEPT ![i] = array[Len(array)]], 1, Len(array) - 1)
    /\ dsModel' = dsModel \ {<<id, id>>}
    /\ UNCHANGED <<ring, hash, list>>

-----------------------------------------------------------------------------
(* Elements are added only while there are fewer than DsSize.              *)
Growing ==
    \E x \in Elems :
        \/ QueuePush(x) \/ MailboxPut(x) \/ StackPush(x)
        \/ ListAppend(x) \/ ListPrepend(x) \/ \E i \in 0 .. DsSize : ListInsert(i, x)

RingStep ==
    \/ QueuePop \/ MailboxTake
    \/ \E n \in 1 .. DsSize : StreamRead(n)
    \/ \E x, y \in Elems : StreamWrite(<<x>>) \/ StreamWrite(<<x, y>>)

HashStep ==
    \/ \E k \in Elems :
        \/ MapRemove(k) \/ SetAdd(k) \/ SetRemove(k) \/ GroupAdd(k) \/ GroupRemove(k)
        \/ \E v \in {k, DsNull} : MapPut(k, v)
    \/ MapClear \/ SetClear

ListStep ==
    \/ ListPop \/ ListPopFront \/ ListReverse \/ ListSort \/ StackPop
    \/ \E x \in Elems : ListRemoveVal(x) \/ \E i \in 0 .. DsSize : ListSet(i, x)
    \/ \E i \in 0 .. DsSize : ListRemove(i)

ContainersNext ==
    /\ UNCHANGED dsKind
    /\ \/ dsKind \in {"queue", "mailbox", "stack", "list"} /\ Len(dsModel) < DsSize /\ Growing
       \/ RingStep \/ HashStep \/ ListStep

ContainersSpec == ContainersInit /\ [][ContainersNext]_containerVars
-----------------------------------------------------------------------------
(* The ring holds the queue: growing and wrapping lose, duplicate and      *)
(* reorder nothing (pny_queue, pny_mailbox, pny_stream).*)
RingAgrees ==
    dsKind \in {"queue", "mailbox", "stream"} =>
        /\ ring.count <= ring.cap /\ ring.tail = (ring.head + ring.count) % ring.cap
        /\ dsModel = [i \in 1 .. ring.count |-> ring.items[(ring.head + i - 1) % ring.cap]]

(* A table answers as the set of pairs does, counts it, and has one entry  *)
(* for a key however chains were built and cut (pny_map, pny_set).*)
HashAgrees ==
    dsKind \in {"map", "set"} =>
        /\ hash.size = Len(hash.bucket[0]) + Len(hash.bucket[1])
        /\ \A b \in Buckets : \A i, j \in DOMAIN hash.bucket[b] :
              hash.bucket[b][i].key = hash.bucket[b][j].key => i = j
        /\ \A k \in Elems : Lookup(hash, k) = (IF \E v \in Elems : <<k, v>> \in dsModel
                                               THEN CHOOSE v \in Elems : <<k, v>> \in dsModel ELSE DsNull)

(* Both directions of the links spell the sequence, and no other node is   *)
(* allocated (pny_list).*)
ListAgrees ==
    dsKind = "list" =>
        /\ Data(list) = dsModel /\ list.len = Len(dsModel)
        /\ list.used = {NodeAt(list, i) : i \in 0 .. list.len - 1}
        /\ Data([list EXCEPT !.head = list.tail, !.next = list.prev]) = Reverse(dsModel)

ArrayAgrees ==
    /\ dsKind = "stack" => dsModel = Reverse(array)
    /\ dsKind = "group" => dsModel = {<<x, x>> : x \in Range(array)} /\ IsInjective(array)

(* Maps, sets and groups answer as sets do, and a stack as a sequence,     *)
(* whatever was put, replaced and removed before (pny_map, pny_set,        *)
(* pny_group, pny_stack).                                                  *)
TablesAgree == HashAgrees /\ ArrayAgrees

(* The memory of a container spells the value it stands for (pny_queue,    *)
(* pny_mailbox, pny_stream, pny_map, pny_set, pny_group, pny_stack,        *)
(* pny_list).                                                              *)
ContainersAgree == RingAgrees /\ TablesAgree /\ ListAgrees
=============================================================================
