-------------------------------- MODULE Patricia --------------------------------
(***************************************************************************)
(* The patricia trie that holds the routes of an sfmc device               *)
(* (src/device-drivers-4.2.0/ixgbe/patricia.c; e1000 has the same file),   *)
(* as sfmc.c uses it: routes are inserted (patricia_lookup, then the       *)
(* node's data) and removed (patricia_search_exact, patricia_remove) by    *)
(* one thread at a time, while a CPU searches the best match of a          *)
(* destination.  The search takes no lock and nothing makes a removal wait *)
(* for it.                                                                 *)
(*                                                                         *)
(* A prefix is the sequence of its bits; the bits behind its length are 0. *)
(* A node is named by the bits that lead to it.  Two nodes with one name   *)
(* would be a corrupt trie: an allocation that meets the name in use fails *)
(* a check, as one of the code's own assertions would.                     *)
(***************************************************************************)
EXTENDS Naturals, Sequences, FiniteSets

CONSTANTS
    maxbits,    \* bits of an address (New_Patricia(32))
    Prefix,     \* the prefixes that become routes
    Address,    \* the destinations that are looked up: prefixes of maxbits bits
    MaxRoutes,  \* bound on the routes stored at a time
    NULL

Bits == UNION {[1 .. n -> 0 .. 1] : n \in 0 .. maxbits}

ASSUME PrefixAssumption ==
    /\ maxbits \in Nat
    /\ Prefix \subseteq Bits
    /\ Address \subseteq [1 .. maxbits -> 0 .. 1]
    /\ MaxRoutes \in Nat
    /\ NULL \notin Bits

VARIABLES
    head,             \* patricia->head
    node,             \* the nodes that are not freed, by name
    num_active_node,  \* patricia->num_active_node
    w,                \* the writer: what it does next, and to which node
    rd,               \* the search in progress, or the last one
    routes,           \* history: the routes inserted and not removed
    asserts           \* history: every assertion held so far

trie == <<head, node, num_active_node>>
vars == <<head, node, num_active_node, w, rd, routes, asserts>>

(***************************************************************************)
(* data is the sfmc_fib of the route, named by its prefix.                 *)
(***************************************************************************)
Link == Bits \cup {NULL}
Node == [bit : 0 .. maxbits, prefix : Link, parent : Link, l : Link, r : Link, data : Link]

Writer == [op : {"idle", "data", "unlink", "splice", "relink"}, pn : Link, up : Link, child : Link]

Idle == [op |-> "idle", pn |-> NULL, up |-> NULL, child |-> NULL]

(***************************************************************************)
(* A search: its address, the node it is at, its stack, and what history   *)
(* keeps of it: the nodes it holds that were freed meanwhile, the covering *)
(* routes that were stored at some moment since it began and those stored  *)
(* all the time, whether a covering route had its node without its data at *)
(* some moment (its insertion half done, or its removal begun), and        *)
(* whether any removal took place.                                         *)
(***************************************************************************)
Search == [pc : {"idle", "down", "pop", "data", "done", "undefined"},
           addr : Link, at : Link, stack : Seq(Bits), res : Link,
           freed : SUBSET Bits, seen : SUBSET Bits, kept : SUBSET Bits, hole : BOOLEAN, removal : BOOLEAN]

NoSearch == [pc |-> "idle", addr |-> NULL, at |-> NULL, stack |-> <<>>, res |-> NULL,
             freed |-> {}, seen |-> {}, kept |-> {}, hole |-> FALSE, removal |-> FALSE]

TypeOK ==
    /\ head \in Link
    /\ DOMAIN node \subseteq Bits
    /\ \A n \in DOMAIN node : node[n] \in Node
    /\ num_active_node \in Nat
    /\ w \in Writer
    /\ rd \in Search
    /\ routes \subseteq Prefix
    /\ asserts \in BOOLEAN

Init ==
    /\ head = NULL
    /\ node = <<>>
    /\ num_active_node = 0
    /\ w = Idle
    /\ rd = NoSearch
    /\ routes = {}
    /\ asserts = TRUE

-------------------------------------------------------------------------------
(***************************************************************************)
(* BIT_TEST of an address, comp_with_mask of a prefix with an address.     *)
(***************************************************************************)
Bit(p, i) == IF i < Len(p) THEN p[i + 1] ELSE 0

Covers(p, a) == Len(p) <= Len(a) /\ SubSeq(a, 1, Len(p)) = p

Side(n, p) == IF node[n].bit < maxbits /\ Bit(p, node[n].bit) = 1 THEN "r" ELSE "l"

\* Where a walk from s ends that goes on from n to next[n], until that is n.
WalkEnd(next, s) ==
    LET end[n \in DOMAIN next] == IF next[n] = n THEN n ELSE end[next[n]]
    IN  end[s]

\* Where patricia_lookup stops on its way down.
Stop(p) ==
    WalkEnd([n \in DOMAIN node |->
                IF (node[n].bit < Len(p) \/ node[n].prefix = NULL) /\ node[n][Side(n, p)] # NULL
                THEN node[n][Side(n, p)]
                ELSE n],
            head)

\* The assertion of the code there: the node has a prefix.
StopHasPrefix(p) == node[Stop(p)].prefix # NULL

\* The first bit in which the two differ, up to the shorter one's length.
DifferBit(p, q, check) ==
    LET differ == {i \in 0 .. check - 1 : Bit(p, i) # Bit(q, i)}
    IN  IF differ = {} THEN check ELSE CHOOSE i \in differ : \A j \in differ : i <= j

\* Mutant: the climb stops below the bit.
ClimbFromBelow(s, differ) ==
    WalkEnd([n \in DOMAIN node |->
                IF node[n].parent # NULL /\ node[node[n].parent].bit > differ
                THEN node[n].parent
                ELSE n],
            s)

\* The climb back to the highest node at or below that bit.
ClimbFrom(s, differ) ==
    WalkEnd([n \in DOMAIN node |->
                IF node[n].parent # NULL /\ node[node[n].parent].bit >= differ
                THEN node[n].parent
                ELSE n],
            s)

NewNode(n, prefix, parent, l, r) ==
    [bit |-> Len(n), prefix |-> prefix, parent |-> parent, l |-> l, r |-> r, data |-> NULL]

\* The nodes nd with those of new added or overwritten.
With(nd, new) ==
    [n \in DOMAIN nd \cup DOMAIN new |-> IF n \in DOMAIN new THEN new[n] ELSE nd[n]]

\* Mutant: the right link is changed whichever leads to old.
RelinkedRight(nd, up, old, new) ==
    IF up = NULL THEN nd
    ELSE IF nd[up].r # NULL THEN [nd EXCEPT ![up].r = new] ELSE [nd EXCEPT ![up].l = new]

\* In the nodes nd, the link of parent up to old becomes a link to new.
Relinked(nd, up, old, new) ==
    IF up = NULL THEN nd
    ELSE IF nd[up].r = old THEN [nd EXCEPT ![up].r = new] ELSE [nd EXCEPT ![up].l = new]

Without(nd, ns) == [n \in DOMAIN nd \ ns |-> nd[n]]

-------------------------------------------------------------------------------
(***************************************************************************)
(* What history notes of a step of the writer that leaves the routes rs    *)
(* and the nodes nd and frees the nodes of fr.                             *)
(***************************************************************************)
Covering(rs, a) == {p \in rs : Covers(p, a)}

Hole(nd, a) == \E n \in DOMAIN nd : nd[n].prefix # NULL /\ nd[n].data = NULL /\ Covers(n, a)

Searching == rd.pc \in {"down", "pop", "data"}

Stacked == {rd.stack[i] : i \in DOMAIN rd.stack}
Held == {rd.at} \cup Stacked

Watch(rs, nd, fr, removal) ==
    /\ routes' = rs
    /\ rd' = IF Searching
             THEN [rd EXCEPT !.seen = @ \cup Covering(rs, rd.addr),
                             !.kept = @ \cap rs,
                             !.hole = @ \/ Hole(nd, rd.addr)
                                        \/ Covering(routes \ rs, rd.addr) # {},
                             !.freed = @ \cup (fr \cap Held),
                             !.removal = @ \/ removal]
             ELSE rd

Check(ok) == asserts' = (asserts /\ ok)

Insert(p) == w.op = "idle" /\ Cardinality(routes) < MaxRoutes /\ w' = [Idle EXCEPT !.op = "data", !.pn = p]

(***************************************************************************)
(* patricia_lookup(p).  Each case changes the trie, as a search sees it,   *)
(* by its last store to a link or a prefix that a search can reach.        *)
(***************************************************************************)
LookupHead(p) ==
    /\ Insert(p)
    /\ head = NULL
    /\ head' = p
    /\ node' = With(node, [n \in {p} |-> NewNode(p, p, NULL, NULL, NULL)])
    /\ num_active_node' = num_active_node + 1
    /\ Check(p \notin DOMAIN node)
    /\ Watch(routes, node', {}, FALSE)

Differ(p) ==
    LET s == Stop(p)
        check == IF node[s].bit < Len(p) THEN node[s].bit ELSE Len(p)
    IN  DifferBit(p, node[s].prefix, check)
Top(p) == ClimbFrom(Stop(p), Differ(p))

SameNode(p) == Differ(p) = Len(p) /\ node[Top(p)].bit = Len(p)

LookupFound(p) ==
    /\ Insert(p)
    /\ head # NULL
    /\ SameNode(p)
    /\ node[Top(p)].prefix # NULL
    /\ Check(StopHasPrefix(p) /\ Top(p) = p)
    /\ UNCHANGED <<trie, rd, routes>>

\* #1: a glue node gets the prefix.
LookupGlueMod(p) ==
    /\ Insert(p)
    /\ head # NULL
    /\ SameNode(p)
    /\ node[Top(p)].prefix = NULL
    /\ node' = [node EXCEPT ![Top(p)].prefix = p]
    /\ Check(StopHasPrefix(p) /\ Top(p) = p /\ node[Top(p)].data = NULL)
    /\ UNCHANGED <<head, num_active_node>>
    /\ Watch(routes, node', {}, FALSE)

\* #2: the new node becomes a child.
LookupChild(p) ==
    LET t == Top(p) IN
    /\ Insert(p)
    /\ head # NULL
    /\ ~SameNode(p)
    /\ node[t].bit = Differ(p)
    /\ node' = [With(node, [n \in {p} |-> NewNode(p, p, t, NULL, NULL)])
                   EXCEPT ![t] = [@ EXCEPT ![Side(t, p)] = p]]
    /\ num_active_node' = num_active_node + 1
    /\ Check(StopHasPrefix(p) /\ p \notin DOMAIN node /\ node[t][Side(t, p)] = NULL)
    /\ UNCHANGED head
    /\ Watch(routes, node', {}, FALSE)

\* #3: the new node becomes the parent of the node it stopped at.
LookupParent(p) ==
    LET t == Top(p)
        right == Len(p) < maxbits /\ Bit(node[Stop(p)].prefix, Len(p)) = 1
        new == NewNode(p, p, node[t].parent, IF right THEN NULL ELSE t, IF right THEN t ELSE NULL)
    IN
    /\ Insert(p)
    /\ head # NULL
    /\ ~SameNode(p)
    /\ node[t].bit # Differ(p)
    /\ Len(p) = Differ(p)
    /\ node' = Relinked([With(node, [n \in {p} |-> new]) EXCEPT ![t].parent = p],
                        node[t].parent, t, p)
    /\ head' = IF node[t].parent = NULL THEN p ELSE head
    /\ num_active_node' = num_active_node + 1
    /\ Check(StopHasPrefix(p) /\ p \notin DOMAIN node /\ (node[t].parent = NULL => head = t))
    /\ Watch(routes, node', {}, FALSE)

\* #4: a glue node becomes the parent of both.
LookupGlue(p) ==
    LET t == Top(p)
        d == Differ(p)
        g == SubSeq(p, 1, d)
        right == d < maxbits /\ Bit(p, d) = 1
        glue == NewNode(g, NULL, node[t].parent, IF right THEN t ELSE p, IF right THEN p ELSE t)
        new == [n \in {p, g} |-> IF n = g THEN glue ELSE NewNode(p, p, g, NULL, NULL)]
    IN
    /\ Insert(p)
    /\ head # NULL
    /\ ~SameNode(p)
    /\ node[t].bit # d
    /\ Len(p) # d
    /\ node' = Relinked([With(node, new) EXCEPT ![t].parent = g], node[t].parent, t, g)
    /\ head' = IF node[t].parent = NULL THEN g ELSE head
    /\ num_active_node' = num_active_node + 2
    /\ Check(/\ StopHasPrefix(p) /\ p \notin DOMAIN node /\ g \notin DOMAIN node
             /\ node[t].parent = NULL => head = t)
    /\ Watch(routes, node', {}, FALSE)

\* The rest of sfmc_fib_insert: the node's data, unless the route exists.
InsertData ==
    /\ w.op = "data"
    /\ w' = Idle
    /\ IF node[w.pn].data # NULL
       THEN UNCHANGED <<node, rd, routes>>
       ELSE /\ node' = [node EXCEPT ![w.pn].data = w.pn]
            /\ Watch(routes \cup {w.pn}, node', {}, FALSE)
    /\ UNCHANGED <<head, num_active_node, asserts>>

-------------------------------------------------------------------------------
(***************************************************************************)
(* sfmc_fib_del: patricia_search_exact, then patricia_remove of the node.  *)
(***************************************************************************)
\* A walk that meets a missing child ends above Len(p).
ExactEnd(p) ==
    WalkEnd([n \in DOMAIN node |->
                IF node[n].bit < Len(p) /\ node[n][Side(n, p)] # NULL
                THEN node[n][Side(n, p)]
                ELSE n],
            head)

SearchExact(p) ==
    IF head # NULL /\ node[ExactEnd(p)].bit = Len(p) /\ node[ExactEnd(p)].prefix = p
    THEN ExactEnd(p) ELSE NULL

FindExact(p) == IF SearchExact(p) = NULL THEN NULL ELSE node[SearchExact(p)].data

Removes(p) == w.op = "idle" /\ FindExact(p) # NULL   \* otherwise -ENOENT

\* #0: a node with two children becomes a glue node.
RemoveInner(p) ==
    LET n == SearchExact(p) IN
    /\ Removes(p)
    /\ node[n].l # NULL /\ node[n].r # NULL
    /\ node' = [node EXCEPT ![n].prefix = NULL, ![n].data = NULL]
    /\ UNCHANGED <<head, num_active_node, w, asserts>>
    /\ Watch(routes \ {p}, node', {}, TRUE)

\* Mutant: the glue parent is counted with its leaf, and again when freed.
RemoveLeafCountsParent(p) ==
    LET n == SearchExact(p) IN
    /\ Removes(p)
    /\ node[n].l = NULL /\ node[n].r = NULL
    /\ node' = Without(node, {n})
    /\ num_active_node' = num_active_node - 2
    /\ w' = [op |-> "unlink", pn |-> n, up |-> node[n].parent, child |-> NULL]
    /\ UNCHANGED <<head, asserts>>
    /\ Watch(routes \ {p}, node', {n}, TRUE)

\* #1: a leaf is freed, then unlinked.
RemoveLeaf(p) ==
    LET n == SearchExact(p) IN
    /\ Removes(p)
    /\ node[n].l = NULL /\ node[n].r = NULL
    /\ node' = Without(node, {n})
    /\ num_active_node' = num_active_node - 1
    /\ w' = [op |-> "unlink", pn |-> n, up |-> node[n].parent, child |-> NULL]
    /\ UNCHANGED <<head, asserts>>
    /\ Watch(routes \ {p}, node', {n}, TRUE)

\* Mutant: a parent left with one child is always kept.
KeepParent(up) == up \in {}

Useless(up) == node[up].prefix = NULL

Unlink ==
    LET up == w.up
        side == IF node[up].r = w.pn THEN "r" ELSE "l"
        other == IF node[up].r = w.pn THEN "l" ELSE "r"
    IN
    /\ w.op = "unlink"
    /\ IF up = NULL
       THEN /\ head' = NULL
            /\ Check(head = w.pn)
            /\ w' = Idle
            /\ UNCHANGED node
       ELSE /\ node' = [node EXCEPT ![up] = [@ EXCEPT ![side] = NULL]]
            /\ Check(node[up][side] = w.pn)
            /\ w' = IF ~Useless(up) THEN Idle
                    ELSE [op |-> "splice", pn |-> up, up |-> node[up].parent, child |-> node[up][other]]
            /\ UNCHANGED head
    /\ UNCHANGED <<num_active_node, rd, routes>>

\* #1: its glue parent, left with one child, is bypassed and freed.
Splice ==
    /\ w.op = "splice"
    /\ head' = IF w.up = NULL THEN w.child ELSE head
    /\ node' = Without(Relinked([node EXCEPT ![w.child].parent = w.up], w.up, w.pn, w.child), {w.pn})
    /\ num_active_node' = num_active_node - 1
    /\ w' = Idle
    /\ Check(/\ w.child # NULL
             /\ IF w.up = NULL THEN head = w.pn ELSE w.pn \in {node[w.up].l, node[w.up].r})
    /\ Watch(routes, node', {w.pn}, TRUE)

\* #2: a node with one child is freed, then bypassed.
RemoveChain(p) ==
    LET n == SearchExact(p)
        child == IF node[n].r # NULL THEN node[n].r ELSE node[n].l
    IN
    /\ Removes(p)
    /\ (node[n].l = NULL) # (node[n].r = NULL)
    /\ node' = Without([node EXCEPT ![child].parent = node[n].parent], {n})
    /\ num_active_node' = num_active_node - 1
    /\ w' = [op |-> "relink", pn |-> n, up |-> node[n].parent, child |-> child]
    /\ UNCHANGED <<head, asserts>>
    /\ Watch(routes \ {p}, node', {n}, TRUE)

\* Mutant: the head is not replaced.
RelinkNoHead ==
    /\ w.op = "relink"
    /\ node' = Relinked(node, w.up, w.pn, w.child)
    /\ w' = Idle
    /\ UNCHANGED <<head, num_active_node, rd, routes, asserts>>

Relink ==
    /\ w.op = "relink"
    /\ head' = IF w.up = NULL THEN w.child ELSE head
    /\ node' = Relinked(node, w.up, w.pn, w.child)
    /\ w' = Idle
    /\ Check(IF w.up = NULL THEN head = w.pn ELSE w.pn \in {node[w.up].l, node[w.up].r})
    /\ UNCHANGED <<num_active_node, rd, routes>>

-------------------------------------------------------------------------------
(***************************************************************************)
(* patricia_search_best of an address: down, pushing the nodes that have a *)
(* prefix; then the stack from the top, until a prefix covers the address; *)
(* then the data of that node (sfmc_fib_find_best).  To follow a freed     *)
(* node or a NULL prefix is undefined.                                     *)
(***************************************************************************)
Dangling(c) == {c} \ (DOMAIN node \cup {NULL})

SearchStart(a) ==
    /\ ~Searching
    /\ rd' = [NoSearch EXCEPT !.pc = IF head = NULL THEN "done" ELSE "down",
                              !.addr = a, !.at = head,
                              !.seen = Covering(routes, a), !.kept = Covering(routes, a),
                              !.hole = Hole(node, a), !.freed = Dangling(head),
                              !.removal = w.op \in {"unlink", "splice", "relink"}]
    /\ UNCHANGED <<trie, w, routes, asserts>>

Live(n) == n \notin rd.freed

Push(n) == IF node[n].prefix # NULL THEN Append(rd.stack, n) ELSE rd.stack

SearchDown ==
    LET n == rd.at IN
    /\ rd.pc = "down"
    /\ rd' = IF ~Live(n) THEN [rd EXCEPT !.pc = "undefined"]
             ELSE IF node[n].bit >= Len(rd.addr)
             THEN [rd EXCEPT !.pc = "pop", !.at = NULL, !.stack = Push(n)]
             ELSE LET c == node[n][Side(n, rd.addr)]
                  IN  [rd EXCEPT !.pc = IF c = NULL THEN "pop" ELSE "down",
                                 !.at = c, !.stack = Push(n), !.freed = @ \cup Dangling(c)]
    /\ UNCHANGED <<trie, w, routes, asserts>>

\* Mutant: only the top of the stack is compared.
SearchPopTop ==
    LET n == rd.stack[Len(rd.stack)] IN
    /\ rd.pc = "pop"
    /\ rd' = IF rd.stack = <<>> THEN [rd EXCEPT !.pc = "done"]
             ELSE IF ~Live(n) \/ node[n].prefix = NULL THEN [rd EXCEPT !.pc = "undefined"]
             ELSE IF Covers(node[n].prefix, rd.addr)
             THEN [rd EXCEPT !.pc = "data", !.at = n, !.stack = <<>>]
             ELSE [rd EXCEPT !.pc = "done"]
    /\ UNCHANGED <<trie, w, routes, asserts>>

SearchPop ==
    LET n == rd.stack[Len(rd.stack)] IN
    /\ rd.pc = "pop"
    /\ rd' = IF rd.stack = <<>> THEN [rd EXCEPT !.pc = "done"]
             ELSE IF ~Live(n) \/ node[n].prefix = NULL THEN [rd EXCEPT !.pc = "undefined"]
             ELSE IF Covers(node[n].prefix, rd.addr)
             THEN [rd EXCEPT !.pc = "data", !.at = n, !.stack = <<>>]
             ELSE [rd EXCEPT !.stack = SubSeq(@, 1, Len(@) - 1)]
    /\ UNCHANGED <<trie, w, routes, asserts>>

SearchData ==
    /\ rd.pc = "data"
    /\ rd' = IF ~Live(rd.at) THEN [rd EXCEPT !.pc = "undefined"]
             ELSE [rd EXCEPT !.pc = "done", !.res = node[rd.at].data, !.at = NULL]
    /\ UNCHANGED <<trie, w, routes, asserts>>

-------------------------------------------------------------------------------
Write ==
    \/ \E p \in Prefix :
          \/ LookupHead(p) \/ LookupFound(p) \/ LookupGlueMod(p)
          \/ LookupChild(p) \/ LookupParent(p) \/ LookupGlue(p)
          \/ RemoveInner(p) \/ RemoveLeaf(p) \/ RemoveChain(p)
    \/ InsertData \/ Unlink \/ Splice \/ Relink

Read == (\E a \in Address : SearchStart(a)) \/ SearchDown \/ SearchPop \/ SearchData

Next == Write \/ Read

Spec == Init /\ [][Next]_vars

-------------------------------------------------------------------------------
\* The assertions of patricia_lookup and patricia_remove hold, whatever routes
\* were inserted and removed before, in whatever order.
AssertsHold == asserts

\* A search that reads no freed memory returns a route that covers the address
\* and was stored while the search ran, and misses no longer one that was stored
\* all the time, however many insertions and removals it met on its way.  NULL
\* instead of a stored route means that a covering route had its node without
\* its data.
SearchRegular ==
    rd.pc = "done" =>
        IF rd.res = NULL
        THEN rd.hole \/ rd.kept = {}
        ELSE rd.res \in rd.seen /\ \A p \in rd.kept : Len(p) <= Len(rd.res)

\* Freed memory, or a prefix that was cleared, is read only by a search that a
\* removal overlapped: between two calls of the writer no link leads to what a
\* removal freed.
UndefinedOnlyByRemoval ==
    /\ rd.pc = "undefined" => rd.removal
    /\ w.op \in {"idle", "data"} =>
          \A n \in DOMAIN node : {head, node[n].l, node[n].r, node[n].parent} \subseteq DOMAIN node \cup {NULL}

\* Between two calls of the writer the trie stores exactly the routes: the
\* exact search finds each one, with its data, and nothing else.
StoresRoutes == w.op = "idle" => \A p \in Prefix : FindExact(p) = IF p \in routes THEN p ELSE NULL

\* Between two calls no node is lost and none is useless: every node hangs from
\* its parent or is the head, a node without a route has two children, and
\* num_active_node counts them.
NoWaste ==
    w.op = "idle" =>
        /\ num_active_node = Cardinality(DOMAIN node)
        /\ \A n \in DOMAIN node :
              /\ node[n].prefix = NULL => node[n].l # NULL /\ node[n].r # NULL
              /\ IF node[n].parent = NULL THEN head = n
                 ELSE n \in {node[node[n].parent].l, node[node[n].parent].r}

(***************************************************************************)
(* The inductive invariant.  nd are the nodes, hd the head and gone the    *)
(* node that was freed and to which a link still leads, if any.            *)
(***************************************************************************)
\* The link of node n on the way to p, and a place for c behind link b of n.
Way(n, p) == IF Bit(p, Len(n)) = 1 THEN "r" ELSE "l"
Below(n, b, c) == Covers(n, c) /\ Len(n) < Len(c) /\ b = Way(n, c)

\* A link leads to a node that belongs there and knows where it hangs.
Links(nd, hd, gone) ==
    /\ hd \in DOMAIN nd \cup gone \cup {NULL}
    /\ \A n \in DOMAIN nd, b \in {"l", "r"} :
          nd[n][b] # NULL =>
              /\ nd[n][b] \in DOMAIN nd \cup gone
              /\ Below(n, b, nd[n][b])
              /\ nd[n][b] \in DOMAIN nd => nd[nd[n][b]].parent = n

\* All that is stored is behind the head, and what is stored under a node is
\* behind the link on its way.
Closed(nd, hd) ==
    /\ \A m \in DOMAIN nd : hd # NULL /\ Covers(hd, m)
    /\ \A n, m \in DOMAIN nd :
          Covers(n, m) /\ n # m => nd[n][Way(n, m)] # NULL /\ Covers(nd[n][Way(n, m)], m)

\* x is the head, or hangs from u.
Hangs(nd, hd, u, x) ==
    IF u = NULL THEN hd = x ELSE u \in DOMAIN nd /\ hd # x /\ nd[u][Way(u, x)] = x

Parents(nd, hd, moved) == \A n \in DOMAIN nd \ moved : Hangs(nd, hd, nd[n].parent, n)

Tree(nd, hd, gone, moved) == Links(nd, hd, gone) /\ Closed(nd, hd) /\ Parents(nd, hd, moved)

\* What a node holds, and which nodes there are.
NodeInv ==
    /\ \A n \in DOMAIN node :
          /\ node[n].bit = Len(n)
          /\ node[n].prefix \in {NULL, n} /\ node[n].data \in {NULL, n}
          /\ node[n].data # NULL => node[n].prefix # NULL
          /\ node[n].prefix = NULL /\ ~(w.op = "splice" /\ w.pn = n)
                => node[n].l # NULL /\ node[n].r # NULL
    /\ routes = {n \in DOMAIN node : node[n].data # NULL}
    /\ IsFiniteSet(DOMAIN node) /\ num_active_node = Cardinality(DOMAIN node)

TreeInv ==
    IF w.op \in {"unlink", "relink"} THEN Tree(node, head, {w.pn}, {w.child})
    ELSE Tree(node, head, {}, {})

\* The freed node hangs from w.up alone; what was under it is under its child.
Loose ==
    /\ w.pn \in Bits \ DOMAIN node
    /\ Hangs(node, head, w.up, w.pn)
    /\ \A n \in DOMAIN node, b \in {"l", "r"} : node[n][b] = w.pn => n = w.up
    /\ w.child # NULL =>
          w.child \in DOMAIN node /\ Covers(w.pn, w.child) /\ node[w.child].parent = w.up
    /\ \A m \in DOMAIN node : Covers(w.pn, m) => w.child # NULL /\ Covers(w.child, m)

\* What the writer knows between its steps.
WriterInv ==
    /\ w.op = "data" => w.pn \in Prefix \cap DOMAIN node /\ node[w.pn].prefix # NULL
    /\ w.op \in {"unlink", "relink"} => Loose
    /\ w.op = "unlink" => w.child = NULL
    /\ w.op = "relink" => w.child # NULL
    /\ w.op = "splice" =>
          /\ {w.pn, w.child} \subseteq DOMAIN node
          /\ node[w.pn].prefix = NULL /\ node[w.pn].parent = w.up
          /\ {node[w.pn].l, node[w.pn].r} = {NULL, w.child}

\* A route that is stored all the time is on the stack, or the search is still
\* above it.  The stack is ordered; what the search holds is there or marked.
SearchInv ==
    Searching =>
        /\ rd.addr \in Address /\ rd.res = NULL
        /\ rd.kept \subseteq Covering(routes, rd.addr)
        /\ Covering(routes, rd.addr) \subseteq rd.seen
        /\ Hole(node, rd.addr) => rd.hole
        /\ Stacked \subseteq DOMAIN node \cup rd.freed
        /\ \A i, j \in DOMAIN rd.stack : i < j => Len(rd.stack[i]) < Len(rd.stack[j])
        /\ rd.pc = "down" =>
              /\ rd.at \in DOMAIN node \cup rd.freed
              /\ \A i \in DOMAIN rd.stack : Len(rd.stack[i]) < Len(rd.at)
              /\ \A k \in rd.kept : k \in Stacked \/ Covers(rd.at, k)
        /\ rd.pc = "pop" => rd.kept \subseteq Stacked
        /\ rd.pc = "data" =>
              /\ rd.at \in DOMAIN node \cup rd.freed
              /\ Covers(rd.at, rd.addr)
              /\ \A k \in rd.kept : Len(k) <= Len(rd.at)
              /\ rd.at \notin rd.freed /\ node[rd.at].data = NULL => rd.hole
        /\ ~rd.removal =>
              /\ w.op \in {"idle", "data"} /\ rd.freed = {}
              /\ \A n \in Stacked : node[n].prefix # NULL

IInv ==
    /\ TypeOK /\ NodeInv /\ TreeInv /\ WriterInv /\ SearchInv
    /\ AssertsHold /\ SearchRegular /\ (rd.pc = "undefined" => rd.removal)
===============================================================================
