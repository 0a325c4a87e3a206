------------------------------ MODULE LruLists ------------------------------
(***************************************************************************)
(* The active and the inactive list of pages (drivers/lru/multilru.c):     *)
(* doubly linked, newest first, with a count.  A page is touched while it  *)
(* is in memory, that is between lru_add_page and its eviction.            *)
(***************************************************************************)
EXTENDS Integers, FiniteSets

CONSTANTS LruPages, NULL
ASSUME LruAssumption == NULL \notin LruPages /\ IsFiniteSet(LruPages)

VARIABLES
  lists,    \* "active", "inactive" |-> [head, tail, count]
  links,    \* page |-> [next, prev, status, referenced]
  inMemory  \* history: pages that were added and not evicted

lruVars == <<lists, links, inMemory>>
ListNames == {"active", "inactive"}

LruInit ==
  /\ lists = [l \in ListNames |-> [head |-> NULL, tail |-> NULL, count |-> 0]]
  /\ links = [p \in LruPages |->
                [next |-> NULL, prev |-> NULL, status |-> "inactive", referenced |-> FALSE]]
  /\ inMemory = {}

\* Both lists and all links, as one value
Memory == [lists |-> lists, links |-> links]

\* list_add_head
AddHead(m, l, p) ==
  LET head == m.lists[l].head IN
  [lists |-> [m.lists EXCEPT ![l] = [head |-> p, tail |-> IF @.tail = NULL THEN p ELSE @.tail,
                                     count |-> @.count + 1]],
   links |-> [q \in LruPages |->
                IF q = p THEN [m.links[p] EXCEPT !.next = head, !.prev = NULL]
                ELSE IF q = head THEN [m.links[q] EXCEPT !.prev = p] ELSE m.links[q]]]

ListRemove_KeepsTail(m, l, p) ==
  LET n == m.links[p].next  v == m.links[p].prev IN
  [lists |-> [m.lists EXCEPT ![l] = [head |-> IF v = NULL THEN n ELSE @.head,
                                     tail |-> @.tail, count |-> @.count - 1]],
   links |-> [q \in LruPages |->
                IF q = p THEN [m.links[p] EXCEPT !.next = NULL, !.prev = NULL]
                ELSE IF q = v THEN [m.links[q] EXCEPT !.next = n]
                ELSE IF q = n THEN [m.links[q] EXCEPT !.prev = v] ELSE m.links[q]]]

\* list_remove
ListRemove(m, l, p) ==
  LET n == m.links[p].next  v == m.links[p].prev IN
  [lists |-> [m.lists EXCEPT ![l] = [head |-> IF v = NULL THEN n ELSE @.head,
                                     tail |-> IF n = NULL THEN v ELSE @.tail,
                                     count |-> @.count - 1]],
   links |-> [q \in LruPages |->
                IF q = p THEN [m.links[p] EXCEPT !.next = NULL, !.prev = NULL]
                ELSE IF q = v THEN [m.links[q] EXCEPT !.next = n]
                ELSE IF q = n THEN [m.links[q] EXCEPT !.prev = v] ELSE m.links[q]]]

Mark(m, p, status, referenced) ==
  [m EXCEPT !.links[p].status = status, !.links[p].referenced = referenced]

Becomes(m) == lists' = m.lists /\ links' = m.links

LruAddPage(p) ==
  /\ p \notin inMemory
  /\ Becomes(AddHead(Mark(Memory, p, "inactive", FALSE), "inactive", p))
  /\ inMemory' = inMemory \union {p}

\* lru_touch_page: the second touch promotes
LruTouchPage(p) ==
  /\ p \in inMemory
  /\ UNCHANGED inMemory
  /\ IF links[p].status = "active"
     THEN Becomes(AddHead(ListRemove(Memory, "active", p), "active", p))
     ELSE IF links[p].referenced
     THEN Becomes(AddHead(Mark(ListRemove(Memory, "inactive", p), p, "active", FALSE), "active", p))
     ELSE Becomes(Mark(Memory, p, "inactive", TRUE))

\* demote_active_pages: the oldest active page, if there is one
Demoted ==
  LET p == lists["active"].tail IN
  IF p = NULL THEN Memory
  ELSE AddHead(Mark(ListRemove(Memory, "active", p), p, "inactive", FALSE), "inactive", p)

LruEvictPage ==
  LET m == IF lists["inactive"].count = 0 THEN Demoted ELSE Memory
      victim == m.lists["inactive"].tail
  IN IF victim = NULL THEN Becomes(m) /\ UNCHANGED inMemory
     ELSE Becomes(ListRemove(m, "inactive", victim)) /\ inMemory' = inMemory \ {victim}

LruNext == (\E p \in LruPages : LruAddPage(p) \/ LruTouchPage(p)) \/ LruEvictPage

LruTypeOK ==
  /\ inMemory \subseteq LruPages
  /\ \A p \in LruPages : links[p].status \in ListNames /\ links[p].referenced \in BOOLEAN

-----------------------------------------------------------------------------
\* The n-th page from one end of a list
Walk(l, start, step) ==
  LET w[n \in 1..(Cardinality(LruPages) + 1)] ==
        IF n = 1 THEN start ELSE IF w[n - 1] = NULL THEN NULL ELSE links[w[n - 1]][step]
  IN w

\* A walk from the head and one from the tail meet the same pages in opposite
\* orders, count of them, each with the status of its list; every page in memory
\* is in a list, and eviction finds a page as long as there is one.
ListsSound ==
  \A l \in ListNames :
    LET there == Walk(l, lists[l].head, "next")
        back == Walk(l, lists[l].tail, "prev")
        members == { p \in inMemory : links[p].status = l }
        n == Cardinality(members)
    IN /\ lists[l].count = n /\ there[n + 1] = NULL /\ back[n + 1] = NULL
       /\ { there[i] : i \in 1..n } = members
       /\ \A i \in 1..n : there[i] = back[n + 1 - i]
=============================================================================
