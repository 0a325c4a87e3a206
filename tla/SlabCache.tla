----------------------------- MODULE SlabCache ------------------------------
(***************************************************************************)
(* Caches of objects of one size (kernel/mm/slab.c).  A slab is a page cut *)
(* into objects, a bitmap of those in use and a count of the free ones; it *)
(* is in one of its cache's lists, newest first.  Clients give back only   *)
(* what they hold.  slabs_free is left out: no step puts a slab there,     *)
(* since a count that reaches 1 is found before one that reaches the       *)
(* maximum, and only full slabs are searched.                              *)
(***************************************************************************)
EXTENDS Integers, Sequences, SequencesExt, FiniteSets

CONSTANTS
  ObjsOfSize, \* object size |-> 4096 divided by it; one cache is made per size
  BitmapBits, \* bits of free_bitmap
  SlabPages   \* pages that pmm_alloc_frame can give

ASSUME SlabAssumption ==
  /\ DOMAIN ObjsOfSize \subseteq Nat /\ SlabPages \in Nat /\ BitmapBits \in Nat \ {0}
  /\ \A s \in DOMAIN ObjsOfSize : ObjsOfSize[s] \in Nat \ {0}

VARIABLES
  cache_chain,   \* sizes of the caches made so far, newest first
  slabs_partial, \* cache |-> sequence of slabs with a free object
  slabs_full,    \* cache |-> sequence of slabs without
  pagesUsed,     \* pages taken for slabs
  heldObjects    \* history: <<page, index>> of the objects clients hold

slabVars == <<cache_chain, slabs_partial, slabs_full, pagesUsed, heldObjects>>

Caches == DOMAIN ObjsOfSize
Bits == 0..(BitmapBits - 1)
MaxObjs_Uncut(c) == ObjsOfSize[c]
MaxObjs(c) == IF ObjsOfSize[c] > BitmapBits THEN BitmapBits ELSE ObjsOfSize[c]

SlabInit ==
  /\ cache_chain = <<>>
  /\ slabs_partial = [c \in Caches |-> <<>>]
  /\ slabs_full = [c \in Caches |-> <<>>]
  /\ pagesUsed = 0
  /\ heldObjects = {}

CacheCreate(c) ==
  /\ c \notin ToSet(cache_chain)
  /\ cache_chain' = <<c>> \o cache_chain
  /\ UNCHANGED <<slabs_partial, slabs_full, pagesUsed, heldObjects>>

\* slab_create
NewSlab(c) == [s_mem |-> pagesUsed, free_bitmap |-> {}, objects_free |-> MaxObjs(c)]

\* The first bit that is 0
FirstBit(slab) ==
  CHOOSE i \in Bits \ slab.free_bitmap : \A j \in Bits \ slab.free_bitmap : i <= j

\* kmem_cache_alloc; without a page the code writes through a null pointer
CacheAlloc(c) ==
  /\ c \in ToSet(cache_chain)
  /\ slabs_partial[c] = <<>> => pagesUsed < SlabPages
  /\ LET fresh == slabs_partial[c] = <<>>
         list == IF fresh THEN <<NewSlab(c)>> ELSE slabs_partial[c]
         i == FirstBit(list[1])
         slab == [list[1] EXCEPT !.free_bitmap = @ \union {i}, !.objects_free = @ - 1]
     IN /\ IF slab.objects_free = 0
           THEN /\ slabs_partial' = [slabs_partial EXCEPT ![c] = Tail(list)]
                /\ slabs_full' = [slabs_full EXCEPT ![c] = <<slab>> \o @]
           ELSE /\ slabs_partial' = [slabs_partial EXCEPT ![c] = <<slab>> \o Tail(list)]
                /\ UNCHANGED slabs_full
        /\ heldObjects' = heldObjects \union {<<c, slab.s_mem, i>>}
        /\ pagesUsed' = IF fresh THEN pagesUsed + 1 ELSE pagesUsed
  /\ UNCHANGED cache_chain

FreedSlab_KeepsCount(slab, i) == [slab EXCEPT !.free_bitmap = @ \ {i}]

\* The slab of a freed object is moved when it has one free object again
FreedSlab(slab, i) ==
  [slab EXCEPT !.free_bitmap = @ \ {i}, !.objects_free = @ + 1]

\* kmem_cache_free: looks among the full slabs only; an object of a partial slab
\* stays marked for ever
CacheFree(c, page, i) ==
  /\ <<c, page, i>> \in heldObjects
  /\ heldObjects' = heldObjects \ {<<c, page, i>>}
  /\ LET hit == { k \in DOMAIN slabs_full[c] : slabs_full[c][k].s_mem = page } IN
     IF hit = {} THEN UNCHANGED <<slabs_partial, slabs_full>>
     ELSE LET k == CHOOSE k \in hit : TRUE
              slab == FreedSlab(slabs_full[c][k], i)
          IN IF slab.objects_free = 1
             THEN /\ slabs_full' = [slabs_full EXCEPT ![c] = RemoveAt(@, k)]
                  /\ slabs_partial' = [slabs_partial EXCEPT ![c] = <<slab>> \o @]
             ELSE /\ slabs_full' = [slabs_full EXCEPT ![c][k] = slab]
                  /\ UNCHANGED slabs_partial
  /\ UNCHANGED <<cache_chain, pagesUsed>>

SlabNext ==
  \/ \E c \in Caches : CacheCreate(c) \/ CacheAlloc(c)
  \/ \E o \in heldObjects : CacheFree(o[1], o[2], o[3])

SlabTypeOK ==
  /\ pagesUsed \in 0..SlabPages
  /\ \A c \in Caches : \A s \in ToSet(slabs_partial[c] \o slabs_full[c]) :
       s.free_bitmap \subseteq Bits /\ s.objects_free \in Nat

-----------------------------------------------------------------------------
\* Nothing is given out twice: every page is in one list of one cache, the count of
\* free objects is what the bitmap says and is 0 exactly in the full list, and every
\* held object is marked and inside its page.
SlabsSound ==
  LET slabs(c) == slabs_partial[c] \o slabs_full[c] IN
  /\ \A c \in Caches : \A k \in DOMAIN slabs(c) :
       LET s == slabs(c)[k] IN
       /\ s.objects_free = MaxObjs(c) - Cardinality(s.free_bitmap)
       /\ (s.objects_free = 0) <=> (k > Len(slabs_partial[c]))
       /\ \A d \in Caches : \A l \in DOMAIN slabs(d) :
            slabs(d)[l].s_mem = s.s_mem => c = d /\ k = l
  /\ \A o \in heldObjects :
       /\ o[3] < ObjsOfSize[o[1]]
       /\ \E s \in ToSet(slabs(o[1])) : s.s_mem = o[2] /\ o[3] \in s.free_bitmap
=============================================================================
