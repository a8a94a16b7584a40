------------------------------ MODULE GrantCache ------------------------------
(***************************************************************************)
(* The persistent-grant cache of one BlkCmdRingBuffer (BlkBackend.cpp).    *)
(* A frontend names a page of its memory by a grant reference; the backend *)
(* maps the page the first time a request names it, keeps it mapped, and   *)
(* evicts the least recently used pages when the cache is full.            *)
(*                                                                         *)
(* The grant tables are Xen's: grants is what the frontend has granted,    *)
(* mapped is what the backend has mapped and has not unmapped.  Xen lets a *)
(* frontend take a grant back only while nobody has it mapped.             *)
(***************************************************************************)
EXTENDS Integers, Sequences, FiniteSets, SequencesExt

CONSTANTS
  Gref,     \* the grant references a frontend uses
  Frame,    \* the pages of the frontend
  Addr,     \* the addresses a page can be mapped at
  NoFrame,  \* the entry of a grant reference that grants nothing
  nullptr,  \* what a failed mapping returns
  MAX_PGRANTS_PER_FRONTEND,  \* 1024 in the code
  GRANT_EVICTION_SIZE        \* div_round_up(MAX_PGRANTS_PER_FRONTEND * 5, 100), 52 in the code

ASSUME CacheSizes ==
  /\ MAX_PGRANTS_PER_FRONTEND \in Nat
  /\ GRANT_EVICTION_SIZE \in 1 .. MAX_PGRANTS_PER_FRONTEND - 1

ASSUME CacheNulls == nullptr \notin Addr /\ NoFrame \notin Frame

VARIABLES
  mGntLru,  \* the std::list of mapped pages, most recently used first
  mGntMap,  \* grant reference -> the list node of its page
  mapped,   \* Xen: address -> the grant and the frame mapped there
  grants    \* Xen: grant reference -> the frame it grants, or NoFrame

cacheVars == <<mGntLru, mGntMap, mapped, grants>>

(* A list node never moves in memory, and two nodes of the list differ in   *)
(* their address, so an iterator is modelled by the page it points to.      *)
Page == [gref : Gref, addr : Addr]
Mapping == [gref : Gref, frame : Frame]

CacheInit ==
  /\ mGntLru = <<>>
  /\ mGntMap = [g \in {} |-> nullptr]
  /\ mapped = [a \in {} |-> nullptr]
  /\ grants \in [Gref -> Frame \cup {NoFrame}]

-----------------------------------------------------------------------------
(* What one call of the cache works on, threaded through its steps. *)
Cache == [lru |-> mGntLru, map |-> mGntMap, mapped |-> mapped]

Becomes(c) ==
  /\ mGntLru' = c.lru
  /\ mGntMap' = c.map
  /\ mapped' = c.mapped

Without(f, S) == Restrict(f, DOMAIN f \ S)

(* How many pages evictGrants leaves in the cache. *)
KeepSize == MAX_PGRANTS_PER_FRONTEND - GRANT_EVICTION_SIZE

(* The pages evictGrants takes from the back of the list. *)
Evicted(lru) == {lru[i] : i \in KeepSize + 1 .. Len(lru)}

(* Mutants: the index keeps the evicted references; the pages stay mapped;   *)
(* one page more is unmapped than leaves the list; the first pages go.       *)
EvictGrantsIndexed(c) ==
  [lru    |-> SubSeq(c.lru, 1, KeepSize),
   map    |-> c.map,
   mapped |-> Without(c.mapped, {p.addr : p \in Evicted(c.lru)})]

EvictGrantsMapped(c) ==
  [lru    |-> SubSeq(c.lru, 1, KeepSize),
   map    |-> Without(c.map, {p.gref : p \in Evicted(c.lru)}),
   mapped |-> c.mapped]

EvictGrantsOneMore(c) ==
  [lru    |-> SubSeq(c.lru, 1, KeepSize),
   map    |-> Without(c.map, {p.gref : p \in Evicted(c.lru)}),
   mapped |-> Without(c.mapped, {c.lru[KeepSize].addr} \cup {p.addr : p \in Evicted(c.lru)})]

EvictGrantsFront(c) ==
  LET gone == {c.lru[i] : i \in 1 .. GRANT_EVICTION_SIZE}
  IN  [lru    |-> SubSeq(c.lru, GRANT_EVICTION_SIZE + 1, Len(c.lru)),
       map    |-> Without(c.map, {p.gref : p \in gone}),
       mapped |-> Without(c.mapped, {p.addr : p \in gone})]

EvictGrants(c) ==
  [lru    |-> SubSeq(c.lru, 1, IF Len(c.lru) > KeepSize THEN KeepSize ELSE Len(c.lru)),
   map    |-> Without(c.map, {p.gref : p \in Evicted(c.lru)}),
   mapped |-> Without(c.mapped, {p.addr : p \in Evicted(c.lru)})]

(* Mutant: the page stays where it is. *)
SpliceNothing(lru, page) == lru

(* mGntLru.splice(mGntLru.begin(), mGntLru, it): the node moves to the front. *)
Splice(lru, page) ==
  LET i == CHOOSE j \in DOMAIN lru : lru[j] = page
  IN  [k \in DOMAIN lru |-> IF k = 1 THEN lru[i] ELSE IF k <= i THEN lru[k - 1] ELSE lru[k]]

(* Mutant: the page goes into the list before it has an address. *)
MapGrantLate(c, gref, a) ==
  [lru    |-> Cons([gref |-> gref, addr |-> nullptr], c.lru),
   map    |-> [g \in DOMAIN c.map \cup {gref} |->
                 IF g = gref THEN [gref |-> gref, addr |-> a] ELSE c.map[g]],
   mapped |-> [b \in DOMAIN c.mapped \cup {a} |->
                 IF b = a THEN [gref |-> gref, frame |-> grants[gref]] ELSE c.mapped[b]]]

(* mapGrant after page.map succeeded at address a.  try_emplace changes      *)
(* nothing when the reference is already in the map; the page is then        *)
(* unmapped again, but stays in the list.                                    *)
MapGrant(c, gref, a) ==
  LET page == [gref |-> gref, addr |-> a]
      inserted == gref \notin DOMAIN c.map
  IN  [lru    |-> Cons(page, c.lru),
       map    |-> IF inserted THEN [g \in DOMAIN c.map \cup {gref} |->
                                      IF g = gref THEN page ELSE c.map[g]]
                  ELSE c.map,
       mapped |-> IF inserted THEN [b \in DOMAIN c.mapped \cup {a} |->
                                      IF b = a THEN [gref |-> gref, frame |-> grants[gref]]
                                      ELSE c.mapped[b]]
                  ELSE c.mapped]

(* Mutant: the test comes one page too late. *)
CacheOverfull == Len(mGntLru) > MAX_PGRANTS_PER_FRONTEND

CacheFull == Len(mGntLru) = MAX_PGRANTS_PER_FRONTEND

(* addGrant(gref) returns virt: the page is in the cache and is moved to the *)
(* front of the list, or it is mapped, after an eviction if the cache is     *)
(* full.  Mapping fails if nothing is granted, or as the hypervisor decides. *)
AddGrant(gref, virt) ==
  /\ \/ /\ gref \in DOMAIN mGntMap
        /\ virt = mGntMap[gref].addr
        /\ Becomes([Cache EXCEPT !.lru = Splice(mGntLru, mGntMap[gref])])
     \/ /\ gref \notin DOMAIN mGntMap
        /\ LET c == IF CacheFull THEN EvictGrants(Cache) ELSE Cache
           IN  \/ /\ virt = nullptr
                  /\ Becomes(c)
               \/ /\ grants[gref] # NoFrame
                  /\ \E a \in Addr \ DOMAIN c.mapped :
                       /\ virt = IF gref \in DOMAIN c.map THEN nullptr ELSE a
                       /\ Becomes(MapGrant(c, gref, a))
  /\ UNCHANGED grants

(* Mutant: the list is cleared, the pages stay mapped. *)
ForgetGrants ==
  /\ Becomes([lru |-> <<>>, map |-> [g \in {} |-> nullptr], mapped |-> mapped])
  /\ UNCHANGED grants

(* freeGrants, called by the destructor of the ring; a new ring starts with *)
(* the empty cache this leaves.                                             *)
FreeGrants ==
  /\ Becomes([lru    |-> <<>>,
              map    |-> [g \in {} |-> nullptr],
              mapped |-> Without(mapped, {mGntLru[i].addr : i \in DOMAIN mGntLru})])
  /\ UNCHANGED grants

-----------------------------------------------------------------------------
(* The frontend and Xen. *)
InUse(g) == \E a \in DOMAIN mapped : mapped[a].gref = g

GrantAccess(g, f) ==
  /\ grants[g] = NoFrame
  /\ grants' = [grants EXCEPT ![g] = f]
  /\ UNCHANGED <<mGntLru, mGntMap, mapped>>

EndAccess(g) ==
  /\ grants[g] # NoFrame
  /\ ~InUse(g)
  /\ grants' = [grants EXCEPT ![g] = NoFrame]
  /\ UNCHANGED <<mGntLru, mGntMap, mapped>>

-----------------------------------------------------------------------------
CacheNext ==
  \/ \E g \in Gref, virt \in Addr \cup {nullptr} : AddGrant(g, virt)
  \/ FreeGrants
  \/ \E g \in Gref, f \in Frame : GrantAccess(g, f)
  \/ \E g \in Gref : EndAccess(g)

CacheSpec == CacheInit /\ [][CacheNext]_cacheVars

-----------------------------------------------------------------------------
(* Every page in the list, every node in the index and every mapping has    *)
(* its type; in particular no page without an address is ever kept.         *)
CacheTypeOK ==
  /\ mGntLru \in Seq(Page)
  /\ DOMAIN mGntMap \subseteq Gref
  /\ \A g \in DOMAIN mGntMap : mGntMap[g] \in Page
  /\ DOMAIN mapped \subseteq Addr
  /\ \A a \in DOMAIN mapped : mapped[a] \in Mapping
  /\ grants \in [Gref -> Frame \cup {NoFrame}]

(* mGntMap is the exact index of mGntLru: each reference it holds leads to   *)
(* the one page of the list with that reference (no iterator dangles), and   *)
(* no page of the list is missing from it (addGrant would map it twice).     *)
IndexExact ==
  /\ \A g \in DOMAIN mGntMap : mGntMap[g].gref = g /\ \E i \in DOMAIN mGntLru : mGntLru[i] = mGntMap[g]
  /\ \A i \in DOMAIN mGntLru : /\ mGntLru[i].gref \in DOMAIN mGntMap
                               /\ mGntMap[mGntLru[i].gref] = mGntLru[i]
  /\ \A i, j \in DOMAIN mGntLru : mGntLru[i] = mGntLru[j] => i = j

(* The backend holds a mapping for each page of the cache and for no other:  *)
(* nothing stays mapped after its page was evicted or freed (the frontend    *)
(* could never take that grant back), no two pages share an address, and no  *)
(* cached address is unmapped.                                               *)
MappingsCached ==
  /\ DOMAIN mapped = {mGntLru[i].addr : i \in DOMAIN mGntLru}
  /\ \A i, j \in DOMAIN mGntLru : mGntLru[i].addr = mGntLru[j].addr => i = j

(* A cached address always reaches the page its grant reference grants now,  *)
(* although the frontend may grant other pages under references that were    *)
(* evicted, and evicted addresses are mapped again for other references.     *)
Coherent ==
  \A i \in DOMAIN mGntLru :
    /\ mGntLru[i].addr \in DOMAIN mapped
    /\ mapped[mGntLru[i].addr] = [gref |-> mGntLru[i].gref, frame |-> grants[mGntLru[i].gref]]

(* addGrant tests the size for equality with the limit, so the cache must    *)
(* never step over it: no more than MAX_PGRANTS_PER_FRONTEND grants are      *)
(* mapped for a frontend at any time.                                        *)
MappedBounded ==
  /\ Len(mGntLru) <= MAX_PGRANTS_PER_FRONTEND
  /\ Cardinality(DOMAIN mapped) <= MAX_PGRANTS_PER_FRONTEND

(* Until the ring is destroyed, a step unmaps none of the KeepSize pages     *)
(* used last: a caller may keep the address of one while it adds others.     *)
RecentStayMapped ==
  [][\/ FreeGrants
     \/ \A i \in DOMAIN mGntLru : i <= KeepSize =>
          /\ mGntLru[i].addr \in DOMAIN mapped'
          /\ mapped'[mGntLru[i].addr] = mapped[mGntLru[i].addr]]_cacheVars
=============================================================================
