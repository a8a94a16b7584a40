--------------------------- MODULE GrantCacheProofs ---------------------------
(* The invariants of GrantCache, proved for caches of every size. *)
EXTENDS GrantCache, SequenceTheorems, FiniteSetTheorems, TLAPS

(* Consing, truncating and moving to the front, position by position. *)
LEMMA ConsProperties ==
  ASSUME NEW s \in Seq(Page), NEW e \in Page
  PROVE  /\ Cons(e, s) \in Seq(Page)
         /\ Len(Cons(e, s)) = Len(s) + 1
         /\ \A k \in 1 .. Len(s) + 1 : Cons(e, s)[k] = IF k = 1 THEN e ELSE s[k - 1]
<1>1. <<e>> \in Seq(Page) /\ Len(<<e>>) = 1 /\ <<e>>[1] = e
  OBVIOUS
<1>2. QED
  BY <1>1, ConcatProperties DEF Cons

LEMMA TruncateProperties ==
  ASSUME NEW s \in Seq(Page), NEW n \in 0 .. Len(s)
  PROVE  /\ SubSeq(s, 1, n) \in Seq(Page)
         /\ Len(SubSeq(s, 1, n)) = n
         /\ \A k \in 1 .. n : SubSeq(s, 1, n)[k] = s[k]
<1>1. \A k \in 1 .. n : s[k] \in Page
  BY ElementOfSeq, LenProperties
<1>2. QED
  BY <1>1, SubSeqProperties, LenProperties

(* Splice reorders the list: its page comes first and no other moves back by *)
(* more than one.                                                            *)
Reordered(s, t) ==
  /\ t \in Seq(Page)
  /\ Len(t) = Len(s)
  /\ \A k \in 1 .. Len(s) : \E l \in 1 .. Len(s) : t[k] = s[l]
  /\ \A l \in 1 .. Len(s) : \E k \in 1 .. Len(s) : t[k] = s[l] /\ k <= l + 1
  /\ \A k1, k2, l \in 1 .. Len(s) :
       (\A l1, l2 \in 1 .. Len(s) : s[l1] = s[l2] => l1 = l2) /\ t[k1] = s[l] /\ t[k2] = s[l] => k1 = k2

LEMMA SpliceReorders ==
  ASSUME NEW s \in Seq(Page), NEW m \in 1 .. Len(s), NEW t, t = Splice(s, s[m])
  PROVE  Reordered(s, t) /\ t[1] = s[m]
<1>1. Len(s) \in Nat /\ DOMAIN s = 1 .. Len(s) /\ \A k \in 1 .. Len(s) : s[k] \in Page
  BY LenProperties, ElementOfSeq
<1>2. PICK i \in 1 .. Len(s) : i = CHOOSE j \in DOMAIN s : s[j] = s[m]
  BY <1>1
<1>3. s[i] = s[m]
  BY <1>1, <1>2
<1>4. t = [k \in 1 .. Len(s) |-> IF k = 1 THEN s[i] ELSE IF k <= i THEN s[k - 1] ELSE s[k]]
  BY <1>1, <1>2 DEF Splice
<1>5. \A k \in 1 .. Len(s) : t[k] = IF k = 1 THEN s[i] ELSE IF k <= i THEN s[k - 1] ELSE s[k]
  BY <1>4
<1>6. \A k \in 1 .. Len(s) : t[k] \in Page
  BY <1>1, <1>5
<1>7. t \in Seq(Page) /\ Len(t) = Len(s)
  <2>1. t \in [1 .. Len(s) -> Page]
    BY <1>4, <1>6
  <2>2. t \in Seq(Page)
    BY <1>1, <2>1, SeqDef
  <2>3. DOMAIN t = 1 .. Len(s)
    BY <2>1
  <2>4. QED
    BY <1>1, <2>2, <2>3, LenProperties
<1>8. ASSUME NEW k \in 1 .. Len(s)
      PROVE  \E l \in 1 .. Len(s) : t[k] = s[l]
  <2>1. CASE k = 1
    BY <1>5, <2>1
  <2>2. CASE k # 1 /\ k <= i
    <3>1. k - 1 \in 1 .. Len(s) /\ t[k] = s[k - 1]
      BY <1>1, <1>5, <2>2
    <3>2. QED
      BY <3>1
  <2>3. CASE k # 1 /\ ~(k <= i)
    BY <1>5, <2>3
  <2>4. QED
    BY <2>1, <2>2, <2>3
<1>9. ASSUME NEW l \in 1 .. Len(s)
      PROVE  \E k \in 1 .. Len(s) : t[k] = s[l] /\ k <= l + 1
  <2>1. CASE l = i
    <3>1. 1 \in 1 .. Len(s) /\ t[1] = s[l] /\ 1 <= l + 1
      BY <1>1, <1>5, <2>1
    <3>2. QED
      BY <3>1
  <2>2. CASE l < i
    <3>1. l + 1 \in 1 .. Len(s) /\ t[l + 1] = s[(l + 1) - 1] /\ (l + 1) - 1 = l /\ l + 1 <= l + 1
      BY <1>1, <1>5, <2>2
    <3>2. QED
      BY <3>1
  <2>3. CASE l > i
    <3>1. t[l] = s[l] /\ l <= l + 1
      BY <1>1, <1>5, <2>3
    <3>2. QED
      BY <3>1
  <2>4. QED
    BY <1>1, <2>1, <2>2, <2>3
<1>10. ASSUME \A l1, l2 \in 1 .. Len(s) : s[l1] = s[l2] => l1 = l2,
              NEW k1 \in 1 .. Len(s), NEW k2 \in 1 .. Len(s), t[k1] = t[k2]
       PROVE  k1 = k2
  <2> DEFINE Src(k) == IF k = 1 THEN i ELSE IF k <= i THEN k - 1 ELSE k
  <2>1. /\ Src(k1) \in 1 .. Len(s) /\ t[k1] = s[Src(k1)]
        /\ Src(k2) \in 1 .. Len(s) /\ t[k2] = s[Src(k2)]
    BY <1>1, <1>5
  <2>2. Src(k1) = Src(k2)
    BY <1>10, <2>1
  <2>3. QED
    BY <1>1, <2>2
<1>11. \A k1, k2, l \in 1 .. Len(s) :
         (\A l1, l2 \in 1 .. Len(s) : s[l1] = s[l2] => l1 = l2) /\ t[k1] = s[l] /\ t[k2] = s[l] => k1 = k2
  <2>1. SUFFICES ASSUME NEW k1 \in 1 .. Len(s), NEW k2 \in 1 .. Len(s), NEW l \in 1 .. Len(s),
                        \A l1, l2 \in 1 .. Len(s) : s[l1] = s[l2] => l1 = l2,
                        t[k1] = s[l], t[k2] = s[l]
                 PROVE  k1 = k2
    OBVIOUS
  <2>2. t[k1] = t[k2]
    BY <2>1
  <2>3. QED
    BY <1>10, <2>1, <2>2
<1>12. t[1] = s[m]
  BY <1>1, <1>3, <1>5
<1>13. QED
  BY <1>7, <1>8, <1>9, <1>11, <1>12 DEF Reordered

-----------------------------------------------------------------------------
(* The inductive invariant, stated of a cache c so that it can be followed   *)
(* through the calls addGrant is made of.  The list has no two pages with    *)
(* one reference or one address; the index and the grant tables are images   *)
(* of the list.                                                              *)
NoDuplicates(c) ==
  /\ c.lru \in Seq(Page)
  /\ \A i, j \in 1 .. Len(c.lru) : c.lru[i].gref = c.lru[j].gref => i = j
  /\ \A i, j \in 1 .. Len(c.lru) : c.lru[i].addr = c.lru[j].addr => i = j

Indexed(c) ==
  /\ DOMAIN c.map = {c.lru[i].gref : i \in 1 .. Len(c.lru)}
  /\ \A i \in 1 .. Len(c.lru) : c.map[c.lru[i].gref] = c.lru[i]

Mapped(c) ==
  /\ DOMAIN c.mapped = {c.lru[i].addr : i \in 1 .. Len(c.lru)}
  /\ \A i \in 1 .. Len(c.lru) :
       /\ grants[c.lru[i].gref] \in Frame
       /\ c.mapped[c.lru[i].addr] = [gref |-> c.lru[i].gref, frame |-> grants[c.lru[i].gref]]

Consistent(c) == NoDuplicates(c) /\ Indexed(c) /\ Mapped(c)

CacheInv ==
  /\ Consistent(Cache)
  /\ Len(mGntLru) <= MAX_PGRANTS_PER_FRONTEND
  /\ grants \in [Gref -> Frame \cup {NoFrame}]

LEMMA KeepSizeType == KeepSize \in Nat /\ KeepSize < MAX_PGRANTS_PER_FRONTEND
  BY CacheSizes DEF KeepSize

LEMMA PageType ==
  ASSUME NEW c, NoDuplicates(c), NEW i \in 1 .. Len(c.lru)
  PROVE  c.lru[i] \in Page /\ c.lru[i].gref \in Gref /\ c.lru[i].addr \in Addr
<1>1. c.lru[i] \in Page
  BY ElementOfSeq, Zenon DEF NoDuplicates
<1>2. QED
  BY <1>1 DEF Page

(* evictGrants keeps a prefix of the list, and only its references and       *)
(* mappings.                                                                 *)
LEMMA EvictConsistent ==
  ASSUME NEW c, Consistent(c)
  PROVE  /\ Consistent(EvictGrants(c))
         /\ Len(EvictGrants(c).lru) <= KeepSize
         /\ \A i \in 1 .. Len(c.lru) : i <= KeepSize =>
              /\ c.lru[i].addr \in DOMAIN EvictGrants(c).mapped
              /\ EvictGrants(c).mapped[c.lru[i].addr] = c.mapped[c.lru[i].addr]
<1>1. PICK n \in 0 .. Len(c.lru) :
        /\ n = IF Len(c.lru) > KeepSize THEN KeepSize ELSE Len(c.lru)
        /\ n <= KeepSize
        /\ \A i \in 1 .. Len(c.lru) : i <= n <=> i <= KeepSize
  BY KeepSizeType, LenProperties DEF Consistent, NoDuplicates
<1>2. c.lru \in Seq(Page) /\ Len(c.lru) \in Nat
  BY LenProperties DEF Consistent, NoDuplicates
<1>3. /\ EvictGrants(c).lru \in Seq(Page)
      /\ Len(EvictGrants(c).lru) = n
      /\ \A k \in 1 .. n : EvictGrants(c).lru[k] = c.lru[k]
  <2>1. EvictGrants(c).lru = SubSeq(c.lru, 1, n)
    BY <1>1 DEF EvictGrants
  <2>2. QED
    BY <1>1, <1>2, <2>1, TruncateProperties
<1>4. Evicted(c.lru) = {c.lru[i] : i \in n + 1 .. Len(c.lru)}
  BY <1>1, <1>2, KeepSizeType DEF Evicted
<1>5. /\ DOMAIN EvictGrants(c).map = {c.lru[i].gref : i \in 1 .. n}
      /\ \A i \in 1 .. n : EvictGrants(c).map[c.lru[i].gref] = c.lru[i]
  <2>1. DOMAIN c.map \ {p.gref : p \in Evicted(c.lru)} = {c.lru[i].gref : i \in 1 .. n}
    BY <1>1, <1>2, <1>4 DEF Consistent, NoDuplicates, Indexed
  <2>2. EvictGrants(c).map = [g \in {c.lru[i].gref : i \in 1 .. n} |-> c.map[g]]
    BY <2>1 DEF EvictGrants, Without, Restrict
  <2>3. QED
    BY <1>1, <1>2, <2>2 DEF Consistent, Indexed
<1>6. /\ DOMAIN EvictGrants(c).mapped = {c.lru[i].addr : i \in 1 .. n}
      /\ \A i \in 1 .. n : EvictGrants(c).mapped[c.lru[i].addr] = c.mapped[c.lru[i].addr]
  <2>1. DOMAIN c.mapped \ {p.addr : p \in Evicted(c.lru)} = {c.lru[i].addr : i \in 1 .. n}
    BY <1>1, <1>2, <1>4 DEF Consistent, NoDuplicates, Mapped
  <2>2. EvictGrants(c).mapped = [a \in {c.lru[i].addr : i \in 1 .. n} |-> c.mapped[a]]
    BY <2>1 DEF EvictGrants, Without, Restrict
  <2>3. QED
    BY <2>2
<1>7. 1 .. n \subseteq 1 .. Len(c.lru)
  BY <1>1, <1>2
<1>8. Consistent(EvictGrants(c))
  <2>1. NoDuplicates(EvictGrants(c))
    BY <1>3, <1>7 DEF Consistent, NoDuplicates
  <2>2. Indexed(EvictGrants(c))
    BY <1>3, <1>5 DEF Indexed
  <2>3. Mapped(EvictGrants(c))
    BY <1>3, <1>6, <1>7 DEF Consistent, Mapped
  <2>4. QED
    BY <2>1, <2>2, <2>3 DEF Consistent
<1>9. QED
  BY <1>1, <1>3, <1>6, <1>8

(* mapGrant of a reference that is not in the cache, at an address where     *)
(* nothing is mapped.                                                        *)
LEMMA MapConsistent ==
  ASSUME NEW c, Consistent(c), NEW g \in Gref, g \notin DOMAIN c.map,
         grants[g] \in Frame, NEW a \in Addr, a \notin DOMAIN c.mapped
  PROVE  /\ Consistent(MapGrant(c, g, a))
         /\ Len(MapGrant(c, g, a).lru) = Len(c.lru) + 1
         /\ \A b \in DOMAIN c.mapped :
              /\ b \in DOMAIN MapGrant(c, g, a).mapped
              /\ MapGrant(c, g, a).mapped[b] = c.mapped[b]
<1> DEFINE page == [gref |-> g, addr |-> a]
           d == MapGrant(c, g, a)
           n == Len(c.lru)
<1>1. page \in Page /\ page.gref = g /\ page.addr = a
  BY DEF Page
<1>2. c.lru \in Seq(Page) /\ n \in Nat
  BY LenProperties DEF Consistent, NoDuplicates
<1>3. /\ d.lru \in Seq(Page)
      /\ Len(d.lru) = n + 1
      /\ \A k \in 1 .. n + 1 : d.lru[k] = IF k = 1 THEN page ELSE c.lru[k - 1]
  <2>1. d.lru = Cons(page, c.lru)
    BY DEF MapGrant
  <2>2. /\ Cons(page, c.lru) \in Seq(Page)
        /\ Len(Cons(page, c.lru)) = Len(c.lru) + 1
        /\ \A k \in 1 .. Len(c.lru) + 1 : Cons(page, c.lru)[k] = IF k = 1 THEN page ELSE c.lru[k - 1]
    BY <1>1, <1>2, ConsProperties
  <2>3. QED
    BY <2>1, <2>2
<1>4. /\ d.lru[1] = page
      /\ \A k \in 1 .. n + 1 : k # 1 => k - 1 \in 1 .. n /\ d.lru[k] = c.lru[k - 1]
      /\ \A k \in 1 .. n : k + 1 \in 1 .. n + 1 /\ d.lru[k + 1] = c.lru[k]
      /\ 1 \in 1 .. n + 1
  BY <1>2, <1>3
<1>5. /\ DOMAIN d.map = DOMAIN c.map \cup {g}
      /\ \A h \in DOMAIN d.map : d.map[h] = IF h = g THEN page ELSE c.map[h]
  BY DEF MapGrant
<1>6. /\ DOMAIN d.mapped = DOMAIN c.mapped \cup {a}
      /\ \A b \in DOMAIN d.mapped :
           d.mapped[b] = IF b = a THEN [gref |-> g, frame |-> grants[g]] ELSE c.mapped[b]
  BY DEF MapGrant
<1>7. \A k \in 1 .. n : /\ c.lru[k].gref \in DOMAIN c.map /\ c.lru[k].gref # g
                        /\ c.lru[k].addr \in DOMAIN c.mapped /\ c.lru[k].addr # a
  BY DEF Consistent, Indexed, Mapped
<1> HIDE DEF d, n
<1>8. NoDuplicates(d)
  <2>1. \A i, j \in 1 .. n : c.lru[i].gref = c.lru[j].gref => i = j
    BY DEF Consistent, NoDuplicates, n
  <2>2. \A i, j \in 1 .. n : c.lru[i].addr = c.lru[j].addr => i = j
    BY DEF Consistent, NoDuplicates, n
  <2>3. ASSUME NEW i \in 1 .. n + 1, NEW j \in 1 .. n + 1,
               d.lru[i].gref = d.lru[j].gref \/ d.lru[i].addr = d.lru[j].addr
        PROVE  i = j
    <3>1. CASE i = 1 \/ j = 1
      BY <1>1, <1>4, <1>7, <2>3, <3>1
    <3>2. CASE i # 1 /\ j # 1
      <4>1. i - 1 = j - 1
        BY <1>4, <2>1, <2>2, <2>3, <3>2
      <4>2. QED
        BY <1>2, <4>1
    <3>3. QED
      BY <3>1, <3>2
  <2>4. QED
    BY <1>3, <2>3 DEF NoDuplicates
<1>9. Indexed(d)
  <2>1. DOMAIN c.map = {c.lru[i].gref : i \in 1 .. n}
    BY DEF Consistent, Indexed, n
  <2>2. DOMAIN d.map = {d.lru[i].gref : i \in 1 .. n + 1}
    BY <1>1, <1>4, <1>5, <2>1
  <2>3. ASSUME NEW i \in 1 .. n + 1
        PROVE  d.map[d.lru[i].gref] = d.lru[i]
    <3>1. \A k \in 1 .. n : c.map[c.lru[k].gref] = c.lru[k]
      BY DEF Consistent, Indexed, n
    <3>2. CASE i = 1
      BY <1>1, <1>4, <1>5, <3>2
    <3>3. CASE i # 1
      BY <1>4, <1>5, <1>7, <3>1, <3>3
    <3>4. QED
      BY <3>2, <3>3
  <2>4. QED
    BY <1>3, <2>2, <2>3 DEF Indexed
<1>10. Mapped(d)
  <2>1. DOMAIN c.mapped = {c.lru[i].addr : i \in 1 .. n}
    BY DEF Consistent, Mapped, n
  <2>2. DOMAIN d.mapped = {d.lru[i].addr : i \in 1 .. n + 1}
    BY <1>1, <1>4, <1>6, <2>1
  <2>3. ASSUME NEW i \in 1 .. n + 1
        PROVE  /\ grants[d.lru[i].gref] \in Frame
               /\ d.mapped[d.lru[i].addr] = [gref |-> d.lru[i].gref, frame |-> grants[d.lru[i].gref]]
    <3>1. \A k \in 1 .. n :
            /\ grants[c.lru[k].gref] \in Frame
            /\ c.mapped[c.lru[k].addr] = [gref |-> c.lru[k].gref, frame |-> grants[c.lru[k].gref]]
      BY DEF Consistent, Mapped, n
    <3>2. CASE i = 1
      BY <1>1, <1>4, <1>6, <3>2
    <3>3. CASE i # 1
      BY <1>4, <1>6, <1>7, <3>1, <3>3
    <3>4. QED
      BY <3>2, <3>3
  <2>4. QED
    BY <1>3, <2>2, <2>3 DEF Mapped
<1>11. QED
  BY <1>3, <1>6, <1>8, <1>9, <1>10 DEF Consistent, d, n

(* A page of the cache moves to the front.                                   *)
LEMMA SpliceConsistent ==
  ASSUME NEW c, Consistent(c), NEW g \in DOMAIN c.map,
         NEW d, d.lru = Splice(c.lru, c.map[g]), d.map = c.map, d.mapped = c.mapped
  PROVE  /\ Consistent(d)
         /\ Reordered(c.lru, d.lru)
         /\ d.lru[1] = c.map[g] /\ c.map[g].gref = g
<1> DEFINE s == c.lru
           t == d.lru
           n == Len(c.lru)
<1>1. PICK m \in 1 .. n : s[m] = c.map[g] /\ s[m].gref = g
  BY DEF Consistent, Indexed
<1>2. s \in Seq(Page) /\ n \in Nat
  BY LenProperties DEF Consistent, NoDuplicates
<1>3. Reordered(s, t) /\ t[1] = s[m]
  BY <1>1, <1>2, SpliceReorders
<1>4. /\ \A k, l \in 1 .. n : s[k].gref = s[l].gref => k = l
      /\ \A k, l \in 1 .. n : s[k].addr = s[l].addr => k = l
  BY DEF Consistent, NoDuplicates
<1>5. /\ DOMAIN c.map = {s[k].gref : k \in 1 .. n}
      /\ \A k \in 1 .. n : c.map[s[k].gref] = s[k]
  BY DEF Consistent, Indexed
<1>6. /\ DOMAIN c.mapped = {s[k].addr : k \in 1 .. n}
      /\ \A k \in 1 .. n : /\ grants[s[k].gref] \in Frame
                           /\ c.mapped[s[k].addr] = [gref |-> s[k].gref, frame |-> grants[s[k].gref]]
  BY DEF Consistent, Mapped
<1>7. t \in Seq(Page) /\ Len(t) = n
  BY <1>3 DEF Reordered
<1> HIDE DEF s, t, n
<1>8. \A k \in 1 .. n : \E l \in 1 .. n : t[k] = s[l]
  BY <1>3 DEF Reordered, s, t, n
<1>9. \A l \in 1 .. n : \E k \in 1 .. n : t[k] = s[l]
  BY <1>3 DEF Reordered, s, t, n
<1>10. \A k1, k2, l \in 1 .. n :
         (\A l1, l2 \in 1 .. n : s[l1] = s[l2] => l1 = l2) /\ t[k1] = s[l] /\ t[k2] = s[l] => k1 = k2
  BY <1>3 DEF Reordered, s, t, n
<1>11. \A l1, l2 \in 1 .. n : s[l1] = s[l2] => l1 = l2
  BY <1>4
<1>12. ASSUME NEW k1 \in 1 .. n, NEW k2 \in 1 .. n,
              t[k1].gref = t[k2].gref \/ t[k1].addr = t[k2].addr
       PROVE  k1 = k2
  <2>1. PICK l1 \in 1 .. n, l2 \in 1 .. n : t[k1] = s[l1] /\ t[k2] = s[l2]
    BY <1>8
  <2>2. l1 = l2
    BY <1>4, <1>12, <2>1
  <2>3. QED
    BY <1>10, <1>11, <2>1, <2>2
<1>13. NoDuplicates(d)
  BY <1>7, <1>12 DEF NoDuplicates, t
<1>14. Indexed(d)
  <2>1. {s[k].gref : k \in 1 .. n} = {t[k].gref : k \in 1 .. n}
    <3>1. ASSUME NEW l \in 1 .. n
          PROVE  s[l].gref \in {t[k].gref : k \in 1 .. n}
      BY <1>9
    <3>2. ASSUME NEW k \in 1 .. n
          PROVE  t[k].gref \in {s[l].gref : l \in 1 .. n}
      BY <1>8
    <3>3. QED
      BY <3>1, <3>2
  <2>2. \A k \in 1 .. n : c.map[t[k].gref] = t[k]
    BY <1>5, <1>8
  <2>3. QED
    BY <1>5, <1>7, <2>1, <2>2 DEF Indexed, t
<1>15. Mapped(d)
  <2>1. {s[k].addr : k \in 1 .. n} = {t[k].addr : k \in 1 .. n}
    <3>1. ASSUME NEW l \in 1 .. n
          PROVE  s[l].addr \in {t[k].addr : k \in 1 .. n}
      BY <1>9
    <3>2. ASSUME NEW k \in 1 .. n
          PROVE  t[k].addr \in {s[l].addr : l \in 1 .. n}
      BY <1>8
    <3>3. QED
      BY <3>1, <3>2
  <2>2. \A k \in 1 .. n : /\ grants[t[k].gref] \in Frame
                          /\ c.mapped[t[k].addr] = [gref |-> t[k].gref, frame |-> grants[t[k].gref]]
    BY <1>6, <1>8
  <2>3. QED
    BY <1>6, <1>7, <2>1, <2>2 DEF Mapped, t
<1>16. QED
  BY <1>1, <1>3, <1>13, <1>14, <1>15 DEF Consistent, s, t

-----------------------------------------------------------------------------
(* What a call of addGrant guarantees its caller: the page it returns is the *)
(* first of the list, and each of the KeepSize pages used last is still in   *)
(* the list, at most one position further back.                              *)
Kept ==
  \A l \in 1 .. Len(mGntLru) : l <= KeepSize =>
    \E k \in 1 .. Len(mGntLru') : mGntLru'[k] = mGntLru[l] /\ k <= l + 1

LEMMA EvictKeeps ==
  ASSUME NEW c, Consistent(c)
  PROVE  \A l \in 1 .. Len(c.lru) : l <= KeepSize =>
           l \in 1 .. Len(EvictGrants(c).lru) /\ EvictGrants(c).lru[l] = c.lru[l]
<1>1. c.lru \in Seq(Page) /\ Len(c.lru) \in Nat
  BY LenProperties DEF Consistent, NoDuplicates
<1>2. PICK n \in 0 .. Len(c.lru) :
        /\ n = IF Len(c.lru) > KeepSize THEN KeepSize ELSE Len(c.lru)
        /\ \A i \in 1 .. Len(c.lru) : i <= KeepSize => i \in 1 .. n
  BY <1>1, KeepSizeType
<1>3. EvictGrants(c).lru = SubSeq(c.lru, 1, n)
  BY <1>2 DEF EvictGrants
<1>4. QED
  BY <1>1, <1>2, <1>3, TruncateProperties

LEMMA MapKeeps ==
  ASSUME NEW c, Consistent(c), NEW g \in Gref, NEW a \in Addr
  PROVE  /\ MapGrant(c, g, a).lru[1] = [gref |-> g, addr |-> a]
         /\ \A l \in 1 .. Len(c.lru) :
              l + 1 \in 1 .. Len(MapGrant(c, g, a).lru) /\ MapGrant(c, g, a).lru[l + 1] = c.lru[l]
<1>1. c.lru \in Seq(Page) /\ Len(c.lru) \in Nat /\ [gref |-> g, addr |-> a] \in Page
  BY LenProperties DEF Consistent, NoDuplicates, Page
<1>2. MapGrant(c, g, a).lru = Cons([gref |-> g, addr |-> a], c.lru)
  BY DEF MapGrant
<1>3. /\ Len(Cons([gref |-> g, addr |-> a], c.lru)) = Len(c.lru) + 1
      /\ \A k \in 1 .. Len(c.lru) + 1 :
           Cons([gref |-> g, addr |-> a], c.lru)[k] =
             IF k = 1 THEN [gref |-> g, addr |-> a] ELSE c.lru[k - 1]
  BY <1>1, ConsProperties
<1>4. QED
  BY <1>1, <1>2, <1>3

LEMMA AddGrantProperties ==
  ASSUME CacheInv, NEW g \in Gref, NEW virt \in Addr \cup {nullptr}, AddGrant(g, virt)
  PROVE  /\ CacheInv'
         /\ Kept
         /\ virt # nullptr => mGntLru' # <<>> /\ mGntLru'[1] = [gref |-> g, addr |-> virt]
<1> DEFINE n == Len(mGntLru)
<1>1. /\ Consistent(Cache) /\ Cache.lru = mGntLru /\ Cache.map = mGntMap /\ Cache.mapped = mapped
      /\ grants' = grants
      /\ n \in Nat /\ n <= MAX_PGRANTS_PER_FRONTEND
      /\ mGntLru \in Seq(Page)
  BY LenProperties DEF CacheInv, Cache, AddGrant, Consistent, NoDuplicates
<1>2. ASSUME NEW c, c.lru = mGntLru', c.map = mGntMap', c.mapped = mapped', Consistent(c),
             Len(c.lru) <= MAX_PGRANTS_PER_FRONTEND
      PROVE  CacheInv'
  BY <1>1, <1>2 DEF CacheInv, Consistent, NoDuplicates, Indexed, Mapped, Cache
<1>3. CASE g \in DOMAIN mGntMap /\ virt = mGntMap[g].addr
           /\ Becomes([Cache EXCEPT !.lru = Splice(mGntLru, mGntMap[g])])
  <2> DEFINE d == [Cache EXCEPT !.lru = Splice(mGntLru, mGntMap[g])]
  <2>1. d.lru = Splice(mGntLru, mGntMap[g]) /\ d.map = mGntMap /\ d.mapped = mapped
    BY DEF Cache
  <2>2. d.lru = mGntLru' /\ d.map = mGntMap' /\ d.mapped = mapped'
    BY <1>3 DEF Becomes
  <2> HIDE DEF d
  <2>3. /\ Consistent(d)
        /\ Reordered(mGntLru, d.lru)
        /\ d.lru[1] = mGntMap[g] /\ mGntMap[g].gref = g
    BY <1>1, <1>3, <2>1, SpliceConsistent
  <2>4. Len(d.lru) = n
    BY <2>3 DEF Reordered
  <2>5. CacheInv'
    BY <1>1, <1>2, <2>2, <2>3, <2>4
  <2>6. Kept
    BY <2>2, <2>3, <2>4 DEF Reordered, Kept
  <2>7. mGntLru' # <<>> /\ mGntLru'[1] = [gref |-> g, addr |-> virt]
    <3>1. mGntMap[g] \in Page /\ n # 0
      BY <1>1, <1>3, PageType DEF Consistent, Indexed
    <3>2. mGntMap[g] = [gref |-> mGntMap[g].gref, addr |-> mGntMap[g].addr]
      BY <3>1 DEF Page
    <3>3. mGntLru' # <<>>
      BY <2>2, <2>4, <3>1
    <3>4. QED
      BY <1>3, <2>2, <2>3, <3>2, <3>3
  <2>8. QED
    BY <2>5, <2>6, <2>7
<1>4. CASE g \notin DOMAIN mGntMap
  <2>1. PICK c : /\ c = IF n = MAX_PGRANTS_PER_FRONTEND THEN EvictGrants(Cache) ELSE Cache
                 /\ \/ virt = nullptr /\ Becomes(c)
                    \/ /\ grants[g] # NoFrame
                       /\ \E a \in Addr \ DOMAIN c.mapped :
                            /\ virt = IF g \in DOMAIN c.map THEN nullptr ELSE a
                            /\ Becomes(MapGrant(c, g, a))
    BY <1>4 DEF AddGrant, CacheFull
  <2>2. /\ Consistent(c)
        /\ Len(c.lru) < MAX_PGRANTS_PER_FRONTEND
        /\ \A l \in 1 .. n : l <= KeepSize => l \in 1 .. Len(c.lru) /\ c.lru[l] = mGntLru[l]
        /\ g \notin DOMAIN c.map
    <3>1. CASE n = MAX_PGRANTS_PER_FRONTEND
      <4>1. c = EvictGrants(Cache)
        BY <2>1, <3>1
      <4>2. Consistent(c) /\ Len(c.lru) <= KeepSize
        BY <1>1, <4>1, EvictConsistent
      <4>3. \A l \in 1 .. n : l <= KeepSize => l \in 1 .. Len(c.lru) /\ c.lru[l] = mGntLru[l]
        BY <1>1, <4>1, EvictKeeps
      <4>4. Len(c.lru) < MAX_PGRANTS_PER_FRONTEND
        <5>1. c.lru \in Seq(Page)
          BY <4>2 DEF Consistent, NoDuplicates
        <5>2. Len(c.lru) \in Nat
          BY <5>1, LenProperties
        <5>3. QED
          BY <4>2, <5>2, KeepSizeType, CacheSizes
      <4>5. g \notin DOMAIN c.map
        BY <1>1, <1>4, <4>1 DEF EvictGrants, Without, Restrict
      <4>6. QED
        BY <4>2, <4>3, <4>4, <4>5
    <3>2. CASE n # MAX_PGRANTS_PER_FRONTEND
      <4>1. c = Cache
        BY <2>1, <3>2
      <4>2. n < MAX_PGRANTS_PER_FRONTEND
        BY <1>1, <3>2, CacheSizes
      <4>3. QED
        BY <1>1, <1>4, <4>1, <4>2
    <3>3. QED
      BY <3>1, <3>2
  <2>3. Len(c.lru) \in Nat
    BY <2>2, LenProperties DEF Consistent, NoDuplicates
  <2>4. CASE virt = nullptr /\ Becomes(c)
    <3>1. c.lru = mGntLru' /\ c.map = mGntMap' /\ c.mapped = mapped'
      BY <2>4 DEF Becomes
    <3>2. Len(c.lru) <= MAX_PGRANTS_PER_FRONTEND
      BY <2>2, <2>3, CacheSizes
    <3>3. CacheInv'
      BY <1>2, <2>2, <3>1, <3>2
    <3>4. Kept
      BY <1>1, <2>2, <3>1 DEF Kept
    <3>5. QED
      BY <2>4, <3>3, <3>4
  <2>5. CASE /\ grants[g] # NoFrame
             /\ \E a \in Addr \ DOMAIN c.mapped :
                  /\ virt = IF g \in DOMAIN c.map THEN nullptr ELSE a
                  /\ Becomes(MapGrant(c, g, a))
    <3>1. PICK a \in Addr \ DOMAIN c.mapped : virt = a /\ Becomes(MapGrant(c, g, a))
      BY <2>2, <2>5
    <3>2. grants[g] \in Frame
      BY <2>5 DEF CacheInv
    <3>3. /\ Consistent(MapGrant(c, g, a))
          /\ Len(MapGrant(c, g, a).lru) = Len(c.lru) + 1
      BY <2>2, <3>2, MapConsistent
    <3>4. /\ MapGrant(c, g, a).lru[1] = [gref |-> g, addr |-> a]
          /\ \A l \in 1 .. Len(c.lru) :
               l + 1 \in 1 .. Len(MapGrant(c, g, a).lru) /\ MapGrant(c, g, a).lru[l + 1] = c.lru[l]
      BY <2>2, MapKeeps
    <3>5. /\ MapGrant(c, g, a).lru = mGntLru'
          /\ MapGrant(c, g, a).map = mGntMap'
          /\ MapGrant(c, g, a).mapped = mapped'
      BY <3>1 DEF Becomes
    <3>6. Len(MapGrant(c, g, a).lru) <= MAX_PGRANTS_PER_FRONTEND
      BY <2>2, <2>3, <3>3, CacheSizes
    <3>7. CacheInv'
      BY <1>2, <3>3, <3>5, <3>6
    <3>8. Kept
      <4>1. ASSUME NEW l \in 1 .. n, l <= KeepSize
            PROVE  \E k \in 1 .. Len(mGntLru') : mGntLru'[k] = mGntLru[l] /\ k <= l + 1
        <5>1. l + 1 \in 1 .. Len(mGntLru') /\ mGntLru'[l + 1] = mGntLru[l] /\ l + 1 <= l + 1
          BY <2>2, <3>4, <3>5, <4>1
        <5>2. QED
          BY <5>1
      <4>2. QED
        BY <4>1 DEF Kept
    <3>9. mGntLru' # <<>>
      BY <2>3, <3>3, <3>5
    <3>10. QED
      BY <3>1, <3>4, <3>5, <3>7, <3>8, <3>9
  <2>6. QED
    BY <2>1, <2>4, <2>5
<1>5. QED
  BY <1>3, <1>4 DEF AddGrant

(* The empty cache is consistent, and so is the cache freeGrants leaves.     *)
LEMMA EmptyConsistent ==
  ASSUME NEW c, c.lru = <<>>, DOMAIN c.map = {}, DOMAIN c.mapped = {}
  PROVE  Consistent(c)
<1>1. c.lru \in Seq(Page) /\ Len(c.lru) = 0 /\ 1 .. Len(c.lru) = {}
  BY EmptySeq
<1>2. QED
  BY <1>1 DEF Consistent, NoDuplicates, Indexed, Mapped

LEMMA CacheInitInv == CacheInit => CacheInv
<1> SUFFICES ASSUME CacheInit PROVE CacheInv
  OBVIOUS
<1>1. Cache.lru = <<>> /\ DOMAIN Cache.map = {} /\ DOMAIN Cache.mapped = {}
  BY DEF CacheInit, Cache
<1>2. Consistent(Cache)
  BY <1>1, EmptyConsistent
<1>3. Len(mGntLru) = 0 /\ 0 <= MAX_PGRANTS_PER_FRONTEND
  BY EmptySeq, CacheSizes DEF CacheInit
<1>4. QED
  BY <1>2, <1>3 DEF CacheInit, CacheInv

LEMMA FreeGrantsInv ==
  ASSUME CacheInv, FreeGrants
  PROVE  CacheInv' /\ mapped' = [a \in {} |-> nullptr] /\ mGntLru' = <<>>
<1>1. mGntLru' = <<>> /\ mGntMap' = [g \in {} |-> nullptr] /\ grants' = grants
  BY DEF FreeGrants, Becomes
<1>2. mapped' = Without(mapped, {mGntLru[i].addr : i \in DOMAIN mGntLru})
  BY DEF FreeGrants, Becomes
<1>3. DOMAIN mapped = {mGntLru[i].addr : i \in DOMAIN mGntLru}
  <2>1. DOMAIN mGntLru = 1 .. Len(mGntLru)
    BY LenProperties DEF CacheInv, Consistent, NoDuplicates, Cache
  <2>2. QED
    BY <2>1 DEF CacheInv, Consistent, Mapped, Cache
<1>4. mapped' = [a \in {} |-> nullptr]
  BY <1>2, <1>3 DEF Without, Restrict
<1>5. Consistent(Cache)'
  <2>1. /\ (Cache').lru = <<>> /\ DOMAIN (Cache').map = {} /\ DOMAIN (Cache').mapped = {}
    BY <1>1, <1>4 DEF Cache
  <2>2. 1 .. Len((Cache').lru) = {} /\ (Cache').lru \in Seq(Page)
    BY <2>1, EmptySeq
  <2>3. QED
    BY <2>1, <2>2 DEF Consistent, NoDuplicates, Indexed, Mapped
<1>6. Len(mGntLru') = 0 /\ 0 <= MAX_PGRANTS_PER_FRONTEND
  BY <1>1, EmptySeq, CacheSizes
<1>7. QED
  BY <1>1, <1>4, <1>5, <1>6 DEF CacheInv

(* The frontend may grant a new page under a reference, or take one back,    *)
(* only while the cache has no page of that reference.                       *)
LEMMA FrontendInv ==
  ASSUME CacheInv, NEW g \in Gref,
         EndAccess(g) \/ \E f \in Frame : GrantAccess(g, f)
  PROVE  CacheInv' /\ UNCHANGED <<mGntLru, mGntMap, mapped>>
<1>1. /\ UNCHANGED <<mGntLru, mGntMap, mapped>>
      /\ grants' \in [Gref -> Frame \cup {NoFrame}]
      /\ \A h \in Gref : h # g => grants'[h] = grants[h]
  BY DEF CacheInv, EndAccess, GrantAccess
<1>2. ASSUME NEW i \in 1 .. Len(mGntLru)
      PROVE  mGntLru[i].gref \in Gref /\ mGntLru[i].gref # g
  <2>1. mGntLru[i].gref \in Gref
    BY PageType DEF CacheInv, Consistent, Cache
  <2>2. /\ mGntLru[i].addr \in DOMAIN mapped
        /\ mapped[mGntLru[i].addr] = [gref |-> mGntLru[i].gref, frame |-> grants[mGntLru[i].gref]]
        /\ grants[mGntLru[i].gref] \in Frame
    BY DEF CacheInv, Consistent, Mapped, Cache
  <2>3. mapped[mGntLru[i].addr].gref = mGntLru[i].gref
    BY <2>2
  <2>4. QED
    BY <2>1, <2>2, <2>3, CacheNulls DEF EndAccess, GrantAccess, InUse
<1>3. Cache' = Cache
  BY <1>1 DEF Cache
<1>4. Mapped(Cache)'
  BY <1>1, <1>2 DEF CacheInv, Consistent, Mapped, Cache
<1>5. NoDuplicates(Cache)' /\ Indexed(Cache)'
  BY <1>1 DEF CacheInv, Consistent, NoDuplicates, Indexed, Cache
<1>6. QED
  BY <1>1, <1>4, <1>5 DEF CacheInv, Consistent

LEMMA CacheStepInv == CacheInv /\ [CacheNext]_cacheVars => CacheInv'
<1> SUFFICES ASSUME CacheInv, [CacheNext]_cacheVars PROVE CacheInv'
  OBVIOUS
<1>1. ASSUME NEW g \in Gref, NEW virt \in Addr \cup {nullptr}, AddGrant(g, virt)
      PROVE  CacheInv'
  BY <1>1, AddGrantProperties
<1>2. CASE FreeGrants
  BY <1>2, FreeGrantsInv
<1>3. ASSUME NEW g \in Gref, EndAccess(g) \/ \E f \in Frame : GrantAccess(g, f)
      PROVE  CacheInv'
  BY <1>3, FrontendInv
<1>4. CASE UNCHANGED cacheVars
  BY <1>4 DEF cacheVars, CacheInv, Consistent, NoDuplicates, Indexed, Mapped, Cache
<1>5. QED
  BY <1>1, <1>2, <1>3, <1>4 DEF CacheNext

-----------------------------------------------------------------------------
(* The properties TLC checks follow from the invariant.                      *)
LEMMA CacheInvImplies ==
  CacheInv => CacheTypeOK /\ IndexExact /\ MappingsCached /\ Coherent /\ MappedBounded
<1> SUFFICES ASSUME CacheInv
             PROVE  CacheTypeOK /\ IndexExact /\ MappingsCached /\ Coherent /\ MappedBounded
  OBVIOUS
<1>1. /\ mGntLru \in Seq(Page) /\ Len(mGntLru) \in Nat /\ DOMAIN mGntLru = 1 .. Len(mGntLru)
      /\ \A i \in 1 .. Len(mGntLru) : /\ mGntLru[i] \in Page
                                      /\ mGntLru[i].gref \in Gref
                                      /\ mGntLru[i].addr \in Addr
  <2>1. mGntLru \in Seq(Page)
    BY DEF CacheInv, Consistent, NoDuplicates, Cache
  <2>2. QED
    BY <2>1, LenProperties, PageType DEF CacheInv, Consistent, Cache
<1>2. /\ \A i, j \in DOMAIN mGntLru : mGntLru[i].gref = mGntLru[j].gref => i = j
      /\ \A i, j \in DOMAIN mGntLru : mGntLru[i].addr = mGntLru[j].addr => i = j
  BY <1>1 DEF CacheInv, Consistent, NoDuplicates, Cache
<1>3. /\ DOMAIN mGntMap = {mGntLru[i].gref : i \in DOMAIN mGntLru}
      /\ \A i \in DOMAIN mGntLru : mGntMap[mGntLru[i].gref] = mGntLru[i]
  BY <1>1 DEF CacheInv, Consistent, Indexed, Cache
<1>4. /\ DOMAIN mapped = {mGntLru[i].addr : i \in DOMAIN mGntLru}
      /\ \A i \in DOMAIN mGntLru :
           /\ grants[mGntLru[i].gref] \in Frame
           /\ mapped[mGntLru[i].addr] = [gref |-> mGntLru[i].gref, frame |-> grants[mGntLru[i].gref]]
  BY <1>1 DEF CacheInv, Consistent, Mapped, Cache
<1>5. CacheTypeOK
  <2>1. DOMAIN mGntMap \subseteq Gref /\ \A g \in DOMAIN mGntMap : mGntMap[g] \in Page
    BY <1>1, <1>3
  <2>2. DOMAIN mapped \subseteq Addr /\ \A a \in DOMAIN mapped : mapped[a] \in Mapping
    <3>1. ASSUME NEW i \in DOMAIN mGntLru
          PROVE  mGntLru[i].addr \in Addr /\ mapped[mGntLru[i].addr] \in Mapping
      <4>1. mGntLru[i].addr \in Addr /\ mGntLru[i].gref \in Gref /\ grants[mGntLru[i].gref] \in Frame
        BY <1>1, <1>4
      <4>2. mapped[mGntLru[i].addr] = [gref |-> mGntLru[i].gref, frame |-> grants[mGntLru[i].gref]]
        BY <1>4
      <4>3. QED
        BY <4>1, <4>2 DEF Mapping
    <3>2. QED
      BY <1>4, <3>1
  <2>3. QED
    BY <1>1, <2>1, <2>2 DEF CacheTypeOK, CacheInv
<1>6. IndexExact
  BY <1>2, <1>3 DEF IndexExact
<1>7. MappingsCached
  BY <1>2, <1>4 DEF MappingsCached
<1>8. Coherent
  BY <1>4 DEF Coherent
<1>9. MappedBounded
  <2>1. Len(mGntLru) <= MAX_PGRANTS_PER_FRONTEND
    BY DEF CacheInv
  <2>2. [i \in 1 .. Len(mGntLru) |-> mGntLru[i].addr] \in Surjection(1 .. Len(mGntLru), DOMAIN mapped)
    BY <1>1, <1>4 DEF Surjection
  <2>3. Cardinality(DOMAIN mapped) <= Len(mGntLru)
    BY <1>1, <2>2, FS_SurjCardinalityBound DEF ExistsSurjection
  <2>4. DOMAIN mapped \in SUBSET DOMAIN mapped /\ Cardinality(DOMAIN mapped) \in Nat
    BY <1>1, <2>2, FS_NatSurjection, FS_CardinalityType DEF ExistsSurjection
  <2>5. QED
    BY <1>1, <2>1, <2>3, <2>4, CacheSizes DEF MappedBounded
<1>10. QED
  BY <1>5, <1>6, <1>7, <1>8, <1>9

(* A step that is not FreeGrants leaves the last KeepSize pages mapped.      *)
LEMMA CacheStepKeeps ==
  ASSUME CacheInv, [CacheNext]_cacheVars
  PROVE  \/ FreeGrants
         \/ \A i \in DOMAIN mGntLru : i <= KeepSize =>
              /\ mGntLru[i].addr \in DOMAIN mapped'
              /\ mapped'[mGntLru[i].addr] = mapped[mGntLru[i].addr]
<1>1. CacheInv' /\ Coherent /\ Coherent'
  BY CacheStepInv, CacheInvImplies, PTL
<1>2. /\ DOMAIN mGntLru = 1 .. Len(mGntLru)
      /\ DOMAIN mGntLru' = 1 .. Len(mGntLru')
  BY <1>1, LenProperties DEF CacheInv, Consistent, NoDuplicates, Cache
<1>3. ASSUME NEW g \in Gref, NEW virt \in Addr \cup {nullptr}, AddGrant(g, virt),
             NEW i \in DOMAIN mGntLru, i <= KeepSize
      PROVE  /\ mGntLru[i].addr \in DOMAIN mapped'
             /\ mapped'[mGntLru[i].addr] = mapped[mGntLru[i].addr]
  <2>1. PICK k \in DOMAIN mGntLru' : mGntLru'[k] = mGntLru[i]
    BY <1>2, <1>3, AddGrantProperties DEF Kept
  <2>2. grants' = grants
    BY <1>3 DEF AddGrant
  <2>3. /\ mGntLru'[k].addr \in DOMAIN mapped'
        /\ mapped'[mGntLru'[k].addr] = [gref |-> mGntLru'[k].gref, frame |-> grants'[mGntLru'[k].gref]]
    BY <1>1 DEF Coherent
  <2>4. mapped[mGntLru[i].addr] = [gref |-> mGntLru[i].gref, frame |-> grants[mGntLru[i].gref]]
    BY <1>1, <1>3 DEF Coherent
  <2>5. QED
    BY <2>1, <2>2, <2>3, <2>4
<1>4. ASSUME UNCHANGED <<mGntLru, mGntMap, mapped>>, NEW i \in DOMAIN mGntLru
      PROVE  /\ mGntLru[i].addr \in DOMAIN mapped'
             /\ mapped'[mGntLru[i].addr] = mapped[mGntLru[i].addr]
  BY <1>1, <1>4 DEF Coherent
<1>5. ASSUME NEW g \in Gref, EndAccess(g) \/ \E f \in Frame : GrantAccess(g, f)
      PROVE  UNCHANGED <<mGntLru, mGntMap, mapped>>
  BY <1>5 DEF EndAccess, GrantAccess
<1>6. QED
  BY <1>3, <1>4, <1>5 DEF CacheNext, cacheVars

(* Whatever the sizes and the sets, every reachable cache is consistent.     *)
THEOREM CacheCorrect == CacheSpec => []CacheInv
  BY CacheInitInv, CacheStepInv, PTL DEF CacheSpec

(* The variables keep their types: no page without an address is ever kept.  *)
THEOREM CacheTypeCorrect == CacheSpec => []CacheTypeOK
  BY CacheCorrect, CacheInvImplies, PTL

(* mGntMap is the exact index of mGntLru.                                    *)
THEOREM IndexCorrect == CacheSpec => []IndexExact
  BY CacheCorrect, CacheInvImplies, PTL

(* The mappings held are those of the pages in the cache.                    *)
THEOREM MappingsCorrect == CacheSpec => []MappingsCached
  BY CacheCorrect, CacheInvImplies, PTL

(* A cached address reaches the page its reference grants now.               *)
THEOREM CoherenceCorrect == CacheSpec => []Coherent
  BY CacheCorrect, CacheInvImplies, PTL

(* A frontend never has more than MAX_PGRANTS_PER_FRONTEND grants mapped.    *)
THEOREM BoundCorrect == CacheSpec => []MappedBounded
  BY CacheCorrect, CacheInvImplies, PTL

(* Eviction never unmaps one of the KeepSize pages used last.                *)
THEOREM EvictionCorrect == CacheSpec => RecentStayMapped
<1>1. CacheInv /\ [CacheNext]_cacheVars =>
        [\/ FreeGrants
         \/ \A i \in DOMAIN mGntLru : i <= KeepSize =>
              /\ mGntLru[i].addr \in DOMAIN mapped'
              /\ mapped'[mGntLru[i].addr] = mapped[mGntLru[i].addr]]_cacheVars
  BY CacheStepKeeps
<1>2. QED
  BY <1>1, CacheCorrect, PTL DEF CacheSpec, RecentStayMapped
=============================================================================
