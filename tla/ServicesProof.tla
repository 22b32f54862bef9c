---------------------------- MODULE ServicesProof ----------------------------
(***************************************************************************)
(* Lists that are read page by page: the SKU pairs of LingXing, and the    *)
(* rows of an export, with the directory the exports are written to; and   *)
(* the items of an order, read from its row.                               *)
(***************************************************************************)
EXTENDS SkuMapping, ExportFiles, RowItems, SequenceTheorems, FiniteSetTheorems,
        NaturalsInduction, WellFoundedInduction, TLAPS

-----------------------------------------------------------------------------
(***************************************************************************)
(* For any stores, SKUs, lists, page size and faults: what pull_sku_pair   *)
(* saves is a map that can be read backwards within each store.            *)
(*                                                                         *)
(* The invariant: the pairs taken so far form a map, those of one store    *)
(* can be read backwards, and `back` has the pairs of the store in         *)
(* progress; a store not begun has none.                                   *)
(***************************************************************************)

ListingOK == listing \in [Stores -> Seq(MSkus \X (Skus \cup {""}))]

IsMap(m)    == \A p, q \in m : p[1] = q[1] => p[2] = q[2]
OneBack(m)  == \A p, q \in m : p[2] = q[2] /\ p[3] = q[3] => p[1] = q[1]

PageThere == pairs.pc = "item" => pairs.page # <<>>
OneStore  == pairs.pc \in {"page", "item"} => \E s \in Stores : pairs.store = {s}
Begun     == /\ \A p \in pairs.new : p[3] \notin pairs.left
             /\ pairs.store \cap pairs.left = {}
BackKnows == \A p \in pairs.new : p[3] \in pairs.store => <<p[2], p[1]>> \in pairs.back
SavedMap  == pairs.pc = "saved" => IsMap(mapping)

PairsInv == /\ PairsTypeOK /\ ListingOK /\ PageThere /\ OneStore /\ Begun
            /\ BackKnows /\ IsMap(pairs.new) /\ OneBack(pairs.new) /\ SavedMap

Item == MSkus \X (Skus \cup {""})

\* No run is in progress, and nothing is taken.
LEMMA IdleOK == PairsIdle \in PairsType
  BY DEF PairsIdle, PairsType, Pair

LEMMA PairsInit_Inv == PairsInit => PairsInv
<1> SUFFICES ASSUME PairsInit PROVE PairsInv
  OBVIOUS
<1>1. ListingOK
  <2>1. ASSUME NEW n \in 0..MaxPairs
        PROVE  [1..n -> Item] \subseteq Seq(Item)
    <3>1. MaxPairs \in Nat
      BY PairAssumption DEF PairAssumption
    <3>2. n \in Nat
      BY <3>1
    <3>3. QED
      BY <3>2
  <2>2. UNION {[1..n -> Item] : n \in 0..MaxPairs} \subseteq Seq(Item)
    BY <2>1
  <2>3. QED
    BY <2>2 DEF PairsInit, SkuListing, ListingOK, Item
<1>2. PairsTypeOK
  BY IdleOK DEF PairsInit, PairsTypeOK
<1>3. QED
  BY <1>1, <1>2 DEF PairsInit, PairsInv, PairsIdle, PageThere, OneStore, Begun, BackKnows,
     IsMap, OneBack, SavedMap

\* A page is a part of the list.
LEMMA PageOf_Type ==
  ASSUME ListingOK, pairs.offset \in Nat, NEW s \in Stores
  PROVE  PageOf(s) \in Seq(Item)
<1>1. listing[s] \in Seq(Item)
  BY DEF ListingOK, Item
<1>2. Len(listing[s]) \in Nat /\ PairPage \in Nat
  <2>1. Len(listing[s]) \in Nat
    BY <1>1
  <2>2. QED
    BY <2>1, PairAssumption DEF PairAssumption
<1> DEFINE last == pairs.offset + (IF Len(listing[s]) - pairs.offset < PairPage
                                   THEN Len(listing[s]) - pairs.offset ELSE PairPage)
<1>3. last \in Int /\ last <= Len(listing[s])
  BY <1>2
<1>4. pairs.offset + 1 \in Int /\ pairs.offset + 1 >= 1
  OBVIOUS
<1> HIDE DEF last
<1>5. SubSeq(listing[s], pairs.offset + 1, last) \in Seq(Item)
  <2>1. \A i \in (pairs.offset + 1)..last : listing[s][i] \in Item
    BY <1>1, <1>2, <1>3
  <2>2. QED
    BY <1>3, <1>4, <2>1, SubSeqProperties
<1>6. QED
  BY <1>5 DEF PageOf, last

\* What taking a pair changes.
LEMMA TakePair_Fields ==
  ASSUME NEW r \in PairsType, NEW m \in MSkus, NEW s \in Skus \cup {""}
  PROVE  LET t == TakePair(r, m, s)
         IN /\ t \in PairsType
            /\ t.left = r.left /\ t.store = r.store /\ t.page = r.page
            /\ t.pc = r.pc /\ t.full = r.full /\ t.offset = r.offset /\ t.skewed = r.skewed
            /\ \/ t.new = r.new /\ r.back \subseteq t.back /\ t.conflict
               \/ /\ t.conflict = r.conflict
                  /\ s \in Skus /\ ~Clash(r.back, s, m) /\ ~Clash(r.new, m, s)
                  /\ t.back = r.back \cup {<<s, m>>}
                  /\ t.new = r.new \cup ({m} \X {s} \X r.store)
<1> DEFINE f == [r EXCEPT !.forth = @ \cup {<<m, s>>}]
           b == [f EXCEPT !.back = @ \cup {<<s, m>>}]
           n == [b EXCEPT !.new = @ \cup ({m} \X {s} \X r.store)]
           Same(t) == /\ t.left = r.left /\ t.store = r.store /\ t.page = r.page
                      /\ t.pc = r.pc /\ t.full = r.full /\ t.offset = r.offset
                      /\ t.skewed = r.skewed
<1>1. ASSUME NEW t \in PairsType
      PROVE  LET c == [t EXCEPT !.conflict = TRUE]
             IN /\ c \in PairsType /\ c.left = t.left /\ c.store = t.store
                /\ c.page = t.page /\ c.pc = t.pc /\ c.full = t.full
                /\ c.offset = t.offset /\ c.skewed = t.skewed
                /\ c.new = t.new /\ c.back = t.back /\ c.conflict
  BY DEF PairsType
<1>2. CASE s = "" \/ Clash(r.forth, m, s)
  BY <1>1, <1>2 DEF TakePair
<1>3. CASE ~(s = "" \/ Clash(r.forth, m, s))
  <2>1. s \in Skus /\ <<m, s>> \in Pair /\ <<s, m>> \in Skus \X MSkus
    BY <1>3 DEF Pair
  <2>2. f \in PairsType /\ Same(f) /\ f.new = r.new /\ f.back = r.back
        /\ f.conflict = r.conflict
    BY <2>1 DEF PairsType
  <2> HIDE DEF f
  <2>3. b \in PairsType /\ Same(b) /\ b.new = r.new /\ b.back = r.back \cup {<<s, m>>}
        /\ b.conflict = r.conflict
    BY <2>1, <2>2 DEF PairsType
  <2> HIDE DEF b
  <2>4. {m} \X {s} \X r.store \subseteq MSkus \X Skus \X Stores
    BY <2>1 DEF PairsType
  <2>5. n \in PairsType /\ Same(n) /\ n.new = r.new \cup ({m} \X {s} \X r.store)
        /\ n.back = r.back \cup {<<s, m>>} /\ n.conflict = r.conflict
    BY <2>3, <2>4 DEF PairsType
  <2>6. TakePair(r, m, s) =
          IF Clash(r.back, s, m) THEN [f EXCEPT !.conflict = TRUE]
          ELSE IF Clash(r.new, m, s) THEN [b EXCEPT !.conflict = TRUE]
          ELSE n
    BY <1>3 DEF TakePair, f, b
  <2> HIDE DEF n
  <2>7. CASE Clash(r.back, s, m)
    BY <1>1, <2>2, <2>6, <2>7
  <2>8. CASE ~Clash(r.back, s, m) /\ Clash(r.new, m, s)
    BY <1>1, <2>3, <2>6, <2>8
  <2>9. CASE ~Clash(r.back, s, m) /\ ~Clash(r.new, m, s)
    BY <2>1, <2>2, <2>3, <2>5, <2>6, <2>9
  <2>10. QED
    BY <2>7, <2>8, <2>9
<1>4. QED
  BY <1>2, <1>3

\* What taking a pair keeps: a pair that is taken has the only SKU of its
\* MSKU, and the only MSKU of its SKU in the store.
LEMMA TakePair_Inv ==
  ASSUME PairsInv, pairs.pc = "item", NEW m \in MSkus, NEW s \in Skus \cup {""}
  PROVE  LET t == TakePair(pairs, m, s)
         IN /\ \A p \in t.new : p[3] \notin t.left
            /\ \A p \in t.new : p[3] \in t.store => <<p[2], p[1]>> \in t.back
            /\ IsMap(t.new) /\ OneBack(t.new)
<1> DEFINE t    == TakePair(pairs, m, s)
           mine == {m} \X {s} \X pairs.store
<1>1. pairs \in PairsType /\ Begun /\ BackKnows /\ IsMap(pairs.new) /\ OneBack(pairs.new)
  BY DEF PairsInv, PairsTypeOK
<1>2. /\ t.left = pairs.left /\ t.store = pairs.store
      /\ \/ t.new = pairs.new /\ pairs.back \subseteq t.back
         \/ /\ ~Clash(pairs.back, s, m) /\ ~Clash(pairs.new, m, s)
            /\ t.back = pairs.back \cup {<<s, m>>}
            /\ t.new = pairs.new \cup mine
  BY <1>1, TakePair_Fields
<1> HIDE DEF t
<1>3. CASE t.new = pairs.new /\ pairs.back \subseteq t.back
  <2>1. /\ \A p \in t.new : p[3] \notin t.left
        /\ \A p \in t.new : p[3] \in t.store => <<p[2], p[1]>> \in t.back
    BY <1>1, <1>2, <1>3 DEF Begun, BackKnows
  <2>2. QED
    BY <1>1, <1>3, <2>1 DEF t
<1>4. CASE /\ ~Clash(pairs.back, s, m) /\ ~Clash(pairs.new, m, s)
           /\ t.back = pairs.back \cup {<<s, m>>}
           /\ t.new = pairs.new \cup mine
  <2>1. \A p \in mine : p[1] = m /\ p[2] = s /\ p[3] \in pairs.store
    OBVIOUS
  <2> HIDE DEF mine
  <2>2. \A p \in t.new : p[3] \notin t.left
    BY <1>1, <1>2, <1>4, <2>1 DEF Begun
  <2>3. \A p \in t.new : p[3] \in t.store => <<p[2], p[1]>> \in t.back
    BY <1>1, <1>2, <1>4, <2>1 DEF BackKnows
  <2>4. \A p \in pairs.new : p[1] = m => p[2] = s
    BY <1>4 DEF Clash
  <2>5. IsMap(t.new)
    BY <1>1, <1>4, <2>1, <2>4 DEF IsMap
  <2>6. ASSUME NEW p \in pairs.new, p[3] \in pairs.store, p[2] = s
        PROVE  p[1] = m
    <3>1. <<s, p[1]>> \in pairs.back
      BY <1>1, <2>6 DEF BackKnows
    <3>2. <<s, p[1]>>[1] = s /\ <<s, p[1]>>[2] = p[1]
      OBVIOUS
    <3>3. QED
      BY <1>4, <3>1, <3>2 DEF Clash
  <2>7. OneBack(t.new)
    BY <1>1, <1>4, <2>1, <2>6 DEF OneBack
  <2>8. QED
    BY <2>2, <2>3, <2>5, <2>7 DEF t
<1>5. QED
  BY <1>2, <1>3, <1>4 DEF t

-----------------------------------------------------------------------------
(* Every step keeps it *)

LEMMA Idle_Inv ==
  ASSUME PairsInv, pairs' = PairsIdle, ListingOK', mapping' \in SUBSET Pair
  PROVE  PairsInv'
<1>1. PairsTypeOK'
  BY IdleOK DEF PairsTypeOK
<1>2. QED
  BY <1>1 DEF PairsInv, PairsIdle, PageThere, OneStore, Begun, BackKnows, IsMap, OneBack,
     SavedMap

LEMMA Start_Inv == PairsInv /\ PairsStart => PairsInv'
<1> SUFFICES ASSUME PairsInv, PairsStart PROVE PairsInv'
  OBVIOUS
<1>1. pairs' \in PairsType
  BY IdleOK DEF PairsStart, PairsType
<1>2. pairs'.pc = "store" /\ pairs'.new = {} /\ pairs'.store = {}
  BY DEF PairsStart, PairsIdle
<1>3. PairsTypeOK' /\ ListingOK'
  BY <1>1 DEF PairsStart, PairsInv, PairsTypeOK, ListingOK
<1>4. QED
  BY <1>2, <1>3 DEF PairsInv, PageThere, OneStore, Begun, BackKnows, IsMap, OneBack, SavedMap

LEMMA NextStore_Inv == PairsInv /\ NextStore => PairsInv'
<1> SUFFICES ASSUME PairsInv, NextStore PROVE PairsInv'
  OBVIOUS
<1>1. PICK s \in pairs.left :
        pairs' = [pairs EXCEPT !.pc = "page", !.left = @ \ {s}, !.store = {s},
                               !.offset = 0, !.forth = {}, !.back = {}]
  BY DEF NextStore
<1>2. pairs \in PairsType /\ Begun /\ mapping \in SUBSET Pair
  BY DEF PairsInv, PairsTypeOK
<1>3. s \in Stores
  BY <1>2 DEF PairsType
<1>4. pairs' \in PairsType
  BY <1>1, <1>2, <1>3 DEF PairsType
<1>5. /\ pairs'.pc = "page" /\ pairs'.left = pairs.left \ {s} /\ pairs'.store = {s}
      /\ pairs'.new = pairs.new
  BY <1>1, <1>2 DEF PairsType
<1>6. PairsTypeOK' /\ ListingOK'
  BY <1>4 DEF NextStore, PairsInv, PairsTypeOK, ListingOK
<1>7. Begun' /\ BackKnows'
  BY <1>2, <1>5 DEF Begun, BackKnows
<1>8. IsMap(pairs'.new) /\ OneBack(pairs'.new)
  BY <1>5 DEF PairsInv
<1>9. QED
  BY <1>3, <1>5, <1>6, <1>7, <1>8 DEF PairsInv, PageThere, OneStore, SavedMap

LEMMA Page_Inv == PairsInv /\ PairPageRead => PairsInv'
<1> SUFFICES ASSUME PairsInv, PairPageRead PROVE PairsInv'
  OBVIOUS
<1>1. /\ pairs \in PairsType /\ pairs.pc = "page" /\ ListingOK
      /\ mapping' = mapping /\ listing' = listing /\ mapping \in SUBSET Pair
  BY DEF PairsInv, PairPageRead, PairsTypeOK
<1>2. ListingOK' /\ mapping' \in SUBSET Pair
  BY <1>1 DEF ListingOK
<1>3. PICK s \in Stores : pairs.store = {s}
  BY <1>1 DEF PairsInv, OneStore
<1>4. ASSUME pairs' \in PairsType, pairs'.left = pairs.left, pairs'.store = pairs.store,
             pairs'.new = pairs.new, pairs'.back = pairs.back,
             pairs'.pc \in {"store", "item"},
             pairs'.pc = "item" => pairs'.page # <<>>
      PROVE  PairsInv'
  <2>1. PairsTypeOK'
    BY <1>1, <1>4 DEF PairsTypeOK
  <2>2. Begun' /\ BackKnows' /\ IsMap(pairs'.new) /\ OneBack(pairs'.new)
    BY <1>4 DEF PairsInv, Begun, BackKnows
  <2>3. PageThere' /\ OneStore' /\ SavedMap'
    BY <1>3, <1>4 DEF PageThere, OneStore, SavedMap
  <2>4. QED
    BY <1>2, <2>1, <2>2, <2>3 DEF PairsInv
<1>5. CASE pairs' = [pairs EXCEPT !.pc = "store"]
  BY <1>1, <1>4, <1>5 DEF PairsType
<1>6. CASE pairs' = [pairs EXCEPT !.pc = "store", !.skewed = TRUE]
  BY <1>1, <1>4, <1>6 DEF PairsType
<1>7. CASE /\ PageOf(s) # <<>>
           /\ pairs' = [pairs EXCEPT !.pc = "item", !.page = PageOf(s),
                                     !.full = Len(PageOf(s)) = PairPage,
                                     !.offset = @ + Len(PageOf(s))]
  <2>1. pairs.offset \in Nat
    BY <1>1 DEF PairsType
  <2>2. PageOf(s) \in Seq(Item)
    BY <1>1, <2>1, PageOf_Type
  <2> DEFINE pg == PageOf(s)
  <2> HIDE DEF pg
  <2>3. Len(pg) \in Nat /\ pg \in Seq(Item)
    BY <2>2 DEF pg
  <2>4. pairs' = [pairs EXCEPT !.pc = "item", !.page = pg, !.full = Len(pg) = PairPage,
                               !.offset = @ + Len(pg)]
    BY <1>7 DEF pg
  <2>5. (Len(pg) = PairPage) \in BOOLEAN /\ pairs.offset + Len(pg) \in Nat
    BY <2>1, <2>3
  <2>6. pairs' \in PairsType
    BY <1>1, <2>3, <2>4, <2>5 DEF PairsType, Item
  <2>7. /\ pairs'.pc = "item" /\ pairs'.page = pg /\ pairs'.left = pairs.left
        /\ pairs'.store = pairs.store /\ pairs'.new = pairs.new /\ pairs'.back = pairs.back
    BY <1>1, <2>4 DEF PairsType
  <2>8. QED
    BY <1>4, <1>7, <2>6, <2>7 DEF pg
<1>8. CASE pairs' = PairsIdle
  BY <1>2, <1>8, Idle_Inv
<1>9. QED
  BY <1>3, <1>5, <1>6, <1>7, <1>8 DEF PairPageRead

\* The fields of a run after a pair of its page.
LEMMA Item_Fields ==
  ASSUME PairsInv, PairItem
  PROVE  \E it \in Item :
           LET t == TakePair(pairs, it[1], it[2])
           IN /\ it = Head(pairs.page)
              /\ pairs' \in PairsType
              /\ pairs'.left = pairs.left /\ pairs'.store = pairs.store
              /\ pairs'.new = t.new /\ pairs'.back = t.back /\ pairs'.page = Tail(pairs.page)
              /\ pairs'.offset = pairs.offset /\ pairs'.full = pairs.full
              /\ pairs'.conflict = t.conflict /\ pairs'.skewed = pairs.skewed
              /\ \/ pairs'.pc = "item" /\ Len(pairs.page) > 1
                 \/ pairs'.pc = AfterPage /\ Len(pairs.page) <= 1
<1> DEFINE it == Head(pairs.page)
           t  == TakePair(pairs, it[1], it[2])
           next == IF Len(pairs.page) > 1 THEN "item" ELSE AfterPage
<1>1. pairs \in PairsType /\ pairs.pc = "item" /\ pairs.page # <<>> /\ pairs.page \in Seq(Item)
  BY DEF PairsInv, PairItem, PairsTypeOK, PageThere, PairsType, Item
<1>2. it \in Item /\ Tail(pairs.page) \in Seq(Item)
  BY <1>1
<1>3. it[1] \in MSkus /\ it[2] \in Skus \cup {""}
  BY <1>2 DEF Item
<1>4. /\ t \in PairsType /\ t.left = pairs.left /\ t.store = pairs.store
      /\ t.page = pairs.page /\ t.pc = pairs.pc /\ t.offset = pairs.offset
      /\ t.full = pairs.full /\ t.skewed = pairs.skewed
  BY <1>1, <1>3, TakePair_Fields
<1>5. pairs' = [t EXCEPT !.page = Tail(@), !.pc = next]
  BY DEF PairItem
<1>6. /\ next \in {"item", "page", "store"}
      /\ \/ next = "item" /\ Len(pairs.page) > 1
         \/ next = AfterPage /\ Len(pairs.page) <= 1
  <2>1. Len(pairs.page) \in Nat
    BY <1>1
  <2>2. QED
    BY <2>1 DEF AfterPage
<1> HIDE DEF t, next
<1>7. pairs' \in PairsType
  BY <1>2, <1>4, <1>5, <1>6 DEF PairsType, Item
<1>8. /\ pairs'.left = pairs.left /\ pairs'.store = pairs.store /\ pairs'.new = t.new
      /\ pairs'.back = t.back /\ pairs'.page = Tail(pairs.page) /\ pairs'.pc = next
      /\ pairs'.offset = pairs.offset /\ pairs'.full = pairs.full
      /\ pairs'.conflict = t.conflict /\ pairs'.skewed = pairs.skewed
  BY <1>4, <1>5 DEF PairsType
<1>9. QED
  BY <1>2, <1>6, <1>7, <1>8 DEF t

LEMMA Item_Inv == PairsInv /\ PairItem => PairsInv'
<1> SUFFICES ASSUME PairsInv, PairItem PROVE PairsInv'
  OBVIOUS
<1>1. PICK it \in Item :
        LET t == TakePair(pairs, it[1], it[2])
        IN /\ pairs' \in PairsType
           /\ pairs'.left = pairs.left /\ pairs'.store = pairs.store
           /\ pairs'.new = t.new /\ pairs'.back = t.back /\ pairs'.page = Tail(pairs.page)
           /\ \/ pairs'.pc = "item" /\ Len(pairs.page) > 1
              \/ pairs'.pc \in {"page", "store"}
  BY Item_Fields DEF AfterPage
<1> DEFINE t == TakePair(pairs, it[1], it[2])
<1>2. /\ pairs \in PairsType /\ pairs.pc = "item" /\ listing' = listing /\ mapping' = mapping
      /\ pairs.page \in Seq(Item) /\ mapping \in SUBSET Pair /\ ListingOK
  BY DEF PairsInv, PairItem, PairsTypeOK, PairsType, Item
<1>3. it[1] \in MSkus /\ it[2] \in Skus \cup {""}
  BY DEF Item
<1>4. t.left = pairs.left /\ t.store = pairs.store
  BY <1>2, <1>3, TakePair_Fields
<1>5. /\ \A p \in t.new : p[3] \notin t.left
      /\ \A p \in t.new : p[3] \in t.store => <<p[2], p[1]>> \in t.back
      /\ IsMap(t.new) /\ OneBack(t.new)
  BY <1>2, <1>3, TakePair_Inv
<1> HIDE DEF t
<1>6. /\ pairs'.left = pairs.left /\ pairs'.store = pairs.store /\ pairs'.new = t.new
      /\ pairs'.back = t.back
  BY <1>1 DEF t
<1>7. Begun' /\ BackKnows' /\ IsMap(pairs'.new) /\ OneBack(pairs'.new)
  BY <1>4, <1>5, <1>6 DEF PairsInv, Begun, BackKnows
<1>8. PairsTypeOK' /\ ListingOK'
  BY <1>1, <1>2 DEF PairsTypeOK, ListingOK
<1>9. PageThere'
  <2>1. ASSUME Len(pairs.page) > 1
        PROVE  Tail(pairs.page) # <<>>
    <3>1. pairs.page \in Seq(Item) /\ pairs.page # <<>>
      BY <1>2 DEF PairsInv, PageThere
    <3>2. Len(Tail(pairs.page)) = Len(pairs.page) - 1 /\ Len(pairs.page) \in Nat
      BY <3>1, HeadTailProperties, LenProperties
    <3>3. QED
      BY <2>1, <3>2, EmptySeq
  <2>2. QED
    BY <1>1, <2>1 DEF PageThere
<1>10. OneStore' /\ SavedMap'
  BY <1>1, <1>2, <1>6 DEF PairsInv, OneStore, SavedMap
<1>11. QED
  BY <1>6, <1>7, <1>8, <1>9, <1>10 DEF PairsInv

LEMMA Save_Inv == PairsInv /\ PairsSave => PairsInv'
<1> SUFFICES ASSUME PairsInv, PairsSave PROVE PairsInv'
  OBVIOUS
<1>1. pairs \in PairsType /\ ListingOK /\ listing' = listing /\ mapping \in SUBSET Pair
  BY DEF PairsInv, PairsSave, PairsTypeOK
<1>2. ListingOK'
  BY <1>1 DEF ListingOK
<1>3. CASE mapping' = {<<p[1], p[2]>> : p \in pairs.new} /\ pairs' = [pairs EXCEPT !.pc = "saved"]
  <2>1. pairs' \in PairsType
    BY <1>1, <1>3 DEF PairsType
  <2>2. /\ pairs'.pc = "saved" /\ pairs'.left = pairs.left /\ pairs'.store = pairs.store
        /\ pairs'.new = pairs.new /\ pairs'.back = pairs.back
    BY <1>1, <1>3 DEF PairsType
  <2>3. \A p \in pairs.new : <<p[1], p[2]>> \in Pair
    BY <1>1 DEF PairsType, Pair
  <2>4. mapping' \in SUBSET Pair
    BY <1>3, <2>3
  <2>5. IsMap(mapping')
    <3>1. \A q \in mapping' : \E p \in pairs.new : q[1] = p[1] /\ q[2] = p[2]
      BY <1>3
    <3>2. QED
      BY <3>1 DEF PairsInv, IsMap
  <2>6. Begun' /\ BackKnows' /\ IsMap(pairs'.new) /\ OneBack(pairs'.new)
    BY <2>2 DEF PairsInv, Begun, BackKnows
  <2>7. QED
    BY <1>2, <2>1, <2>2, <2>4, <2>5, <2>6
       DEF PairsInv, PairsTypeOK, PageThere, OneStore, SavedMap
<1>4. CASE pairs' = PairsIdle /\ UNCHANGED mapping
  BY <1>1, <1>2, <1>4, Idle_Inv
<1>5. QED
  BY <1>3, <1>4 DEF PairsSave

LEMMA Shift_Inv == PairsInv /\ Shift => PairsInv'
<1> SUFFICES ASSUME PairsInv, Shift PROVE PairsInv'
  OBVIOUS
<1>1. pairs \in PairsType /\ ListingOK /\ mapping' = mapping /\ mapping \in SUBSET Pair
  BY DEF PairsInv, Shift, PairsTypeOK
<1>2. pairs' = [pairs EXCEPT !.skewed = TRUE] /\ pairs.pc = "page"
  BY DEF Shift
<1>3. pairs' \in PairsType
  BY <1>1, <1>2 DEF PairsType
<1>4. /\ pairs'.pc = pairs.pc /\ pairs'.left = pairs.left /\ pairs'.store = pairs.store
      /\ pairs'.new = pairs.new /\ pairs'.back = pairs.back
  BY <1>1, <1>2 DEF PairsType
<1>5. ListingOK'
  <2>1. PICK s \in Stores, i \in MSkus \X Skus :
          listing[s] # <<>> /\ listing' = [listing EXCEPT ![s] = Append(Tail(@), i)]
    BY DEF Shift
  <2>2. listing \in [Stores -> Seq(Item)] /\ i \in Item
    BY <1>1 DEF ListingOK, Item
  <2>3. Append(Tail(listing[s]), i) \in Seq(Item)
    BY <2>1, <2>2
  <2>4. listing' \in [Stores -> Seq(Item)]
    BY <2>1, <2>2, <2>3
  <2>5. QED
    BY <2>4 DEF ListingOK, Item
<1>6. Begun' /\ BackKnows' /\ IsMap(pairs'.new) /\ OneBack(pairs'.new) /\ OneStore'
  BY <1>4 DEF PairsInv, Begun, BackKnows, OneStore
<1>7. QED
  BY <1>1, <1>2, <1>3, <1>4, <1>5, <1>6 DEF PairsInv, PairsTypeOK, PageThere, SavedMap

-----------------------------------------------------------------------------
(* Paging: while no list has changed and nothing conflicted, the pairs of a *)
(* store that are taken are the first ones of its list, as many as the      *)
(* offset says without those of the page that are still to come.            *)

Upto(s, n) ==
    /\ \A i \in 1..n : <<listing[s][i][1], listing[s][i][2], s>> \in pairs.new
    /\ \A p \in pairs.new : p[3] = s =>
          \E i \in 1..n : p[1] = listing[s][i][1] /\ p[2] = listing[s][i][2]

Come == pairs.offset - Len(pairs.page)

Reading(s) ==
    /\ Come \in Nat /\ pairs.offset <= Len(listing[s])
    /\ \A i \in 1..Len(pairs.page) : pairs.page[i] = listing[s][Come + i]
    /\ Upto(s, Come)
    /\ pairs.pc = "item" /\ ~pairs.full => pairs.offset = Len(listing[s])

Behind(s) == /\ pairs.pc # "idle" /\ s \notin pairs.left
             /\ ~(pairs.pc \in {"page", "item"} /\ s \in pairs.store)

Fine == ~pairs.skewed /\ ~pairs.conflict

PagingInv ==
    /\ pairs.pc # "item" => pairs.page = <<>>
    /\ Fine => \A s \in Stores : Behind(s) => Upto(s, Len(listing[s]))
    /\ Fine /\ pairs.pc \in {"page", "item"} => \A s \in pairs.store : Reading(s)
    /\ pairs.pc = "saved" => /\ ~pairs.conflict /\ pairs.left = {}
                             /\ mapping = {<<p[1], p[2]>> : p \in pairs.new}

LEMMA PairsInit_Paging == PairsInit => PagingInv
  BY DEF PairsInit, PagingInv, PairsIdle, Behind

LEMMA Idle_Paging == pairs' = PairsIdle => PagingInv'
  BY DEF PagingInv, PairsIdle, Behind

LEMMA Start_Paging == PairsInv /\ PairsStart => PagingInv'
<1> SUFFICES ASSUME PairsInv, PairsStart PROVE PagingInv'
  OBVIOUS
<1>1. pairs'.pc = "store" /\ pairs'.page = <<>> /\ pairs'.left = Stores
  BY DEF PairsStart, PairsIdle
<1>2. QED
  BY <1>1 DEF PagingInv, Behind

LEMMA NextStore_Paging == PairsInv /\ PagingInv /\ NextStore => PagingInv'
<1> SUFFICES ASSUME PairsInv, PagingInv, NextStore PROVE PagingInv'
  OBVIOUS
<1>1. PICK s \in pairs.left :
        pairs' = [pairs EXCEPT !.pc = "page", !.left = @ \ {s}, !.store = {s},
                               !.offset = 0, !.forth = {}, !.back = {}]
  BY DEF NextStore
<1>2. pairs \in PairsType /\ Begun /\ pairs.pc = "store" /\ ListingOK /\ listing' = listing
  BY DEF PairsInv, PairsTypeOK, NextStore
<1>3. s \in Stores /\ Len(listing[s]) \in Nat
  <2>1. s \in Stores /\ listing[s] \in Seq(Item)
    BY <1>2 DEF PairsType, ListingOK, Item
  <2>2. QED
    BY <2>1
<1>4. /\ pairs'.pc = "page" /\ pairs'.left = pairs.left \ {s} /\ pairs'.store = {s}
      /\ pairs'.new = pairs.new /\ pairs'.page = pairs.page /\ pairs'.offset = 0
      /\ pairs'.conflict = pairs.conflict /\ pairs'.skewed = pairs.skewed
  BY <1>1, <1>2 DEF PairsType
<1>5. pairs'.page = <<>> /\ Len(pairs'.page) = 0
  BY <1>2, <1>4 DEF PagingInv
<1>6. ASSUME Fine', NEW t \in Stores, Behind(t)'
      PROVE  Upto(t, Len(listing[t]))'
  BY <1>2, <1>4, <1>6 DEF PagingInv, Fine, Behind, Upto
<1>7. Reading(s)'
  <2>1. Come' = 0 /\ Come' \in Nat
    <3>1. pairs'.offset = 0 /\ Len(pairs'.page) = 0
      BY <1>4, <1>5
    <3>2. QED
      BY <3>1 DEF Come
  <2>2. \A p \in pairs'.new : p[3] # s
    BY <1>2, <1>4 DEF Begun
  <2>3. Upto(s, Come)'
    BY <2>1, <2>2 DEF Upto
  <2>4. pairs'.offset <= Len(listing'[s])
    BY <1>2, <1>3, <1>4
  <2>5. \A i \in 1..Len(pairs'.page) : FALSE
    BY <1>5
  <2>6. QED
    BY <1>4, <2>1, <2>3, <2>4, <2>5 DEF Reading
<1>8. QED
  BY <1>4, <1>5, <1>6, <1>7 DEF PagingInv

\* A page has the next pairs of the list; one that is not full ends it.
LEMMA PageOf_Next ==
  ASSUME ListingOK, pairs.offset \in Nat, NEW s \in Stores,
         pairs.offset <= Len(listing[s])
  PROVE  LET pg == PageOf(s)
         IN /\ pg \in Seq(Item) /\ Len(pg) \in Nat
            /\ pairs.offset + Len(pg) <= Len(listing[s])
            /\ \A i \in 1..Len(pg) : pg[i] = listing[s][pairs.offset + i]
            /\ Len(pg) # PairPage => pairs.offset + Len(pg) = Len(listing[s])
<1> DEFINE list == listing[s]
           o    == pairs.offset
           last == o + (IF Len(list) - o < PairPage THEN Len(list) - o ELSE PairPage)
           pg   == SubSeq(list, o + 1, last)
<1>1. PageOf(s) = pg
  BY DEF PageOf
<1>2. list \in Seq(Item) /\ Len(list) \in Nat
  <2>1. list \in Seq(Item)
    BY DEF ListingOK, Item
  <2>2. QED
    BY <2>1
<1>3. PairPage \in Nat /\ PairPage # 0
  BY PairAssumption DEF PairAssumption
<1>4. /\ last \in Nat /\ o <= last /\ last <= Len(list) /\ o \in Nat
      /\ last - o # PairPage => last = Len(list)
  BY <1>2, <1>3
<1> HIDE DEF last, list, o
<1>5. \A i \in (o + 1)..last : list[i] \in Item
  BY <1>2, <1>4
<1>6. /\ pg \in Seq(Item)
      /\ Len(pg) = IF o + 1 <= last THEN last - (o + 1) + 1 ELSE 0
      /\ \A i \in 1..(last - (o + 1) + 1) : pg[i] = list[(o + 1) + i - 1]
  BY <1>4, <1>5, SubSeqProperties
<1>7. Len(pg) = last - o
  BY <1>4, <1>6
<1>8. \A i \in 1..Len(pg) : pg[i] = list[o + i]
  BY <1>4, <1>6, <1>7
<1> HIDE DEF pg
<1>9. /\ pg \in Seq(Item) /\ Len(pg) \in Nat /\ o + Len(pg) <= Len(list)
      /\ Len(pg) # PairPage => o + Len(pg) = Len(list)
  BY <1>4, <1>6, <1>7
<1>10. QED
  BY <1>1, <1>8, <1>9 DEF list, o

LEMMA Page_Paging == PairsInv /\ PagingInv /\ PairPageRead => PagingInv'
<1> SUFFICES ASSUME PairsInv, PagingInv, PairPageRead PROVE PagingInv'
  OBVIOUS
<1>1. /\ pairs \in PairsType /\ pairs.pc = "page" /\ ListingOK /\ listing' = listing
      /\ pairs.page = <<>>
  BY DEF PairsInv, PairPageRead, PairsTypeOK, PagingInv
<1>2. PICK s \in Stores : pairs.store = {s}
  BY <1>1 DEF PairsInv, OneStore
<1>3. pairs.offset \in Nat /\ Come = pairs.offset
  <2>1. pairs.offset \in Nat /\ Len(pairs.page) = 0
    BY <1>1 DEF PairsType
  <2>2. QED
    BY <2>1 DEF Come
<1>4. Fine => /\ pairs.offset <= Len(listing[s]) /\ Upto(s, pairs.offset)
              /\ \A t \in Stores : t \notin pairs.left /\ t # s => Upto(t, Len(listing[t]))
  BY <1>1, <1>2, <1>3 DEF PagingInv, Reading, Behind
<1> DEFINE pg == PageOf(s)
<1>5. Fine => /\ pg \in Seq(Item) /\ Len(pg) \in Nat
              /\ pairs.offset + Len(pg) <= Len(listing[s])
              /\ \A i \in 1..Len(pg) : pg[i] = listing[s][pairs.offset + i]
              /\ Len(pg) # PairPage => pairs.offset + Len(pg) = Len(listing[s])
  BY <1>1, <1>3, <1>4, PageOf_Next
<1>6. pg \in Seq(Item) /\ Len(pg) \in Nat
  <2>1. pg \in Seq(Item)
    BY <1>1, <1>3, PageOf_Type
  <2>2. QED
    BY <2>1
<1> HIDE DEF pg
<1>7. CASE pg = <<>> /\ pairs' = [pairs EXCEPT !.pc = "store"]
  <2>1. /\ pairs'.pc = "store" /\ pairs'.page = <<>> /\ pairs'.left = pairs.left
        /\ pairs'.new = pairs.new
        /\ pairs'.conflict = pairs.conflict /\ pairs'.skewed = pairs.skewed
    BY <1>1, <1>7 DEF PairsType
  <2>2. Fine => pairs.offset = Len(listing[s])
    <3>1. Len(pg) = 0 /\ PairPage # 0
      BY <1>7, PairAssumption DEF PairAssumption
    <3>2. QED
      BY <1>3, <1>5, <3>1
  <2>3. ASSUME Fine', NEW t \in Stores, Behind(t)'
        PROVE  Upto(t, Len(listing[t]))'
    <3>1. Fine /\ t \notin pairs.left
      BY <2>1, <2>3 DEF Fine, Behind
    <3>2. Upto(t, Len(listing[t]))
      BY <1>4, <2>2, <3>1
    <3>3. QED
      BY <1>1, <2>1, <3>2 DEF Upto
  <2>4. QED
    BY <2>1, <2>3 DEF PagingInv
<1>8. CASE pairs' = [pairs EXCEPT !.pc = "store", !.skewed = TRUE]
  <2>1. pairs'.pc = "store" /\ pairs'.page = <<>> /\ pairs'.skewed
    BY <1>1, <1>8 DEF PairsType
  <2>2. QED
    BY <2>1 DEF PagingInv, Fine
<1>9. CASE pairs' = [pairs EXCEPT !.pc = "item", !.page = pg, !.full = Len(pg) = PairPage,
                                  !.offset = @ + Len(pg)]
  <2>1. /\ pairs'.pc = "item" /\ pairs'.page = pg /\ pairs'.left = pairs.left
        /\ pairs'.store = {s} /\ pairs'.new = pairs.new
        /\ pairs'.offset = pairs.offset + Len(pg) /\ pairs'.full = (Len(pg) = PairPage)
        /\ pairs'.conflict = pairs.conflict /\ pairs'.skewed = pairs.skewed
    BY <1>1, <1>2, <1>9 DEF PairsType
  <2>2. Come' = pairs.offset
    BY <1>3, <1>6, <2>1 DEF Come
  <2>3. ASSUME Fine', NEW t \in Stores, Behind(t)'
        PROVE  Upto(t, Len(listing[t]))'
    <3>1. Fine /\ t \notin pairs.left /\ t # s
      BY <2>1, <2>3 DEF Fine, Behind
    <3>2. Upto(t, Len(listing[t]))
      BY <1>4, <3>1
    <3>3. QED
      BY <1>1, <2>1, <3>2 DEF Upto
  <2>4. ASSUME Fine'
        PROVE  Reading(s)'
    <3>1. Fine
      BY <2>1, <2>4 DEF Fine
    <3>2. Upto(s, Come)'
      BY <1>1, <1>4, <2>1, <2>2, <3>1 DEF Upto
    <3>3. \A i \in 1..Len(pairs'.page) : pairs'.page[i] = listing'[s][Come' + i]
      BY <1>1, <1>5, <2>1, <2>2, <3>1
    <3>4. /\ Come' \in Nat /\ pairs'.offset <= Len(listing'[s])
          /\ ~pairs'.full => pairs'.offset = Len(listing'[s])
      BY <1>1, <1>3, <1>5, <2>1, <2>2, <3>1
    <3>5. QED
      BY <3>2, <3>3, <3>4 DEF Reading
  <2>5. QED
    BY <2>1, <2>3, <2>4 DEF PagingInv
<1>10. CASE pairs' = PairsIdle
  BY <1>10, Idle_Paging
<1>11. QED
  BY <1>2, <1>7, <1>8, <1>9, <1>10 DEF PairPageRead, pg

LEMMA Item_Paging == PairsInv /\ PagingInv /\ PairItem => PagingInv'
<1> SUFFICES ASSUME PairsInv, PagingInv, PairItem PROVE PagingInv'
  OBVIOUS
<1>1. PICK it \in Item :
        LET t == TakePair(pairs, it[1], it[2])
        IN /\ it = Head(pairs.page)
           /\ pairs'.left = pairs.left /\ pairs'.store = pairs.store
           /\ pairs'.new = t.new /\ pairs'.page = Tail(pairs.page)
           /\ pairs'.offset = pairs.offset /\ pairs'.full = pairs.full
           /\ pairs'.conflict = t.conflict /\ pairs'.skewed = pairs.skewed
           /\ \/ pairs'.pc = "item" /\ Len(pairs.page) > 1
              \/ pairs'.pc = AfterPage /\ Len(pairs.page) <= 1
  BY Item_Fields
<1> DEFINE t == TakePair(pairs, it[1], it[2])
<1>2. /\ pairs \in PairsType /\ pairs.pc = "item" /\ listing' = listing
      /\ pairs.page \in Seq(Item) /\ pairs.page # <<>> /\ pairs.offset \in Nat
  BY DEF PairsInv, PairItem, PairsTypeOK, PairsType, PageThere, Item
<1>3. PICK s \in Stores : pairs.store = {s}
  BY <1>2 DEF PairsInv, OneStore
<1>4. it[1] \in MSkus /\ it[2] \in Skus \cup {""}
  BY DEF Item
<1>5. \/ t.new = pairs.new /\ t.conflict
      \/ /\ t.conflict = pairs.conflict
         /\ t.new = pairs.new \cup ({it[1]} \X {it[2]} \X pairs.store)
  BY <1>2, <1>4, TakePair_Fields
<1> HIDE DEF t
<1>6. /\ pairs'.left = pairs.left /\ pairs'.store = {s} /\ pairs'.new = t.new
      /\ pairs'.page = Tail(pairs.page) /\ pairs'.offset = pairs.offset
      /\ pairs'.full = pairs.full /\ pairs'.conflict = t.conflict
      /\ pairs'.skewed = pairs.skewed
      /\ \/ pairs'.pc = "item" /\ Len(pairs.page) > 1
         \/ pairs'.pc = (IF pairs.full THEN "page" ELSE "store") /\ Len(pairs.page) <= 1
  BY <1>1, <1>3 DEF t, AfterPage
<1>7. /\ Len(pairs.page) \in Nat \ {0} /\ Len(Tail(pairs.page)) = Len(pairs.page) - 1
      /\ Tail(pairs.page) \in Seq(Item)
      /\ \A i \in 1..Len(Tail(pairs.page)) : Tail(pairs.page)[i] = pairs.page[i + 1]
      /\ it = pairs.page[1]
  BY <1>1, <1>2, HeadTailProperties, EmptySeq
<1>8. pairs'.pc # "item" => pairs'.page = <<>>
  BY <1>6, <1>7, EmptySeq
<1>9. ASSUME Fine'
      PROVE  /\ Fine /\ pairs'.new = pairs.new \cup ({it[1]} \X {it[2]} \X {s})
             /\ Reading(s)
             /\ \A u \in Stores : u \notin pairs.left /\ u # s => Upto(u, Len(listing[u]))
  <2>1. Fine /\ pairs'.new = pairs.new \cup ({it[1]} \X {it[2]} \X {s})
    BY <1>3, <1>5, <1>6, <1>9 DEF Fine
  <2>2. QED
    BY <1>2, <1>3, <2>1 DEF PagingInv, Behind
<1>10. Come' = Come + 1
  BY <1>2, <1>6, <1>7 DEF Come
<1>11. ASSUME Fine'
       PROVE  Upto(s, Come)' /\ Come \in Nat
  <2>1. Come \in Nat /\ Upto(s, Come) /\ it = listing[s][Come + 1]
    BY <1>7, <1>9, <1>11 DEF Reading
  <2>2. \A i \in 1..(Come + 1) : <<listing[s][i][1], listing[s][i][2], s>> \in pairs'.new
    BY <1>9, <1>11, <2>1 DEF Upto
  <2>3. ASSUME NEW p \in pairs'.new, p[3] = s
        PROVE  \E i \in 1..(Come + 1) : p[1] = listing[s][i][1] /\ p[2] = listing[s][i][2]
    <3>1. CASE p \in pairs.new
      BY <2>1, <2>3, <3>1 DEF Upto
    <3>2. CASE p[1] = it[1] /\ p[2] = it[2]
      BY <2>1, <3>2
    <3>3. QED
      BY <1>9, <1>11, <2>3, <3>1, <3>2
  <2>4. QED
    BY <1>2, <1>10, <2>1, <2>2, <2>3 DEF Upto
<1>12. ASSUME Fine', NEW u \in Stores, Behind(u)', u # s
       PROVE  Upto(u, Len(listing[u]))'
  <2>1. Upto(u, Len(listing[u]))
    BY <1>6, <1>9, <1>12 DEF Behind
  <2>2. \A p \in pairs'.new : p[3] = u => p \in pairs.new
    BY <1>9, <1>12
  <2>3. pairs.new \subseteq pairs'.new
    BY <1>9, <1>12
  <2>4. QED
    BY <1>2, <2>1, <2>2, <2>3 DEF Upto
<1>13. ASSUME Fine', pairs'.pc \in {"page", "item"}
       PROVE  Reading(s)'
  <2>1. /\ Come \in Nat /\ pairs.offset <= Len(listing[s])
        /\ \A i \in 1..Len(pairs.page) : pairs.page[i] = listing[s][Come + i]
        /\ ~pairs.full => pairs.offset = Len(listing[s])
    BY <1>2, <1>9, <1>13 DEF Reading
  <2>2. \A i \in 1..Len(pairs'.page) : pairs'.page[i] = listing'[s][Come' + i]
    <3>1. ASSUME NEW i \in 1..Len(Tail(pairs.page))
          PROVE  Tail(pairs.page)[i] = listing[s][Come + 1 + i]
      <4>1. i + 1 \in 1..Len(pairs.page)
        BY <1>7
      <4>2. pairs.page[i + 1] = listing[s][Come + (i + 1)]
        BY <2>1, <4>1
      <4>3. Come + (i + 1) = Come + 1 + i
        BY <2>1
      <4>4. QED
        BY <1>7, <4>2, <4>3
    <3>2. QED
      BY <1>2, <1>6, <1>10, <3>1
  <2>3. QED
    BY <1>2, <1>6, <1>10, <1>11, <1>13, <2>1, <2>2 DEF Reading
<1>14. ASSUME Fine', pairs'.pc = "store"
       PROVE  Upto(s, Len(listing[s]))'
  <2>1. ~pairs.full /\ Len(pairs.page) = 1
    <3>1. ~pairs.full
      BY <1>6, <1>14
    <3>2. Len(pairs.page) <= 1
      BY <1>6, <1>14
    <3>3. Len(pairs.page) \in Nat /\ Len(pairs.page) # 0
      BY <1>7
    <3>4. \A n \in Nat : n # 0 /\ n <= 1 => n = 1
      OBVIOUS
    <3>5. Len(pairs.page) = 1
      BY <3>2, <3>3, <3>4
    <3>6. QED
      BY <3>1, <3>5
  <2>2. pairs.offset = Len(listing[s])
    BY <1>2, <1>9, <1>14, <2>1 DEF Reading
  <2>3. Come' = Len(listing'[s])
    <3>1. pairs'.page = <<>>
      BY <1>8, <1>14
    <3>2. Len(pairs'.page) = 0 /\ pairs'.offset = Len(listing'[s]) /\ pairs'.offset \in Nat
      BY <1>2, <1>6, <2>2, <3>1
    <3>3. QED
      BY <3>2 DEF Come
  <2>4. QED
    BY <1>11, <1>14, <2>3
<1>15. pairs'.pc \in {"item", "page", "store"}
  BY <1>6
<1>16. Fine' => \A u \in Stores : Behind(u)' => Upto(u, Len(listing[u]))'
  BY <1>6, <1>12, <1>14, <1>15 DEF Behind
<1>17. QED
  BY <1>6, <1>8, <1>13, <1>15, <1>16 DEF PagingInv

LEMMA Save_Paging == PairsInv /\ PagingInv /\ PairsSave => PagingInv'
<1> SUFFICES ASSUME PairsInv, PagingInv, PairsSave PROVE PagingInv'
  OBVIOUS
<1>1. pairs \in PairsType /\ pairs.pc = "store" /\ pairs.left = {} /\ listing' = listing
  BY DEF PairsInv, PairsTypeOK, PairsSave
<1>2. CASE /\ ~pairs.conflict /\ mapping' = {<<p[1], p[2]>> : p \in pairs.new}
           /\ pairs' = [pairs EXCEPT !.pc = "saved"]
  <2>1. /\ pairs'.pc = "saved" /\ pairs'.left = {} /\ pairs'.new = pairs.new
        /\ pairs'.page = pairs.page /\ pairs'.store = pairs.store
        /\ pairs'.conflict = pairs.conflict /\ pairs'.skewed = pairs.skewed
    BY <1>1, <1>2 DEF PairsType
  <2>2. ASSUME Fine', NEW s \in Stores
        PROVE  Upto(s, Len(listing[s]))'
    BY <1>1, <2>1, <2>2 DEF PagingInv, Fine, Behind, Upto
  <2>3. pairs'.page = <<>>
    BY <1>1, <2>1 DEF PagingInv
  <2>4. QED
    BY <1>2, <2>1, <2>2, <2>3 DEF PagingInv
<1>3. CASE pairs' = PairsIdle
  BY <1>3, Idle_Paging
<1>4. QED
  BY <1>2, <1>3 DEF PairsSave

LEMMA Shift_Paging == PairsInv /\ PagingInv /\ Shift => PagingInv'
<1> SUFFICES ASSUME PairsInv, PagingInv, Shift PROVE PagingInv'
  OBVIOUS
<1>1. pairs \in PairsType /\ pairs.pc = "page" /\ pairs' = [pairs EXCEPT !.skewed = TRUE]
  BY DEF PairsInv, PairsTypeOK, Shift
<1>2. pairs'.skewed /\ pairs'.pc = "page" /\ pairs'.page = pairs.page
  BY <1>1 DEF PairsType
<1>3. QED
  BY <1>1, <1>2 DEF PagingInv, Fine

-----------------------------------------------------------------------------
\* The run stays in its types and the first invariant holds in every state of
\* every run of pull_sku_pair.
THEOREM PairsKept == PairsSpec => []PairsInv
<1>1. PairsInv /\ [PairsNext]_PairsVars => PairsInv'
  <2> SUFFICES ASSUME PairsInv, [PairsNext]_PairsVars PROVE PairsInv'
    OBVIOUS
  <2>1. CASE PairsStart
    BY <2>1, Start_Inv
  <2>2. CASE NextStore
    BY <2>2, NextStore_Inv
  <2>3. CASE PairPageRead
    BY <2>3, Page_Inv
  <2>4. CASE PairItem
    BY <2>4, Item_Inv
  <2>5. CASE PairsSave
    BY <2>5, Save_Inv
  <2>6. CASE Shift
    BY <2>6, Shift_Inv
  <2>7. CASE UNCHANGED PairsVars
    BY <2>7 DEF PairsVars, PairsInv, PairsTypeOK, ListingOK, PageThere, OneStore, Begun,
       BackKnows, SavedMap
  <2>8. QED
    BY <2>1, <2>2, <2>3, <2>4, <2>5, <2>6, <2>7 DEF PairsNext
<1>2. QED
  BY PairsInit_Inv, <1>1, PTL DEF PairsSpec

\* What pull_sku_pair saves is a map, and within each store it can be read
\* backwards, whatever LingXing listed, in however many pages, and whatever
\* failed or changed meanwhile.
THEOREM MappingUsable == PairsSpec => []SavedIsMap
<1>1. PairsInv => SavedIsMap
  BY DEF PairsInv, SavedMap, SavedIsMap, IsMap, OneBack
<1>2. QED
  BY PairsKept, <1>1, PTL

\* A pair is made of its two parts.
LEMMA TwoParts == ASSUME NEW A, NEW B PROVE \A x \in A \X B : x = <<x[1], x[2]>>
  OBVIOUS

\* A saved mapping has the whole lists of all stores: by the two invariants.
LEMMA PagingWhole == PairsInv /\ PagingInv => SavedIsListing
<1> SUFFICES ASSUME PairsInv, PagingInv, pairs.pc = "saved", ~pairs.skewed
             PROVE  /\ mapping = UNION {ListedPairs(s) : s \in Stores}
                    /\ Apart => ReverseWorks(mapping)
  BY DEF SavedIsListing
<1>1. /\ pairs \in PairsType /\ mapping = {<<p[1], p[2]>> : p \in pairs.new}
      /\ OneBack(pairs.new)
  BY DEF PairsInv, PairsTypeOK, PagingInv
<1>2. \A p \in pairs.new : p[3] \in Stores
  BY <1>1 DEF PairsType
<1>3. \A s \in Stores : Upto(s, Len(listing[s]))
  BY DEF PagingInv, Fine, Behind
<1>4. ASSUME NEW s \in Stores, NEW i \in 1..Len(listing[s])
      PROVE  listing[s][i] = <<listing[s][i][1], listing[s][i][2]>>
  <2>1. listing[s] \in Seq(Item)
    BY DEF PairsInv, ListingOK, Item
  <2>2. listing[s][i] \in Item
    BY <2>1
  <2>3. QED
    BY <2>2, TwoParts DEF Item
<1>5. ASSUME NEW q \in mapping
      PROVE  \E p \in pairs.new : q = <<p[1], p[2]>> /\ q \in ListedPairs(p[3])
  <2>1. PICK p \in pairs.new : q = <<p[1], p[2]>>
    BY <1>1
  <2>2. PICK s \in Stores : s = p[3]
    BY <1>2
  <2>3. Upto(s, Len(listing[s]))
    BY <1>3
  <2>4. PICK i \in 1..Len(listing[s]) : p[1] = listing[s][i][1] /\ p[2] = listing[s][i][2]
    BY <2>2, <2>3 DEF Upto
  <2>5. q = listing[s][i]
    BY <1>4, <2>1, <2>4
  <2>6. QED
    BY <2>1, <2>2, <2>5 DEF ListedPairs
<1>6. ASSUME NEW s \in Stores, NEW q \in ListedPairs(s)
      PROVE  q \in mapping
  <2>1. PICK i \in 1..Len(listing[s]) : q = listing[s][i]
    BY DEF ListedPairs
  <2> DEFINE p == <<listing[s][i][1], listing[s][i][2], s>>
  <2>2. p \in pairs.new /\ q = <<p[1], p[2]>>
    BY <1>3, <1>4, <2>1 DEF Upto
  <2> HIDE DEF p
  <2>3. QED
    BY <1>1, <2>2
<1>7. mapping = UNION {ListedPairs(s) : s \in Stores}
  BY <1>2, <1>5, <1>6
<1>8. ASSUME Apart, NEW q \in mapping, NEW r \in mapping, q[2] = r[2]
      PROVE  q[1] = r[1]
  <2>1. PICK p \in pairs.new : q = <<p[1], p[2]>> /\ q \in ListedPairs(p[3])
    BY <1>5
  <2>2. PICK u \in pairs.new : r = <<u[1], u[2]>> /\ r \in ListedPairs(u[3])
    BY <1>5
  <2>3. q[1] = p[1] /\ q[2] = p[2] /\ r[1] = u[1] /\ r[2] = u[2]
    BY <2>1, <2>2
  <2>4. p[3] = u[3]
    BY <1>2, <1>8, <2>1, <2>2 DEF Apart
  <2>5. QED
    BY <1>1, <1>8, <2>3, <2>4 DEF OneBack
<1>9. QED
  BY <1>7, <1>8 DEF ReverseWorks

\* If no list changed while it was paged, the saved mapping is exactly what
\* LingXing lists for all stores, for any page size and length of the lists.
THEOREM MappingWhole == PairsSpec => []SavedIsListing
<1>1. PairsInv /\ PagingInv /\ [PairsNext]_PairsVars => PagingInv'
  <2> SUFFICES ASSUME PairsInv, PagingInv, [PairsNext]_PairsVars PROVE PagingInv'
    OBVIOUS
  <2>1. CASE PairsStart
    BY <2>1, Start_Paging
  <2>2. CASE NextStore
    BY <2>2, NextStore_Paging
  <2>3. CASE PairPageRead
    BY <2>3, Page_Paging
  <2>4. CASE PairItem
    BY <2>4, Item_Paging
  <2>5. CASE PairsSave
    BY <2>5, Save_Paging
  <2>6. CASE Shift
    BY <2>6, Shift_Paging
  <2>7. CASE UNCHANGED PairsVars
    BY <2>7 DEF PairsVars, PagingInv, Fine, Behind, Upto, Reading, Come
  <2>8. QED
    BY <2>1, <2>2, <2>3, <2>4, <2>5, <2>6, <2>7 DEF PairsNext
<1>2. QED
  BY PairsInit_Paging, PairsKept, PagingWhole, <1>1, PTL DEF PairsSpec

-----------------------------------------------------------------------------
(***************************************************************************)
(* For any rows, page length, threshold, number of files and failures: an  *)
(* export misses no row it could have written, and the clean-up job leaves *)
(* the directory within its limit and removes no file too many.            *)
(*                                                                         *)
(* For an export the invariant compares, for each row that is still to be  *)
(* written, the offset with the number of rows ahead of it in the sort     *)
(* (ReadInv); for the job it ties the size it believes in to the files it  *)
(* has still to look at (FilesInv, CleanInv).  What SizeOf adds up is      *)
(* proved by the least file at which a claim about the sum fails.          *)
(***************************************************************************)

-----------------------------------------------------------------------------
(* Sums *)

\* A set of numbers that is not empty has a least one.
LEMMA LeastNumber ==
    ASSUME NEW T, T \subseteq Nat, T # {}
    PROVE  \E m \in T : \A k \in T : m <= k
<1> DEFINE R == {ss \in Nat \X Nat : ss[1] < ss[2]}
<1>1. IsWellFoundedOn(R, Nat) BY NatLessThanWellFounded DEF OpToRel
<1>2. PICK m \in T : \A k \in T : <<k, m>> \notin R
  <2> HIDE DEF R
  <2> QED BY <1>1, WFMin
<1>3. \A k \in T : ~(k < m)
  <2> SUFFICES ASSUME NEW k \in T, k < m PROVE FALSE
    OBVIOUS
  <2>1. <<k, m>> \in Nat \X Nat OBVIOUS
  <2>2. <<k, m>>[1] < <<k, m>>[2] OBVIOUS
  <2> QED BY <1>2, <2>1, <2>2
<1> HIDE DEF R
<1> QED BY <1>3

\* g adds up the sizes of the first k files.
Adds(g, files, k) == g = [i \in 0..k |-> IF i = 0 THEN 0 ELSE g[i - 1] + files[i].size]

LEMMA SizeNat ==
    ASSUME NEW files \in [FileIds -> File], NEW i \in FileIds
    PROVE  files[i].size \in Nat
<1> QED BY DEF File, NoFile

LEMMA SumExists ==
    ASSUME NEW files \in [FileIds -> File]
    PROVE  \E g : Adds(g, files, MaxFiles)
<1> DEFINE T == {k \in 0..MaxFiles : ~ \E g : Adds(g, files, k)}
<1> MaxFiles \in Nat BY ExportAssumption DEF ExportAssumption
<1>1. SUFFICES ASSUME T # {} PROVE FALSE
  OBVIOUS
<1>2. PICK m \in T : \A k \in T : m <= k
  <2> HIDE DEF T
  <2>1. T \subseteq Nat BY DEF T
  <2> QED BY <1>1, <2>1, LeastNumber
<1>3. CASE m = 0
  <2>1. Adds([i \in 0..0 |-> 0], files, 0) BY DEF Adds
  <2> QED BY <1>3, <2>1
<1>4. CASE m # 0
  <2>1. PICK g : Adds(g, files, m - 1) BY <1>2, <1>4
  <2> DEFINE h == [i \in 0..m |-> IF i = m THEN g[m - 1] + files[m].size ELSE g[i]]
  <2>2. \A i \in 0..m : h[i] = IF i = 0 THEN 0 ELSE h[i - 1] + files[i].size
    <3> SUFFICES ASSUME NEW i \in 0..m
                 PROVE  h[i] = IF i = 0 THEN 0 ELSE h[i - 1] + files[i].size
      OBVIOUS
    <3>1. CASE i = m BY <1>4, <3>1
    <3>2. CASE i # m /\ i # 0
      <4>1. g[i] = g[i - 1] + files[i].size BY <2>1, <3>2 DEF Adds
      <4>2. h[i] = g[i] /\ h[i - 1] = g[i - 1] BY <3>2
      <4> QED BY <3>2, <4>1, <4>2
    <3>3. CASE i = 0
      <4>1. g[0] = 0 BY <2>1, <1>4 DEF Adds
      <4> QED BY <3>3, <4>1, <1>4
    <3> QED BY <3>1, <3>2, <3>3
  <2>3. h = [i \in 0..m |-> IF i = 0 THEN 0 ELSE h[i - 1] + files[i].size]
    <3>1. h = [i \in 0..m |-> h[i]] OBVIOUS
    <3> HIDE DEF h
    <3> QED BY <2>2, <3>1
  <2>4. Adds(h, files, m)
    <3> HIDE DEF h
    <3> QED BY <2>3 DEF Adds
  <2> QED BY <2>4
<1> QED BY <1>3, <1>4

LEMMA SizeIs ==
    ASSUME NEW files \in [FileIds -> File]
    PROVE  \E g : Adds(g, files, MaxFiles) /\ SizeOf(files) = g[MaxFiles]
<1> DEFINE S == CHOOSE g : g = [i \in 0..MaxFiles |-> IF i = 0 THEN 0 ELSE g[i - 1] + files[i].size]
<1>1. SizeOf(files) = S[MaxFiles] BY DEF SizeOf
<1>2. Adds(S, files, MaxFiles) BY SumExists DEF Adds
<1> HIDE DEF S
<1> QED BY <1>1, <1>2

\* A sum so far is a number.
LEMMA SumNat ==
    ASSUME NEW files \in [FileIds -> File], NEW g, Adds(g, files, MaxFiles)
    PROVE  \A k \in 0..MaxFiles : g[k] \in Nat
<1> DEFINE T == {k \in 0..MaxFiles : g[k] \notin Nat}
<1> MaxFiles \in Nat BY ExportAssumption DEF ExportAssumption
<1>1. SUFFICES ASSUME T # {} PROVE FALSE
  OBVIOUS
<1>2. PICK m \in T : \A k \in T : m <= k
  <2> HIDE DEF T
  <2>1. T \subseteq Nat BY DEF T
  <2> QED BY <1>1, <2>1, LeastNumber
<1>3. g[m] = IF m = 0 THEN 0 ELSE g[m - 1] + files[m].size BY <1>2 DEF Adds
<1>4. CASE m = 0 BY <1>2, <1>3, <1>4
<1>5. CASE m # 0
  <2>1. m - 1 \in 0..MaxFiles /\ m - 1 \notin T BY <1>2, <1>5
  <2>2. g[m - 1] \in Nat BY <2>1
  <2>3. m \in FileIds BY <1>2, <1>5 DEF FileIds
  <2> QED BY <1>2, <1>3, <1>5, <2>2, <2>3, SizeNat
<1> QED BY <1>4, <1>5

LEMMA SizeOfNat ==
    ASSUME NEW files \in [FileIds -> File]
    PROVE  SizeOf(files) \in Nat
<1> MaxFiles \in Nat BY ExportAssumption DEF ExportAssumption
<1> QED BY SizeIs, SumNat

\* Without a file the sum is less by its size, from the place of the file on.
LEMMA SumWithout ==
    ASSUME NEW files \in [FileIds -> File], NEW rest \in [FileIds -> File], NEW i \in FileIds,
           \A k \in FileIds : rest[k] = IF k = i THEN NoFile ELSE files[k],
           NEW g, Adds(g, files, MaxFiles), NEW h, Adds(h, rest, MaxFiles)
    PROVE  \A k \in 0..MaxFiles : g[k] = h[k] + (IF k < i THEN 0 ELSE files[i].size)
<1> DEFINE T == {k \in 0..MaxFiles : g[k] # h[k] + (IF k < i THEN 0 ELSE files[i].size)}
<1> MaxFiles \in Nat BY ExportAssumption DEF ExportAssumption
<1>1. SUFFICES ASSUME T # {} PROVE FALSE
  OBVIOUS
<1>2. PICK m \in T : \A k \in T : m <= k
  <2> HIDE DEF T
  <2>1. T \subseteq Nat BY DEF T
  <2> QED BY <1>1, <2>1, LeastNumber
<1>3. g[m] = IF m = 0 THEN 0 ELSE g[m - 1] + files[m].size BY <1>2 DEF Adds
<1>4. h[m] = IF m = 0 THEN 0 ELSE h[m - 1] + rest[m].size BY <1>2 DEF Adds
<1>5. i \in Nat /\ i > 0 /\ files[i].size \in Nat BY SizeNat DEF FileIds
<1>6. CASE m = 0 BY <1>2, <1>3, <1>4, <1>5, <1>6
<1>7. CASE m # 0
  <2>1. m - 1 \in 0..MaxFiles /\ m - 1 \notin T BY <1>2, <1>7
  <2>2. g[m - 1] = h[m - 1] + (IF m - 1 < i THEN 0 ELSE files[i].size) BY <2>1
  <2>3. m \in FileIds BY <1>2, <1>7 DEF FileIds
  <2>4. h[m - 1] \in Nat BY <2>1, SumNat
  <2>5. files[m].size \in Nat /\ rest[m].size \in Nat BY <2>3, SizeNat
  <2>6. rest[m] = IF m = i THEN NoFile ELSE files[m] BY <2>3
  <2>7. rest[m].size = IF m = i THEN 0 ELSE files[m].size BY <2>6 DEF NoFile
  <2>8. g[m] # h[m] + (IF m < i THEN 0 ELSE files[i].size) /\ m \in Nat BY <1>2
  <2>9. CASE m < i BY <1>3, <1>4, <1>5, <1>7, <2>2, <2>4, <2>5, <2>7, <2>8, <2>9
  <2>10. CASE m = i BY <1>3, <1>4, <1>5, <1>7, <2>2, <2>4, <2>5, <2>7, <2>8, <2>10
  <2>11. CASE m > i BY <1>3, <1>4, <1>5, <1>7, <2>2, <2>4, <2>5, <2>7, <2>8, <2>11
  <2> QED BY <1>5, <2>8, <2>9, <2>10, <2>11
<1> QED BY <1>6, <1>7

\* What the job counts on: a file that goes takes its size with it.
LEMMA SizeWithout ==
    ASSUME NEW files \in [FileIds -> File], NEW i \in FileIds
    PROVE  /\ [files EXCEPT ![i] = NoFile] \in [FileIds -> File]
           /\ SizeOf(files) = SizeOf([files EXCEPT ![i] = NoFile]) + files[i].size
<1> MaxFiles \in Nat BY ExportAssumption DEF ExportAssumption
<1>1. [files EXCEPT ![i] = NoFile] \in [FileIds -> File] BY DEF File
<1>2. PICK rest \in [FileIds -> File] : rest = [files EXCEPT ![i] = NoFile] BY <1>1
<1>3. PICK g : Adds(g, files, MaxFiles) /\ SizeOf(files) = g[MaxFiles] BY SizeIs
<1>4. PICK h : Adds(h, rest, MaxFiles) /\ SizeOf(rest) = h[MaxFiles] BY SizeIs
<1>5. g[MaxFiles] = h[MaxFiles] + (IF MaxFiles < i THEN 0 ELSE files[i].size)
  <2>1. \A k \in 0..MaxFiles : g[k] = h[k] + (IF k < i THEN 0 ELSE files[i].size)
    <3>1. \A k \in FileIds : rest[k] = IF k = i THEN NoFile ELSE files[k] BY <1>2
    <3>2. Adds(g, files, MaxFiles) /\ Adds(h, rest, MaxFiles) BY <1>3, <1>4
    <3> QED BY ONLY <3>1, <3>2, SumWithout, files \in [FileIds -> File], rest \in [FileIds -> File],
                    i \in FileIds
  <2> QED BY <2>1
<1>6. ~(MaxFiles < i) BY DEF FileIds
<1> QED BY <1>1, <1>2, <1>3, <1>4, <1>5, <1>6

LEMMA SizeOfNone ==
    ASSUME NEW files \in [FileIds -> File], Present(files) = {}
    PROVE  SizeOf(files) = 0
<1> MaxFiles \in Nat BY ExportAssumption DEF ExportAssumption
<1>1. PICK g : Adds(g, files, MaxFiles) /\ SizeOf(files) = g[MaxFiles] BY SizeIs
<1> DEFINE T == {k \in 0..MaxFiles : g[k] # 0}
<1>2. SUFFICES ASSUME T # {} PROVE FALSE
  BY <1>1
<1>3. PICK m \in T : \A k \in T : m <= k
  <2> HIDE DEF T
  <2>1. T \subseteq Nat BY DEF T
  <2> QED BY <1>2, <2>1, LeastNumber
<1>4. g[m] = IF m = 0 THEN 0 ELSE g[m - 1] + files[m].size BY <1>1, <1>3 DEF Adds
<1>5. m # 0 BY <1>3, <1>4
<1>6. m - 1 \in 0..MaxFiles /\ m - 1 \notin T BY <1>3, <1>5
<1>7. m \in FileIds BY <1>3, <1>5 DEF FileIds
<1>8. files[m] = NoFile BY <1>7 DEF Present, File
<1>9. files[m].size = 0 BY <1>8 DEF NoFile
<1> QED BY <1>3, <1>4, <1>5, <1>6, <1>9

LEMMA NoFilesType == NoFiles \in [FileIds -> File] /\ Present(NoFiles) = {} /\ SizeOf(NoFiles) = 0
<1>1. NoFiles \in [FileIds -> File] /\ Present(NoFiles) = {}
  BY DEF NoFiles, NoFile, File, Present
<1> QED BY <1>1, SizeOfNone

-----------------------------------------------------------------------------
(* Clean-up *)

\* Beside the types: what the job takes for the size of the directory is at
\* least that of the files it has still to look at.
FilesInv ==
    /\ ExportTypeOK
    /\ Exporting => export.id \in FileIds
    /\ SizeOf(clean.walk) <= clean.total

\* While no export interferes and no removal fails, the files it has still
\* to look at are those of the directory, younger than those that are gone,
\* and without the last removal the directory was too large.
CleanInv ==
    /\ clean.pc = "remove" /\ ~clean.busy /\ ~clean.failed =>
          /\ dir = clean.walk /\ clean.total = SizeOf(dir)
          /\ \A i \in Present(clean.gone), j \in Present(dir) : i < j
          /\ Present(clean.gone) = {} => clean.total > Threshold
          /\ Present(clean.gone) # {} =>
                \E last \in Present(clean.gone) :
                   /\ clean.total + clean.gone[last].size > Threshold
                   /\ \A j \in Present(clean.gone) : j <= last
    /\ CleanEnough

LEMMA InitFiles == ExportInit => FilesInv /\ CleanInv
<1> SUFFICES ASSUME ExportInit PROVE FilesInv /\ CleanInv
  OBVIOUS
<1> MaxFiles \in Nat BY ExportAssumption DEF ExportAssumption
<1>1. ExportTypeOK BY NoFilesType DEF ExportInit, ExportTypeOK, ExportIdle, CleanIdle
<1>2. clean.pc = "idle" /\ export.pc = "idle" /\ clean.walk = NoFiles /\ clean.total = 0
  BY DEF ExportInit, ExportIdle, CleanIdle
<1>3. FilesInv BY <1>1, <1>2, NoFilesType DEF FilesInv, Exporting
<1>4. CleanInv BY <1>2 DEF CleanInv, CleanEnough
<1> QED BY <1>3, <1>4

LEMMA FilesReal ==
    ASSUME ExportTypeOK
    PROVE  /\ dir \in [FileIds -> File] /\ clean.walk \in [FileIds -> File]
           /\ clean.gone \in [FileIds -> File] /\ clean.total \in Nat
           /\ export.id \in 0..MaxFiles /\ MaxFiles \in Nat /\ Threshold \in Nat
  BY ExportAssumption DEF ExportTypeOK, ExportAssumption

\* Rows that come or go and a count leave the files alone.
LEMMA RowsFiles ==
    ASSUME FilesInv, CleanInv,
           (\E r \in Rows : RowComes(r) \/ RowLeaves(r)) \/ ExportCount \/ UNCHANGED ExportVars
    PROVE  FilesInv' /\ CleanInv'
<1>1. UNCHANGED <<dir, clean>> BY DEF RowComes, RowLeaves, ExportCount, ExportVars
<1>2. ExportTypeOK' /\ (Exporting => export.id \in FileIds)'
  <2>1. CASE \E r \in Rows : RowComes(r)
    BY <2>1 DEF RowComes, FilesInv, ExportTypeOK, Exporting
  <2>2. CASE \E r \in Rows : RowLeaves(r)
    BY <2>2 DEF RowLeaves, FilesInv, ExportTypeOK, Exporting
  <2>3. CASE ExportCount
    <3>1. Cardinality(listed) \in Nat
      BY FS_CardinalityType, FS_Subset, ExportAssumption DEF ExportAssumption, FilesInv, ExportTypeOK
    <3> QED BY <2>3, <3>1 DEF ExportCount, FilesInv, ExportTypeOK, Exporting
  <2>4. CASE UNCHANGED ExportVars
    BY <2>4 DEF ExportVars, FilesInv, ExportTypeOK, Exporting
  <2> QED BY <2>1, <2>2, <2>3, <2>4
<1>3. FilesInv' BY <1>1, <1>2 DEF FilesInv
<1>4. CleanInv' BY <1>1 DEF CleanInv, CleanEnough
<1> QED BY <1>3, <1>4

\* An export that changes the directory is one the job is disturbed by.
LEMMA DisturbedFiles ==
    ASSUME FilesInv, clean' = Disturbed \/ clean' = CleanIdle,
           dir' \in [FileIds -> File]
    PROVE  /\ clean' \in [pc : {"idle", "remove", "done"}, walk : [FileIds -> File], total : Nat,
                           gone : [FileIds -> File], busy : BOOLEAN, failed : BOOLEAN]
           /\ SizeOf(clean.walk)' <= clean.total'
           /\ CleanInv'
<1>1. CASE clean' = Disturbed
  <2>1. /\ clean' \in [pc : {"idle", "remove", "done"}, walk : [FileIds -> File], total : Nat,
                        gone : [FileIds -> File], busy : BOOLEAN, failed : BOOLEAN]
        /\ clean'.walk = clean.walk /\ clean'.total = clean.total /\ clean'.pc = clean.pc
        /\ clean'.busy = (clean.pc # "idle")
    BY <1>1 DEF Disturbed, FilesInv, ExportTypeOK
  <2>2. SizeOf(clean'.walk) <= clean'.total BY <2>1 DEF FilesInv
  <2>3. CleanInv' BY <2>1 DEF CleanInv, CleanEnough
  <2> QED BY <2>1, <2>2, <2>3
<1>2. CASE clean' = CleanIdle
  <2>1. clean' \in [pc : {"idle", "remove", "done"}, walk : [FileIds -> File], total : Nat,
                    gone : [FileIds -> File], busy : BOOLEAN, failed : BOOLEAN]
    BY <1>2, NoFilesType DEF CleanIdle
  <2>2. clean'.walk = NoFiles /\ clean'.total = 0 /\ clean'.pc = "idle" BY <1>2 DEF CleanIdle
  <2>3. CleanInv' BY <2>2 DEF CleanInv, CleanEnough
  <2> QED BY <2>1, <2>2, <2>3, NoFilesType
<1> QED BY <1>1, <1>2

LEMMA ListedFinite ==
    ASSUME ExportTypeOK, NEW p \in SUBSET listed
    PROVE  IsFiniteSet(listed) /\ IsFiniteSet(p) /\ Cardinality(p) \in Nat /\ p \subseteq Rows
<1>1. IsFiniteSet(listed) BY FS_Subset, ExportAssumption DEF ExportAssumption, ExportTypeOK
<1>2. IsFiniteSet(p) BY <1>1, FS_Subset
<1> QED BY <1>1, <1>2, FS_CardinalityType DEF ExportTypeOK

LEMMA PagesListed ==
    ASSUME NEW kind, NEW offset, NEW p \in Pages(kind, offset)
    PROVE  p \in SUBSET listed
<1> QED BY DEF Pages

LEMMA ExportFilesStep ==
    ASSUME FilesInv, CleanInv,
           (\E kind \in {"orders", "stock"} : ExportStart(kind)) \/ ExportPageRead \/ ExportFails
    PROVE  FilesInv' /\ CleanInv'
<1> USE FilesReal DEF FilesInv
<1>1. /\ dir' \in [FileIds -> File] /\ (clean' = Disturbed \/ clean' = CleanIdle)
      /\ listed' \subseteq Rows
      /\ export' \in [pc : {"idle", "count", "page", "done"}, kind : {"orders", "stock"},
                       offset : Nat, got : SUBSET Rows, base : SUBSET Rows, total : Nat,
                       left : BOOLEAN, slip : BOOLEAN, id : 0..MaxFiles]
      /\ (Exporting => export.id \in FileIds)'
  <2>1. CASE \E kind \in {"orders", "stock"} : ExportStart(kind)
    <3> PICK kind \in {"orders", "stock"} : ExportStart(kind) BY <2>1
    <3>1. export.id + 1 \in FileIds BY DEF ExportStart, FileIds
    <3>2. [name |-> "tmp", size |-> 0] \in File BY DEF File
    <3>3. dir' \in [FileIds -> File] BY <3>1, <3>2 DEF ExportStart
    <3>4. export' = [pc |-> "count", kind |-> kind, offset |-> 0, got |-> {}, base |-> listed,
                     total |-> 0, left |-> FALSE, slip |-> FALSE, id |-> export.id + 1]
      BY DEF ExportStart, ExportIdle
    <3>5. clean' = Disturbed /\ listed' = listed BY DEF ExportStart
    <3>6. export.id + 1 \in 0..MaxFiles BY <3>1 DEF FileIds
    <3>7. export' \in [pc : {"idle", "count", "page", "done"}, kind : {"orders", "stock"},
                       offset : Nat, got : SUBSET Rows, base : SUBSET Rows, total : Nat,
                       left : BOOLEAN, slip : BOOLEAN, id : 0..MaxFiles]
      BY <3>4, <3>6 DEF ExportTypeOK
    <3>8. export'.id \in FileIds BY <3>1, <3>4
    <3> QED BY <3>3, <3>5, <3>7, <3>8 DEF ExportTypeOK, Exporting
  <2>2. CASE ExportPageRead
    <3>1. PICK p \in Pages(export.kind, export.offset) :
             LET next == export.offset + Cardinality(p)
                 last == p = {} \/ next >= export.total
                 file == [name |-> IF last THEN "csv" ELSE "tmp", size |-> next]
             IN /\ export' = IF last /\ ~Kept THEN [ExportIdle EXCEPT !.id = export.id]
                             ELSE [export EXCEPT !.got = @ \cup p, !.offset = next, !.total = 0,
                                                 !.pc = IF last THEN "done" ELSE "count"]
                /\ dir' = IF Kept THEN [dir EXCEPT ![export.id] = file] ELSE dir
      BY <2>2 DEF ExportPageRead
    <3> DEFINE next == export.offset + Cardinality(p)
               last == p = {} \/ next >= export.total
               file == [name |-> IF last THEN "csv" ELSE "tmp", size |-> next]
    <3>2. Cardinality(p) \in Nat /\ p \subseteq Rows BY PagesListed, ListedFinite
    <3>3. next \in Nat BY <3>2 DEF ExportTypeOK
    <3>4. file \in File BY <3>3 DEF File
    <3>5. /\ export' = IF last /\ ~Kept THEN [ExportIdle EXCEPT !.id = export.id]
                       ELSE [export EXCEPT !.got = @ \cup p, !.offset = next, !.total = 0,
                                           !.pc = IF last THEN "done" ELSE "count"]
          /\ dir' = IF Kept THEN [dir EXCEPT ![export.id] = file] ELSE dir
      BY <3>1
    <3> HIDE DEF next, last, file
    <3>6. dir' \in [FileIds -> File] BY <3>4, <3>5
    <3>7. CASE last /\ ~Kept
      <4>1. export' = [ExportIdle EXCEPT !.id = export.id] BY <3>5, <3>7
      <4> QED BY <2>2, <3>6, <4>1 DEF ExportPageRead, ExportTypeOK, ExportIdle, Exporting
    <3>8. CASE ~(last /\ ~Kept)
      <4>1. export' = [export EXCEPT !.got = @ \cup p, !.offset = next, !.total = 0,
                                     !.pc = IF last THEN "done" ELSE "count"]
        BY <3>5, <3>8
      <4>2. export.id \in FileIds BY <2>2 DEF ExportPageRead, Exporting
      <4> QED BY <2>2, <3>2, <3>3, <3>6, <4>1, <4>2 DEF ExportPageRead, ExportTypeOK, Exporting
    <3> QED BY <3>7, <3>8
  <2>3. CASE ExportFails
    <3>1. NoFile \in File BY DEF File
    <3>2. dir' \in [FileIds -> File] BY <2>3, <3>1 DEF ExportFails
    <3> QED BY <2>3, <3>2 DEF ExportFails, ExportIdle, ExportTypeOK, Exporting
  <2> QED BY <2>1, <2>2, <2>3
<1>2. ExportTypeOK' /\ SizeOf(clean.walk)' <= clean.total' /\ CleanInv'
  BY <1>1, DisturbedFiles DEF ExportTypeOK
<1> QED BY <1>1, <1>2

LEMMA CleanStartFiles == FilesInv /\ CleanInv /\ CleanStart => FilesInv' /\ CleanInv'
<1> SUFFICES ASSUME FilesInv, CleanInv, CleanStart PROVE FilesInv' /\ CleanInv'
  OBVIOUS
<1> USE FilesReal DEF FilesInv
<1>1. UNCHANGED <<listed, export, dir>> BY DEF CleanStart
<1>2. CASE SizeOf(dir) <= Threshold
  <2>1. clean' = CleanIdle /\ dir' \in [FileIds -> File] BY <1>1, <1>2 DEF CleanStart
  <2>2. /\ clean' \in [pc : {"idle", "remove", "done"}, walk : [FileIds -> File], total : Nat,
                        gone : [FileIds -> File], busy : BOOLEAN, failed : BOOLEAN]
        /\ SizeOf(clean.walk)' <= clean.total' /\ CleanInv'
    BY <2>1, DisturbedFiles
  <2> QED BY <1>1, <2>2 DEF ExportTypeOK, Exporting
<1>3. CASE ~(SizeOf(dir) <= Threshold)
  <2>1. clean' = [pc |-> "remove", walk |-> dir, total |-> SizeOf(dir), gone |-> NoFiles,
                  busy |-> FALSE, failed |-> FALSE]
    BY <1>3 DEF CleanStart, CleanIdle
  <2>2. SizeOf(dir) \in Nat BY SizeOfNat
  <2>3. clean' \in [pc : {"idle", "remove", "done"}, walk : [FileIds -> File], total : Nat,
                    gone : [FileIds -> File], busy : BOOLEAN, failed : BOOLEAN]
    BY <2>1, <2>2, NoFilesType
  <2>4. /\ clean'.walk = dir /\ clean'.total = SizeOf(dir) /\ clean'.gone = NoFiles
        /\ clean'.pc = "remove"
    BY <2>1
  <2>5. FilesInv' BY <1>1, <2>2, <2>3, <2>4 DEF ExportTypeOK, Exporting
  <2>6. Present(clean'.gone) = {} BY <2>4, NoFilesType
  <2>7. clean'.total > Threshold BY <1>3, <2>2, <2>4
  <2>8. CleanInv' BY <1>1, <2>4, <2>6, <2>7 DEF CleanInv, CleanEnough
  <2> QED BY <2>5, <2>8
<1> QED BY <1>2, <1>3

LEMMA CleanEndFiles == FilesInv /\ CleanInv /\ CleanEnd => FilesInv' /\ CleanInv'
<1> SUFFICES ASSUME FilesInv, CleanInv, CleanEnd PROVE FilesInv' /\ CleanInv'
  OBVIOUS
<1> USE FilesReal DEF FilesInv
<1>1. /\ UNCHANGED <<listed, export, dir>>
      /\ clean' = [clean EXCEPT !.pc = "done", !.walk = NoFiles, !.total = 0]
  BY DEF CleanEnd
<1>2. /\ clean' \in [pc : {"idle", "remove", "done"}, walk : [FileIds -> File], total : Nat,
                      gone : [FileIds -> File], busy : BOOLEAN, failed : BOOLEAN]
      /\ clean'.walk = NoFiles /\ clean'.total = 0 /\ clean'.pc = "done"
      /\ clean'.busy = clean.busy /\ clean'.failed = clean.failed /\ clean'.gone = clean.gone
  BY <1>1, NoFilesType DEF ExportTypeOK
<1>3. FilesInv' BY <1>1, <1>2, NoFilesType DEF ExportTypeOK, Exporting
<1>4. ASSUME ~clean.busy, ~clean.failed PROVE CleanEnough'
  <2>1. clean.pc = "remove" BY DEF CleanEnd
  <2>2. /\ dir = clean.walk /\ clean.total = SizeOf(dir)
        /\ \A i \in Present(clean.gone), j \in Present(dir) : i < j
        /\ Present(clean.gone) = {} => clean.total > Threshold
        /\ Present(clean.gone) # {} =>
              \E last \in Present(clean.gone) :
                 /\ clean.total + clean.gone[last].size > Threshold
                 /\ \A j \in Present(clean.gone) : j <= last
    BY <1>4, <2>1 DEF CleanInv
  <2>3. SizeOf(dir) <= Threshold
    <3>1. Present(dir) = {} => SizeOf(dir) = 0 BY SizeOfNone
    <3>2. Present(dir) = {} \/ SizeOf(dir) <= Threshold BY <2>2 DEF CleanEnd
    <3> QED BY <3>1, <3>2
  <2>4. Present(clean.gone) # {} BY <2>2, <2>3
  <2>5. PICK last \in Present(clean.gone) :
           /\ clean.total + clean.gone[last].size > Threshold
           /\ \A j \in Present(clean.gone) : j <= last
    BY <2>2, <2>4
  <2>6. last \in Nat /\ \A i \in Present(dir) : i > last BY <2>2, <2>5 DEF Present, FileIds
  <2>7. dir' = dir /\ clean'.gone = clean.gone BY <1>1, <1>2
  <2>8. SizeOf(dir) + clean.gone[last].size > Threshold BY <2>2, <2>5
  <2> QED BY <2>3, <2>5, <2>6, <2>7, <2>8 DEF CleanEnough
<1>5. CleanInv' BY <1>2, <1>4 DEF CleanInv, CleanEnough
<1> QED BY <1>3, <1>5

\* os.Remove, of a file the job found.
LEMMA RemovedType ==
    ASSUME ExportTypeOK, NEW i \in FileIds
    PROVE  Removed(i) \in [FileIds -> File]
<1> QED BY FilesReal DEF Removed, File

LEMMA CleanRemoveFiles == FilesInv /\ CleanInv /\ CleanRemove => FilesInv' /\ CleanInv'
<1> SUFFICES ASSUME FilesInv, CleanInv, CleanRemove PROVE FilesInv' /\ CleanInv'
  OBVIOUS
<1> USE FilesReal DEF FilesInv
<1>1. PICK i \in Present(clean.walk) :
         /\ \A j \in Present(clean.walk) : i <= j
         /\ \/ /\ dir' = Removed(i)
               /\ clean' = [clean EXCEPT !.walk[i] = NoFile, !.total = @ - clean.walk[i].size,
                                         !.gone[i] = clean.walk[i]]
            \/ /\ "remove" \in ExportFaults /\ UNCHANGED dir
               /\ clean' = [clean EXCEPT !.walk[i] = NoFile, !.failed = TRUE]
  BY DEF CleanRemove
<1>2. i \in FileIds /\ i \in Nat BY <1>1 DEF Present, FileIds
<1>3. PICK rest : rest = [clean.walk EXCEPT ![i] = NoFile] OBVIOUS
<1>4. PICK size : size = clean.walk[i].size OBVIOUS
<1>5. size \in Nat BY <1>2, <1>4, SizeNat
<1>6. /\ rest \in [FileIds -> File]
      /\ SizeOf(clean.walk) = SizeOf(rest) + size
      /\ SizeOf(rest) \in Nat
  <2>1. /\ [clean.walk EXCEPT ![i] = NoFile] \in [FileIds -> File]
        /\ SizeOf(clean.walk) = SizeOf([clean.walk EXCEPT ![i] = NoFile]) + clean.walk[i].size
    BY <1>2, SizeWithout
  <2>2. SizeOf([clean.walk EXCEPT ![i] = NoFile]) \in Nat BY <2>1, SizeOfNat
  <2> QED BY <1>3, <1>4, <2>1, <2>2
<1>7. UNCHANGED <<listed, export>> /\ clean.pc = "remove" /\ clean.total > Threshold
  BY DEF CleanRemove
<1>8. CASE dir' = Removed(i) /\ clean' = [clean EXCEPT !.walk[i] = NoFile,
                !.total = @ - clean.walk[i].size, !.gone[i] = clean.walk[i]]
  <2> DEFINE went == [clean.gone EXCEPT ![i] = clean.walk[i]]
  <2>1. clean' = [clean EXCEPT !.walk = rest, !.total = clean.total - size, !.gone = went]
    BY <1>3, <1>4, <1>8 DEF ExportTypeOK
  <2>2. clean.total - size \in Nat /\ SizeOf(rest) <= clean.total - size
    BY <1>5, <1>6
  <2>3. went \in [FileIds -> File] BY <1>2
  <2>4. /\ Present(went) = Present(clean.gone) \cup {i} /\ went[i].size = size
        /\ \A j \in FileIds : j # i => went[j] = clean.gone[j]
    BY <1>1, <1>2, <1>4 DEF Present
  <2> HIDE DEF went
  <2>5. /\ clean' \in [pc : {"idle", "remove", "done"}, walk : [FileIds -> File], total : Nat,
                        gone : [FileIds -> File], busy : BOOLEAN, failed : BOOLEAN]
        /\ clean'.walk = rest /\ clean'.total = clean.total - size /\ clean'.gone = went
        /\ clean'.pc = "remove" /\ clean'.busy = clean.busy /\ clean'.failed = clean.failed
    BY <1>6, <1>7, <2>1, <2>2, <2>3 DEF ExportTypeOK
  <2>6. dir' \in [FileIds -> File] BY <1>2, <1>8, RemovedType
  <2>7. FilesInv' BY <1>7, <2>2, <2>5, <2>6 DEF ExportTypeOK, Exporting
  <2>8. ASSUME ~clean.busy, ~clean.failed
        PROVE  /\ dir' = rest /\ clean'.total = SizeOf(rest)
               /\ \A k \in Present(went), j \in Present(rest) : k < j
               /\ clean'.total + went[i].size > Threshold
               /\ \A j \in Present(went) : j <= i
    <3>1. /\ dir = clean.walk /\ clean.total = SizeOf(dir)
          /\ \A k \in Present(clean.gone), j \in Present(dir) : k < j
      BY <1>7, <2>8 DEF CleanInv
    <3>2. dir' = rest BY <1>3, <1>8, <3>1 DEF Removed
    <3>3. clean'.total = SizeOf(rest) BY <1>5, <1>6, <2>5, <3>1
    <3>4. Present(rest) = Present(clean.walk) \ {i} BY <1>2, <1>3 DEF Present, NoFile
    <3>5. \A j \in Present(rest) : i < j
      BY <1>1, <1>2, <3>4 DEF Present, FileIds
    <3>6. \A k \in Present(went), j \in Present(rest) : k < j BY <2>4, <3>1, <3>4, <3>5
    <3>7. \A j \in Present(went) : j <= i
      <4> SUFFICES ASSUME NEW j \in Present(went) PROVE j <= i
        OBVIOUS
      <4>1. j \in Nat BY DEF Present, FileIds
      <4>2. j = i \/ j < i BY <1>1, <2>4, <3>1
      <4> QED BY <1>2, <4>1, <4>2
    <3>8. clean'.total + went[i].size > Threshold BY <1>5, <1>7, <2>4, <2>5
    <3> QED BY <3>2, <3>3, <3>6, <3>7, <3>8
  <2>9. i \in Present(went) BY <2>4
  <2>10. CleanInv' BY <2>5, <2>8, <2>9 DEF CleanInv, CleanEnough
  <2> QED BY <2>7, <2>10
<1>9. CASE UNCHANGED dir /\ clean' = [clean EXCEPT !.walk[i] = NoFile, !.failed = TRUE]
  <2>1. clean' = [clean EXCEPT !.walk = rest, !.failed = TRUE]
    BY <1>3, <1>9 DEF ExportTypeOK
  <2>2. /\ clean' \in [pc : {"idle", "remove", "done"}, walk : [FileIds -> File], total : Nat,
                        gone : [FileIds -> File], busy : BOOLEAN, failed : BOOLEAN]
        /\ clean'.walk = rest /\ clean'.total = clean.total /\ clean'.failed
    BY <1>6, <2>1 DEF ExportTypeOK
  <2>3. SizeOf(rest) <= clean.total BY <1>5, <1>6
  <2>4. FilesInv' BY <1>7, <1>9, <2>2, <2>3 DEF ExportTypeOK, Exporting
  <2>5. CleanInv' BY <2>2 DEF CleanInv, CleanEnough
  <2> QED BY <2>4, <2>5
<1> QED BY <1>1, <1>8, <1>9

LEMMA NextFiles == FilesInv /\ CleanInv /\ [ExportNext]_ExportVars => FilesInv' /\ CleanInv'
<1> SUFFICES ASSUME FilesInv, CleanInv, [ExportNext]_ExportVars PROVE FilesInv' /\ CleanInv'
  OBVIOUS
<1>1. CASE (\E r \in Rows : RowComes(r) \/ RowLeaves(r)) \/ ExportCount \/ UNCHANGED ExportVars
  BY <1>1, RowsFiles
<1>2. CASE (\E kind \in {"orders", "stock"} : ExportStart(kind)) \/ ExportPageRead \/ ExportFails
  BY <1>2, ExportFilesStep
<1>3. CASE CleanStart BY <1>3, CleanStartFiles
<1>4. CASE CleanRemove BY <1>4, CleanRemoveFiles
<1>5. CASE CleanEnd BY <1>5, CleanEndFiles
<1> QED BY <1>1, <1>2, <1>3, <1>4, <1>5 DEF ExportNext

\* Whatever tables, pages and thresholds there are: the clean-up job, if no
\* export and no failure interferes, leaves the directory within its limit,
\* has removed no file too many, and none that is newer than one it left.
THEOREM CleansEnough == ExportSpec => [](ExportTypeOK /\ CleanEnough)
<1>1. FilesInv /\ CleanInv => ExportTypeOK /\ CleanEnough BY DEF FilesInv, CleanInv
<1> QED BY <1>1, InitFiles, NextFiles, PTL DEF ExportSpec

-----------------------------------------------------------------------------
(* Exports *)

Ahead(r) == {s \in listed : Earlier(export.kind, s, r)}
Alone(r) == \A s \in listed \ {r} : KeyOf(export.kind, s) # KeyOf(export.kind, r)

\* Unless a row left, no row that is still to be written stands before the
\* offset; and of the rows counted for a page, every one stands within the
\* count, unless one came before it since.
ReadInv ==
    /\ Exporting /\ ~export.left =>
          /\ export.base \subseteq listed
          /\ \A r \in export.base \ export.got :
                Alone(r) => export.offset <= Cardinality(Ahead(r))
    /\ export.pc = "page" /\ ~export.left /\ ~export.slip =>
          \A r \in export.base : Alone(r) => Cardinality(Ahead(r)) < export.total
    /\ ExportComplete

\* The sorts are strict orders, total on rows with different keys.
LEMMA KeysOrder ==
    ASSUME NEW kind \in {"orders", "stock"}, NEW r \in Rows, NEW s \in Rows
    PROVE  /\ ~ (Earlier(kind, r, s) /\ Earlier(kind, s, r))
           /\ KeyOf(kind, r) # KeyOf(kind, s) => Earlier(kind, r, s) \/ Earlier(kind, s, r)
<1> r \in Nat /\ s \in Nat BY ExportAssumption DEF ExportAssumption
<1>1. KeyOf(kind, r) \in Int /\ KeyOf(kind, s) \in Int BY DEF KeyOf
<1>2. CASE kind = "orders" BY <1>2 DEF Earlier, KeyOf
<1>3. CASE kind = "stock" BY <1>1, <1>3 DEF Earlier
<1> QED BY <1>2, <1>3

LEMMA AheadFinite ==
    ASSUME ExportTypeOK, NEW r
    PROVE  /\ IsFiniteSet(listed) /\ IsFiniteSet(Ahead(r)) /\ Cardinality(Ahead(r)) \in Nat
           /\ Ahead(r) \subseteq listed /\ Cardinality(listed) \in Nat
<1>1. Ahead(r) \in SUBSET listed /\ listed \in SUBSET listed BY DEF Ahead
<1> QED BY <1>1, ListedFinite

\* A listed row is not ahead of itself: fewer are ahead of it than are listed.
LEMMA AheadFewer ==
    ASSUME ExportTypeOK, NEW r \in listed
    PROVE  Cardinality(Ahead(r)) < Cardinality(listed)
<1>1. export.kind \in {"orders", "stock"} /\ r \in Rows BY DEF ExportTypeOK
<1>2. r \notin Ahead(r) BY <1>1, KeysOrder DEF Ahead
<1>3. Ahead(r) \subseteq listed \ {r} BY <1>2 DEF Ahead
<1>4. IsFiniteSet(listed) /\ Cardinality(listed) \in Nat BY AheadFinite
<1>5. /\ IsFiniteSet(listed \ {r})
      /\ Cardinality(listed \ {r}) = Cardinality(listed) - 1
  BY <1>4, FS_RemoveElement
<1>6. Cardinality(Ahead(r)) <= Cardinality(listed \ {r}) BY <1>3, <1>5, FS_Subset
<1> QED BY <1>4, <1>5, <1>6, AheadFinite

\* A page: the rows behind those before the offset.
LEMMA PageIs ==
    ASSUME ExportTypeOK, NEW p \in Pages(export.kind, export.offset), export.offset < Cardinality(listed)
    PROVE  /\ p # {}
           /\ \E b \in SUBSET (listed \ p) :
                 /\ Cardinality(b) = export.offset
                 /\ \A r \in b, s \in listed \ b : ~ Earlier(export.kind, s, r)
                 /\ \A r \in p, s \in listed \ (b \cup p) : ~ Earlier(export.kind, s, r)
<1> DEFINE m == IF Cardinality(listed) - export.offset < ExportPage
                THEN Cardinality(listed) - export.offset ELSE ExportPage
<1>1. Cardinality(listed) \in Nat /\ export.offset \in Nat /\ ExportPage \in Nat \ {0}
  BY AheadFinite, ExportAssumption DEF ExportTypeOK, ExportAssumption
<1>2. ~(Cardinality(listed) <= export.offset) BY <1>1
<1>3. p \in SUBSET listed /\ Cardinality(p) = m /\
      \E b \in SUBSET (listed \ p) :
         /\ Cardinality(b) = export.offset
         /\ \A r \in b, s \in listed \ b : ~ Earlier(export.kind, s, r)
         /\ \A r \in p, s \in listed \ (b \cup p) : ~ Earlier(export.kind, s, r)
  BY <1>2 DEF Pages
<1>4. m # 0 BY <1>1
<1> HIDE DEF m
<1>5. p # {} BY <1>3, <1>4, FS_EmptySet
<1> QED BY <1>3, <1>5

\* What the offset is for: after a page, the rows that are still to be
\* written stand behind the next offset.
LEMMA PageAhead ==
    ASSUME ExportTypeOK, NEW p \in Pages(export.kind, export.offset),
           NEW r \in listed \ p, Alone(r), export.offset <= Cardinality(Ahead(r))
    PROVE  p # {} /\ export.offset + Cardinality(p) <= Cardinality(Ahead(r))
<1>1. /\ export.kind \in {"orders", "stock"} /\ export.offset \in Nat /\ listed \subseteq Rows
      /\ IsFiniteSet(listed) /\ IsFiniteSet(Ahead(r)) /\ Cardinality(Ahead(r)) \in Nat
      /\ Cardinality(listed) \in Nat
  BY AheadFinite DEF ExportTypeOK
<1>2. export.offset < Cardinality(listed) BY <1>1, AheadFewer
<1>3. p # {} BY <1>2, PageIs
<1>4. PICK b \in SUBSET (listed \ p) :
         /\ Cardinality(b) = export.offset
         /\ \A q \in b, s \in listed \ b : ~ Earlier(export.kind, s, q)
         /\ \A q \in p, s \in listed \ (b \cup p) : ~ Earlier(export.kind, s, q)
  BY <1>2, PageIs
<1>5. p \in SUBSET listed /\ b \in SUBSET listed BY <1>4, PagesListed
<1>6. /\ IsFiniteSet(p) /\ Cardinality(p) \in Nat /\ IsFiniteSet(b) /\ Cardinality(b) \in Nat
  BY <1>5, ListedFinite
<1>7. r \notin b
  <2>1. SUFFICES ASSUME r \in b PROVE FALSE
    OBVIOUS
  <2>2. r \notin Ahead(r) BY <1>1, KeysOrder DEF Ahead
  <2>3. Ahead(r) \subseteq b \ {r} BY <1>4, <2>1, <2>2 DEF Ahead
  <2>4. IsFiniteSet(b \ {r}) /\ Cardinality(b \ {r}) = Cardinality(b) - 1
    BY <1>6, <2>1, FS_RemoveElement
  <2>5. Cardinality(Ahead(r)) <= Cardinality(b \ {r}) BY <2>3, <2>4, FS_Subset
  <2> QED BY <1>1, <1>4, <2>4, <2>5
<1>8. b \cup p \subseteq Ahead(r)
  <2> SUFFICES ASSUME NEW s \in b \cup p PROVE s \in Ahead(r)
    OBVIOUS
  <2>1. s \in listed /\ s # r /\ s \in Rows /\ r \in Rows BY <1>1, <1>5, <1>7
  <2>2. ~ Earlier(export.kind, r, s) BY <1>4, <1>7
  <2>3. KeyOf(export.kind, s) # KeyOf(export.kind, r) BY <2>1 DEF Alone
  <2>4. Earlier(export.kind, s, r) BY <1>1, <2>1, <2>2, <2>3, KeysOrder
  <2> QED BY <2>1, <2>4 DEF Ahead
<1>9. Cardinality(b \cup p) = Cardinality(b) + Cardinality(p)
  <2>1. b \cap p = {} BY <1>4
  <2>2. Cardinality(b \cup p) = Cardinality(b) + Cardinality(p) - Cardinality(b \cap p)
    BY <1>6, FS_Union
  <2>3. Cardinality(b \cap p) = 0 BY <2>1, FS_EmptySet
  <2> QED BY <1>6, <2>2, <2>3
<1>10. Cardinality(b \cup p) <= Cardinality(Ahead(r)) BY <1>1, <1>8, FS_Subset
<1> QED BY <1>3, <1>4, <1>9, <1>10

LEMMA RowComesRead == ASSUME ExportTypeOK, ReadInv, NEW x \in Rows, RowComes(x) PROVE ReadInv'
<1>1. /\ x \notin listed /\ listed' = listed \cup {x} /\ export.pc \in {"count", "page"}
      /\ export' = [export EXCEPT
           !.slip = @ \/ (export.pc = "page" /\ \E s \in listed : ~Earlier(export.kind, s, x))]
  BY DEF RowComes, Exporting
<1>2. /\ export'.pc = export.pc /\ export'.kind = export.kind /\ export'.offset = export.offset
      /\ export'.got = export.got /\ export'.base = export.base /\ export'.total = export.total
      /\ export'.left = export.left
      /\ export'.slip = (export.slip \/ (export.pc = "page"
                            /\ \E s \in listed : ~Earlier(export.kind, s, x)))
  BY <1>1 DEF ExportTypeOK
<1>3. export.kind \in {"orders", "stock"} /\ listed \subseteq Rows /\ IsFiniteSet(listed)
  BY AheadFinite DEF ExportTypeOK
<1>4. IsFiniteSet(listed') BY <1>1, <1>3, FS_AddElement
<1>5. \A r : Alone(r)' => Alone(r) BY <1>1, <1>2 DEF Alone
<1>6. \A r : Cardinality(Ahead(r)) <= Cardinality(Ahead(r)')
  <2> SUFFICES ASSUME NEW r PROVE Cardinality(Ahead(r)) <= Cardinality(Ahead(r)')
    OBVIOUS
  <2>1. Ahead(r) \subseteq Ahead(r)' /\ Ahead(r)' \subseteq listed' BY <1>1, <1>2 DEF Ahead
  <2>2. IsFiniteSet(Ahead(r)') BY <1>4, <2>1, FS_Subset
  <2> QED BY <2>1, <2>2, FS_Subset
<1>7. \A r : Cardinality(Ahead(r)) \in Nat /\ Cardinality(Ahead(r)') \in Nat
  <2> SUFFICES ASSUME NEW r PROVE Cardinality(Ahead(r)) \in Nat /\ Cardinality(Ahead(r)') \in Nat
    OBVIOUS
  <2>1. Ahead(r)' \subseteq listed' BY DEF Ahead
  <2>2. IsFiniteSet(Ahead(r)') BY <1>4, <2>1, FS_Subset
  <2> QED BY <2>2, FS_CardinalityType, AheadFinite
<1>8. ASSUME ~export.left
      PROVE  /\ export.base \subseteq listed'
             /\ \A r \in export.base \ export.got :
                   Alone(r)' => export.offset <= Cardinality(Ahead(r)')
  <2>1. /\ export.base \subseteq listed
        /\ \A r \in export.base \ export.got : Alone(r) => export.offset <= Cardinality(Ahead(r))
    BY <1>1, <1>8 DEF ReadInv, Exporting
  <2>2. export.offset \in Nat BY DEF ExportTypeOK
  <2>3. ASSUME NEW r \in export.base \ export.got, Alone(r)'
        PROVE  export.offset <= Cardinality(Ahead(r)')
    <3>1. export.offset <= Cardinality(Ahead(r)) BY <1>5, <2>1, <2>3
    <3> QED BY <1>6, <1>7, <2>2, <3>1
  <2> QED BY <1>1, <2>1, <2>3
<1>9. ASSUME export.pc = "page", ~export.left, ~export'.slip, NEW r \in export.base, Alone(r)'
      PROVE  Cardinality(Ahead(r)') < export.total
  <2>1. ~export.slip /\ \A s \in listed : Earlier(export.kind, s, x) BY <1>2, <1>9
  <2>2. r \in listed BY <1>9 DEF ReadInv, Exporting
  <2>3. ~ Earlier(export.kind, x, r) BY <1>3, <2>1, <2>2, KeysOrder
  <2>4. Ahead(r)' = Ahead(r) BY <1>1, <1>2, <2>3 DEF Ahead
  <2>5. Cardinality(Ahead(r)) < export.total BY <1>5, <1>9, <2>1 DEF ReadInv
  <2> QED BY <2>4, <2>5
<1>10. ExportComplete' BY <1>1, <1>2 DEF ExportComplete
<1> QED BY <1>2, <1>8, <1>9, <1>10 DEF ReadInv, Exporting

LEMMA PageReadRead == ASSUME ExportTypeOK, ReadInv, ExportPageRead PROVE ReadInv'
<1>1. PICK p \in Pages(export.kind, export.offset) :
         export' = IF (p = {} \/ export.offset + Cardinality(p) >= export.total) /\ ~Kept
                   THEN [ExportIdle EXCEPT !.id = export.id]
                   ELSE [export EXCEPT !.got = @ \cup p, !.offset = export.offset + Cardinality(p),
                            !.total = 0,
                            !.pc = IF p = {} \/ export.offset + Cardinality(p) >= export.total
                                   THEN "done" ELSE "count"]
  BY DEF ExportPageRead
<1>2. export.pc = "page" /\ listed' = listed BY DEF ExportPageRead
<1>3. p \subseteq listed /\ Cardinality(p) \in Nat BY PagesListed, ListedFinite
<1>4. PICK next : next = export.offset + Cardinality(p) OBVIOUS
<1>5. CASE (p = {} \/ next >= export.total) /\ ~Kept
  <2>1. export'.pc = "idle" BY <1>1, <1>4, <1>5 DEF ExportIdle
  <2> QED BY <2>1 DEF ReadInv, ExportComplete, Exporting
<1>6. CASE ~((p = {} \/ next >= export.total) /\ ~Kept)
  <2>1. export' = [export EXCEPT !.got = @ \cup p, !.offset = next, !.total = 0,
                     !.pc = IF p = {} \/ next >= export.total THEN "done" ELSE "count"]
    BY <1>1, <1>4, <1>6
  <2>2. /\ export'.pc = (IF p = {} \/ next >= export.total THEN "done" ELSE "count")
        /\ export'.kind = export.kind /\ export'.base = export.base
        /\ export'.got = export.got \cup p /\ export'.offset = next
        /\ export'.left = export.left /\ export'.slip = export.slip
    BY <2>1 DEF ExportTypeOK
  <2>3. \A r : (Alone(r)' <=> Alone(r)) /\ Ahead(r)' = Ahead(r) BY <1>2, <2>2 DEF Alone, Ahead
  <2>4. ASSUME ~export.left, NEW r \in export.base \ export'.got, Alone(r)
        PROVE  r \in listed /\ p # {} /\ next <= Cardinality(Ahead(r))
    <3>1. r \in listed /\ export.offset <= Cardinality(Ahead(r))
      BY <1>2, <2>2, <2>4 DEF ReadInv, Exporting
    <3>2. r \in listed \ p BY <2>2, <2>4, <3>1
    <3> QED BY <1>4, <2>4, <3>1, <3>2, PageAhead
  <2>5. CASE export'.pc = "count"
    <3>1. ~export.left => export.base \subseteq listed BY <1>2 DEF ReadInv, Exporting
    <3> QED BY <1>2, <2>2, <2>3, <2>4, <2>5, <3>1 DEF ReadInv, ExportComplete, Exporting
  <2>6. CASE export'.pc = "done"
    <3>1. ASSUME ~export.left, ~export.slip, NEW r \in export.base, Alone(r)
          PROVE  r \in export'.got
      <4>1. SUFFICES ASSUME r \notin export'.got PROVE FALSE
        OBVIOUS
      <4>2. p # {} /\ next <= Cardinality(Ahead(r)) BY <2>4, <3>1, <4>1
      <4>3. next >= export.total BY <2>2, <2>6, <4>2
      <4>4. Cardinality(Ahead(r)) < export.total BY <1>2, <3>1 DEF ReadInv
      <4>5. /\ Cardinality(Ahead(r)) \in Nat /\ export.total \in Nat /\ export.offset \in Nat
        BY AheadFinite DEF ExportTypeOK
      <4>6. next \in Nat BY <1>3, <1>4, <4>5
      <4> QED BY <4>2, <4>3, <4>4, <4>5, <4>6
    <3>2. ExportComplete' BY <1>2, <2>2, <3>1 DEF ExportComplete, Alone
    <3> QED BY <2>6, <3>2 DEF ReadInv, Exporting
  <2> QED BY <2>2, <2>5, <2>6
<1> QED BY <1>4, <1>5, <1>6

LEMMA NextRead == ExportTypeOK /\ ReadInv /\ [ExportNext]_ExportVars => ReadInv'
<1> SUFFICES ASSUME ExportTypeOK, ReadInv, [ExportNext]_ExportVars PROVE ReadInv'
  OBVIOUS
<1>1. ASSUME NEW r \in Rows, RowComes(r) PROVE ReadInv' BY <1>1, RowComesRead
<1>2. ASSUME NEW r \in Rows, RowLeaves(r) PROVE ReadInv'
  <2>1. export'.left /\ export'.pc = export.pc /\ export.pc \in {"count", "page"}
    BY <1>2 DEF RowLeaves, ExportTypeOK, Exporting
  <2> QED BY <2>1 DEF ReadInv, ExportComplete
<1>3. ASSUME NEW kind \in {"orders", "stock"}, ExportStart(kind) PROVE ReadInv'
  <2>1. /\ export'.pc = "count" /\ export'.offset = 0 /\ export'.base = listed
        /\ listed' = listed
    BY <1>3 DEF ExportStart, ExportIdle
  <2>2. \A r : Cardinality(Ahead(r)') \in Nat
    <3> SUFFICES ASSUME NEW r PROVE Cardinality(Ahead(r)') \in Nat
      OBVIOUS
    <3>1. Ahead(r)' \in SUBSET listed BY <2>1 DEF Ahead
    <3> QED BY <3>1, ListedFinite
  <2>3. \A r : 0 <= Cardinality(Ahead(r)') BY <2>2
  <2> QED BY <2>1, <2>3 DEF ReadInv, ExportComplete, Exporting
<1>4. CASE ExportCount
  <2>1. /\ export'.pc = "page" /\ export.pc = "count" /\ export'.total = Cardinality(listed)
        /\ export'.kind = export.kind /\ export'.base = export.base /\ export'.got = export.got
        /\ export'.offset = export.offset /\ export'.left = export.left /\ listed' = listed
    BY <1>4 DEF ExportCount, ExportTypeOK
  <2>2. \A r : (Alone(r)' <=> Alone(r)) /\ Ahead(r)' = Ahead(r) BY <2>1 DEF Alone, Ahead
  <2>3. \A r \in listed : Cardinality(Ahead(r)) < Cardinality(listed) BY AheadFewer
  <2> QED BY <2>1, <2>2, <2>3 DEF ReadInv, ExportComplete, Exporting
<1>5. CASE ExportPageRead BY <1>5, PageReadRead
<1>6. CASE ExportFails
  <2>1. export'.pc = "idle" BY <1>6 DEF ExportFails, ExportIdle
  <2> QED BY <2>1 DEF ReadInv, ExportComplete, Exporting
<1>7. CASE UNCHANGED <<listed, export>>
  BY <1>7 DEF ReadInv, ExportComplete, Exporting, Alone, Ahead
<1>8. CASE CleanStart \/ CleanRemove \/ CleanEnd
  BY <1>7, <1>8 DEF CleanStart, CleanRemove, CleanEnd
<1>9. CASE UNCHANGED ExportVars BY <1>7, <1>9 DEF ExportVars
<1> QED BY <1>1, <1>2, <1>3, <1>4, <1>5, <1>6, <1>8, <1>9 DEF ExportNext

\* Whatever rows there are, come and go, and however long a page is: an
\* export that ends holds every row of its beginning that stands alone in
\* the sort, unless a row left or one came between a count and its page.
THEOREM ExportsAll == ExportSpec => []ExportComplete
<1>1. ExportInit => ReadInv
  BY DEF ExportInit, ExportIdle, ReadInv, ExportComplete, Exporting
<1>2. FilesInv => ExportTypeOK BY DEF FilesInv
<1>3. ReadInv => ExportComplete BY DEF ReadInv
<1> QED BY <1>1, <1>2, <1>3, InitFiles, NextFiles, NextRead, PTL DEF ExportSpec

-----------------------------------------------------------------------------
(***************************************************************************)
(* For SKUs of every alphabet and length and any number of lines, the      *)
(* tasks read from a row the tokens the pull wrote, and multi_ban sees     *)
(* from them what the lines say.                                           *)
(*                                                                         *)
(* The recursive functions of RowItems are met as functions on 0..n that   *)
(* satisfy the recursion (Recursion shows there is one), and what holds at *)
(* every i of them follows by UpTo.  The reader takes a text letter by     *)
(* letter, so it takes s \o t as s and then t (ScanBoth): an escaped       *)
(* letter, an element, a comma and the whole column are read one after the *)
(* other (ScanEscaped, ScanPart, ScanComma, ReadsWritten).                 *)
(***************************************************************************)

\* Induction up to n, for a property given as the set of numbers that have it.
LEMMA UpTo ==
    ASSUME NEW n \in Nat, NEW S, 0 \in S, \A i \in 1..n : i - 1 \in S => i \in S
    PROVE  \A i \in 0..n : i \in S
<1> DEFINE T == {k \in 0..n : k \notin S}
<1>1. SUFFICES ASSUME T # {} PROVE FALSE
  OBVIOUS
<1>2. PICK m \in T : \A k \in T : m <= k
  <2> HIDE DEF T
  <2>1. T \subseteq Nat BY DEF T
  <2> QED BY <1>1, <2>1, LeastNumber
<1>3. m # 0 /\ m \in 1..n BY <1>2
<1>4. m - 1 \in 0..n /\ m - 1 \notin T BY <1>2, <1>3
<1>5. m - 1 \in S BY <1>4
<1> QED BY <1>2, <1>3, <1>5

\* A recursion up to n has a solution.
Solves(g, first, step, n) == g[0] = first /\ \A i \in 1..n : g[i] = step[<<i, g[i - 1]>>]

LEMMA Recursion ==
    ASSUME NEW n \in Nat, NEW V, NEW first \in V, NEW step \in [(1..n) \X V -> V]
    PROVE  \E g \in [0..n -> V] : Solves(g, first, step, n)
<1> DEFINE S == {k \in 0..n : \E g \in [0..k -> V] : Solves(g, first, step, k)}
<1>1. 0 \in S
  <2>1. PICK g : g = [i \in 0..0 |-> first] OBVIOUS
  <2>2. g \in [0..0 -> V] /\ Solves(g, first, step, 0) BY <2>1 DEF Solves
  <2> QED BY <2>2
<1>2. ASSUME NEW k \in 1..n, k - 1 \in S PROVE k \in S
  <2>1. PICK g \in [0..(k - 1) -> V] : Solves(g, first, step, k - 1) BY <1>2
  <2>2. PICK h : h = [i \in 0..k |-> IF i = k THEN step[<<k, g[k - 1]>>] ELSE g[i]] OBVIOUS
  <2>3. step[<<k, g[k - 1]>>] \in V
    <3>1. g[k - 1] \in V OBVIOUS
    <3> QED BY <3>1
  <2>4. h \in [0..k -> V] BY <2>2, <2>3
  <2>5. h[0] = first BY <2>1, <2>2 DEF Solves
  <2>6. ASSUME NEW i \in 1..k PROVE h[i] = step[<<i, h[i - 1]>>]
    <3>1. CASE i = k
      <4>1. h[k - 1] = g[k - 1] BY <2>2
      <4>2. h[k] = step[<<k, g[k - 1]>>] BY <2>2
      <4> QED BY <3>1, <4>1, <4>2
    <3>2. CASE i # k
      <4>1. i \in 1..(k - 1) /\ h[i] = g[i] /\ h[i - 1] = g[i - 1] BY <2>2, <3>2
      <4> QED BY <2>1, <4>1 DEF Solves
    <3> QED BY <3>1, <3>2
  <2>7. Solves(h, first, step, k) BY <2>5, <2>6 DEF Solves
  <2>8. \E x \in [0..k -> V] : Solves(x, first, step, k) BY <2>4, <2>7
  <2> QED BY <2>8
<1>3. \A k \in 0..n : k \in S
  <2> HIDE DEF S
  <2> QED BY <1>1, <1>2, UpTo
<1>4. \E g \in [0..n -> V] : Solves(g, first, step, n)
  <2>1. n \in 0..n OBVIOUS
  <2>2. n \in S
    <3> HIDE DEF S
    <3> QED BY <1>3, <2>1
  <2> QED BY <2>2
<1> QED BY <1>4

-----------------------------------------------------------------------------
(* Reading *)

Chars == Letters \cup {Quote, Escape, Space, ",", "(", ")", "1", "2", "{", "}"}
Text  == Seq(Chars)
State == [at : {"between", "quoted", "escaped", "plain"}, item : Text, items : Seq(Text)]

LEMMA Signs ==
    /\ Quote # Escape /\ Quote # "," /\ Escape # "," /\ Quote # Space /\ Space # ","
    /\ Quote \in Chars /\ Escape \in Chars /\ "," \in Chars
BY DEF Quote, Escape, Space, Chars

\* What the proofs use of sequences.
LEMMA Lists ==
    ASSUME NEW C
    PROVE  /\ <<>> \in Seq(C)
           /\ \A a \in C : <<a>> \in Seq(C)
           /\ \A s, t \in Seq(C) : s \o t \in Seq(C)
           /\ \A s, t, u \in Seq(C) : s \o t \o u = s \o (t \o u)
           /\ \A s \in Seq(C) : s \o <<>> = s /\ <<>> \o s = s
  OBVIOUS

LEMMA Texts ==
    /\ <<>> \in Text
    /\ \A s, t \in Text : s \o t \in Text
    /\ \A s, t, u \in Text : s \o t \o u = s \o (t \o u)
<1>1. /\ <<>> \in Seq(Chars)
      /\ \A s, t \in Seq(Chars) : s \o t \in Seq(Chars)
      /\ \A s, t, u \in Seq(Chars) : s \o t \o u = s \o (t \o u)
  BY Lists
<1> QED BY <1>1 DEF Text

\* Appending is associative.
LEMMA Associative ==
    ASSUME NEW s \in Text, NEW t \in Text, NEW u \in Text
    PROVE  s \o t \o u = s \o (t \o u) /\ t \o u \in Text
<1>1. s \in Seq(Chars) /\ t \in Seq(Chars) /\ u \in Seq(Chars) BY DEF Text
<1>2. s \o t \o u = s \o (t \o u) BY <1>1
<1>3. t \o u \in Seq(Chars) BY <1>1
<1> QED BY <1>2, <1>3 DEF Text

\* What is between a first and a last letter.
LEMMA InBraces ==
    ASSUME NEW C, NEW b \in Seq(C), NEW x \in C, NEW y \in C,
           NEW t, t = <<x>> \o b \o <<y>>
    PROVE  SubSeq(t, 2, Len(t) - 1) = b
<1>1. Len(t) = Len(b) + 2 /\ Len(b) \in Nat OBVIOUS
<1>2. t \in Seq(C) OBVIOUS
<1>3. \A i \in 1..Len(b) : t[i + 1] = b[i] OBVIOUS
<1>4. Len(SubSeq(t, 2, Len(t) - 1)) = Len(b) BY <1>1, <1>2
<1>5. \A i \in 1..Len(b) : SubSeq(t, 2, Len(t) - 1)[i] = b[i] BY <1>1, <1>2, <1>3
<1>6. SubSeq(t, 2, Len(t) - 1) \in Seq(C) BY <1>1, <1>2
<1> QED BY <1>4, <1>5, <1>6

LEMMA Prefixes ==
    ASSUME NEW C, NEW s \in Seq(C)
    PROVE  /\ Len(s) \in Nat /\ SubSeq(s, 1, 0) = <<>> /\ SubSeq(s, 1, Len(s)) = s
           /\ \A i \in 1..Len(s) :
                 /\ s[i] \in C /\ SubSeq(s, 1, i - 1) \in Seq(C)
                 /\ Append(SubSeq(s, 1, i - 1), s[i]) = SubSeq(s, 1, i)
                 /\ SubSeq(s, 1, i) \in Seq(C)
<1>1. Len(s) \in Nat /\ SubSeq(s, 1, 0) = <<>> /\ SubSeq(s, 1, Len(s)) = s OBVIOUS
<1>2. ASSUME NEW i \in 1..Len(s)
      PROVE  /\ s[i] \in C /\ SubSeq(s, 1, i - 1) \in Seq(C)
             /\ Append(SubSeq(s, 1, i - 1), s[i]) = SubSeq(s, 1, i)
             /\ SubSeq(s, 1, i) \in Seq(C)
  <2>1. s[i] \in C OBVIOUS
  <2>2. SubSeq(s, 1, i - 1) \in Seq(C) OBVIOUS
  <2>3. SubSeq(s, 1, i) \in Seq(C) OBVIOUS
  <2>4. Append(SubSeq(s, 1, i - 1), s[i]) = SubSeq(s, 1, i) OBVIOUS
  <2> QED BY <2>1, <2>2, <2>3, <2>4
<1> QED BY <1>1, <1>2

LEMMA ReadTyped == ASSUME NEW st \in State, NEW c \in Chars PROVE Read(st, c) \in State
<1>1. st.at \in {"between", "quoted", "escaped", "plain"} /\ st.item \in Text /\ st.items \in Seq(Text)
  BY DEF State
<1>2. Append(st.item, c) \in Text /\ Append(st.items, st.item) \in Seq(Text) /\ <<c>> \in Text
  BY <1>1 DEF Text
<1>3. Between(Append(st.items, st.item)) \in State BY <1>2 DEF Between, State, Text
<1>4. CASE st.at = "between" BY <1>2, <1>4 DEF Read, State
<1>5. CASE st.at = "quoted" BY <1>2, <1>3, <1>5 DEF Read, State
<1>6. CASE st.at = "escaped" BY <1>2, <1>6 DEF Read, State
<1>7. CASE st.at = "plain" BY <1>2, <1>3, <1>7 DEF Read, State
<1> QED BY <1>1, <1>4, <1>5, <1>6, <1>7

\* R[i] is the state of the reader when i letters of s are read.
Scans(R, s, st) ==
    /\ R \in [0..Len(s) -> State] /\ R[0] = st
    /\ \A i \in 1..Len(s) : R[i] = Read(R[i - 1], s[i])

LEMMA ScanIs ==
    ASSUME NEW s \in Text, NEW st \in State
    PROVE  \E R : Scans(R, s, st) /\ Scan(s, st) = R[Len(s)]
<1> DEFINE step == [x \in (1..Len(s)) \X State |-> Read(x[2], s[x[1]])]
           F == CHOOSE R : R = [i \in 0..Len(s) |-> IF i = 0 THEN st ELSE Read(R[i - 1], s[i])]
<1>1. Len(s) \in Nat /\ \A i \in 1..Len(s) : s[i] \in Chars BY DEF Text
<1>2. step \in [(1..Len(s)) \X State -> State] BY <1>1, ReadTyped
<1>3. PICK g \in [0..Len(s) -> State] : Solves(g, st, step, Len(s))
  <2>1. PICK n \in Nat : n = Len(s) BY <1>1
  <2>2. step \in [(1..n) \X State -> State] BY <1>2, <2>1
  <2> HIDE DEF step, F
  <2>3. \E g \in [0..n -> State] : Solves(g, st, step, n) BY <2>2, Recursion
  <2> QED BY <2>1, <2>3
<1>4. g[0] = st /\ \A i \in 1..Len(s) : g[i] = Read(g[i - 1], s[i])
  <2>1. ASSUME NEW i \in 1..Len(s) PROVE g[i] = Read(g[i - 1], s[i])
    <3>1. g[i - 1] \in State BY <1>1
    <3>2. step[<<i, g[i - 1]>>] = Read(g[i - 1], s[i]) BY <3>1
    <3> HIDE DEF step
    <3> QED BY <1>3, <3>2 DEF Solves
  <2> QED BY <1>3, <2>1 DEF Solves
<1>5. g = [i \in 0..Len(s) |-> IF i = 0 THEN st ELSE Read(g[i - 1], s[i])]
  BY <1>1, <1>4
<1>6. F = [i \in 0..Len(s) |-> IF i = 0 THEN st ELSE Read(F[i - 1], s[i])]
  BY <1>5
<1>7. Scan(s, st) = F[Len(s)] BY DEF Scan
<1> HIDE DEF F, step
<1>8. F[0] = st /\ \A i \in 1..Len(s) : F[i] = Read(F[i - 1], s[i]) BY <1>1, <1>6
<1>9. \A i \in 0..Len(s) : F[i] \in State
  <2> DEFINE S == {i \in 0..Len(s) : F[i] \in State}
  <2>1. 0 \in S BY <1>1, <1>8
  <2>2. ASSUME NEW i \in 1..Len(s), i - 1 \in S PROVE i \in S
    BY <1>1, <1>8, <2>2, ReadTyped
  <2>3. \A i \in 0..Len(s) : i \in S
    <3> HIDE DEF S
    <3> QED BY <1>1, <2>1, <2>2, UpTo
  <2> QED BY <2>3
<1>10. F \in [0..Len(s) -> State]
  <2>1. F = [i \in 0..Len(s) |-> F[i]] BY <1>6
  <2> QED BY <1>9, <2>1
<1> QED BY <1>7, <1>8, <1>10 DEF Scans

LEMMA ScanTyped == ASSUME NEW s \in Text, NEW st \in State PROVE Scan(s, st) \in State
<1>1. PICK R : Scans(R, s, st) /\ Scan(s, st) = R[Len(s)] BY ScanIs
<1>2. Len(s) \in Nat BY DEF Text
<1> QED BY <1>1, <1>2 DEF Scans

LEMMA ScanNothing == ASSUME NEW st \in State PROVE Scan(<<>>, st) = st
<1>1. <<>> \in Text /\ Len(<<>>) = 0 BY DEF Text
<1>2. PICK R : Scans(R, <<>>, st) /\ Scan(<<>>, st) = R[Len(<<>>)] BY <1>1, ScanIs
<1> QED BY <1>1, <1>2 DEF Scans

LEMMA ScanLetter == ASSUME NEW c \in Chars, NEW st \in State PROVE Scan(<<c>>, st) = Read(st, c)
<1>1. <<c>> \in Text /\ Len(<<c>>) = 1 /\ <<c>>[1] = c BY DEF Text
<1>2. PICK R : Scans(R, <<c>>, st) /\ Scan(<<c>>, st) = R[Len(<<c>>)] BY <1>1, ScanIs
<1> QED BY <1>1, <1>2 DEF Scans

\* A text is read like its two parts one after the other.
LEMMA ScanBoth ==
    ASSUME NEW s \in Text, NEW t \in Text, NEW st \in State
    PROVE  s \o t \in Text /\ Scan(s \o t, st) = Scan(t, Scan(s, st))
<1>1. PICK u : u = s \o t OBVIOUS
<1>2. /\ u \in Text /\ Len(s) \in Nat /\ Len(t) \in Nat /\ Len(u) = Len(s) + Len(t)
      /\ \A i \in 1..Len(s) : u[i] = s[i]
      /\ \A i \in 1..Len(t) : u[Len(s) + i] = t[i]
  BY <1>1 DEF Text
<1>3. PICK R : Scans(R, s, st) /\ Scan(s, st) = R[Len(s)] BY ScanIs
<1>4. PICK Q : Scans(Q, t, Scan(s, st)) /\ Scan(t, Scan(s, st)) = Q[Len(t)] BY ScanIs, ScanTyped
<1>5. PICK U : Scans(U, u, st) /\ Scan(u, st) = U[Len(u)] BY <1>2, ScanIs
<1>6. \A i \in 0..Len(s) : U[i] = R[i]
  <2> DEFINE S == {i \in 0..Len(s) : U[i] = R[i]}
  <2>1. 0 \in S BY <1>2, <1>3, <1>5 DEF Scans
  <2>2. ASSUME NEW i \in 1..Len(s), i - 1 \in S PROVE i \in S
    <3>1. i \in 1..Len(u) BY <1>2
    <3>2. U[i] = Read(U[i - 1], u[i]) /\ R[i] = Read(R[i - 1], s[i]) BY <1>3, <1>5, <3>1 DEF Scans
    <3> QED BY <1>2, <2>2, <3>2
  <2>3. \A i \in 0..Len(s) : i \in S
    <3> HIDE DEF S
    <3> QED BY <1>2, <2>1, <2>2, UpTo
  <2> QED BY <2>3
<1>7. \A i \in 0..Len(t) : U[Len(s) + i] = Q[i]
  <2> DEFINE S == {i \in 0..Len(t) : U[Len(s) + i] = Q[i]}
  <2>1. 0 \in S BY <1>2, <1>3, <1>4, <1>6 DEF Scans
  <2>2. ASSUME NEW i \in 1..Len(t), i - 1 \in S PROVE i \in S
    <3>1. Len(s) + i \in 1..Len(u) /\ (Len(s) + i) - 1 = Len(s) + (i - 1) BY <1>2
    <3>2. U[Len(s) + i] = Read(U[(Len(s) + i) - 1], u[Len(s) + i]) BY <1>5, <3>1 DEF Scans
    <3>3. Q[i] = Read(Q[i - 1], t[i]) BY <1>4 DEF Scans
    <3> QED BY <1>2, <2>2, <3>1, <3>2, <3>3
  <2>3. \A i \in 0..Len(t) : i \in S
    <3> HIDE DEF S
    <3> QED BY <1>2, <2>1, <2>2, UpTo
  <2> QED BY <2>3
<1>8. Scan(u, st) = Scan(t, Scan(s, st)) BY <1>2, <1>4, <1>5, <1>7
<1> QED BY <1>1, <1>2, <1>8

-----------------------------------------------------------------------------
(* Writing, and reading what was written *)

\* E[i] is the first i letters of s, escaped.
Escapes(E, s) ==
    /\ E \in [0..Len(s) -> Text] /\ E[0] = <<>>
    /\ \A i \in 1..Len(s) :
          E[i] = E[i - 1] \o (IF s[i] \in {Quote, Escape} THEN <<Escape>> ELSE <<>>) \o <<s[i]>>

LEMMA EscapedIs ==
    ASSUME NEW s \in Text
    PROVE  \E E : Escapes(E, s) /\ Escaped(s, {Quote, Escape}) = E[Len(s)]
<1> DEFINE Next1(e, i) == e \o (IF s[i] \in {Quote, Escape} THEN <<Escape>> ELSE <<>>) \o <<s[i]>>
           step == [x \in (1..Len(s)) \X Text |-> Next1(x[2], x[1])]
           F == CHOOSE E : E = [i \in 0..Len(s) |-> IF i = 0 THEN <<>> ELSE Next1(E[i - 1], i)]
<1>1. Len(s) \in Nat /\ (\A i \in 1..Len(s) : s[i] \in Chars) /\ <<>> \in Text BY DEF Text
<1>2. ASSUME NEW e \in Text, NEW i \in 1..Len(s) PROVE Next1(e, i) \in Text
  <2>1. <<s[i]>> \in Text /\ <<Escape>> \in Text /\ <<>> \in Text BY <1>1, Signs, Lists DEF Text
  <2>2. PICK x \in Text : x = IF s[i] \in {Quote, Escape} THEN <<Escape>> ELSE <<>> BY <2>1
  <2>3. e \o x \o <<s[i]>> \in Text BY <2>1, Lists DEF Text
  <2> QED BY <2>2, <2>3
<1>3. step \in [(1..Len(s)) \X Text -> Text]
  <2> HIDE DEF Next1
  <2> QED BY <1>2
<1>4. PICK g \in [0..Len(s) -> Text] : Solves(g, <<>>, step, Len(s))
  <2>1. PICK n \in Nat : n = Len(s) BY <1>1
  <2>2. step \in [(1..n) \X Text -> Text] BY <1>3, <2>1
  <2> HIDE DEF step, F, Next1
  <2>3. \E g \in [0..n -> Text] : Solves(g, <<>>, step, n) BY <1>1, <2>2, Recursion
  <2> QED BY <2>1, <2>3
<1> HIDE DEF Next1
<1>5. g[0] = <<>> /\ \A i \in 1..Len(s) : g[i] = Next1(g[i - 1], i)
  <2>1. ASSUME NEW i \in 1..Len(s) PROVE g[i] = Next1(g[i - 1], i)
    <3>1. g[i - 1] \in Text BY <1>1
    <3>2. step[<<i, g[i - 1]>>] = Next1(g[i - 1], i) BY <3>1
    <3> HIDE DEF step
    <3> QED BY <1>4, <3>2 DEF Solves
  <2> QED BY <1>4, <2>1 DEF Solves
<1>6. g = [i \in 0..Len(s) |-> IF i = 0 THEN <<>> ELSE Next1(g[i - 1], i)] BY <1>1, <1>5
<1>7. F = [i \in 0..Len(s) |-> IF i = 0 THEN <<>> ELSE Next1(F[i - 1], i)] BY <1>6
<1>8. Escaped(s, {Quote, Escape}) = F[Len(s)] BY DEF Escaped, Next1
<1> HIDE DEF F, step
<1>9. F[0] = <<>> /\ \A i \in 1..Len(s) : F[i] = Next1(F[i - 1], i) BY <1>1, <1>7
<1>10. \A i \in 0..Len(s) : F[i] \in Text
  <2> DEFINE S == {i \in 0..Len(s) : F[i] \in Text}
  <2>1. 0 \in S BY <1>1, <1>9
  <2>2. ASSUME NEW i \in 1..Len(s), i - 1 \in S PROVE i \in S
    BY <1>1, <1>2, <1>9, <2>2
  <2>3. \A i \in 0..Len(s) : i \in S
    <3> HIDE DEF S
    <3> QED BY <1>1, <2>1, <2>2, UpTo
  <2> QED BY <2>3
<1>11. F \in [0..Len(s) -> Text]
  <2>1. F = [i \in 0..Len(s) |-> F[i]] BY <1>7
  <2> QED BY <1>10, <2>1
<1> QED BY <1>8, <1>9, <1>11 DEF Escapes, Next1

LEMMA EscapedTyped == ASSUME NEW s \in Text PROVE Escaped(s, {Quote, Escape}) \in Text /\ Quoted(s) \in Text
<1>1. PICK E : Escapes(E, s) /\ Escaped(s, {Quote, Escape}) = E[Len(s)] BY EscapedIs
<1>2. Len(s) \in Nat BY DEF Text
<1>3. Escaped(s, {Quote, Escape}) \in Text BY <1>1, <1>2 DEF Escapes
<1>4. <<Quote>> \in Text BY Signs, Lists DEF Text
<1>5. <<Quote>> \o Escaped(s, {Quote, Escape}) \o <<Quote>> \in Text BY <1>3, <1>4, Lists DEF Text
<1> QED BY <1>3, <1>5 DEF Quoted

\* The reader in a quoted element.
InQuotes(item, items) == [at |-> "quoted", item |-> item, items |-> items]

\* An escaped text is read as it was.
LEMMA ScanEscaped ==
    ASSUME NEW s \in Text, NEW items \in Seq(Text)
    PROVE  Scan(Escaped(s, {Quote, Escape}), InQuotes(<<>>, items)) = InQuotes(s, items)
<1>1. PICK E : Escapes(E, s) /\ Escaped(s, {Quote, Escape}) = E[Len(s)] BY EscapedIs
<1>2. Len(s) \in Nat /\ (\A i \in 1..Len(s) : s[i] \in Chars) /\ <<>> \in Text BY DEF Text
<1>3. \A e \in Text : InQuotes(e, items) \in State BY DEF InQuotes, State
<1> DEFINE S == {i \in 0..Len(s) :
                   Scan(E[i], InQuotes(<<>>, items)) = InQuotes(SubSeq(s, 1, i), items)}
<1>4. 0 \in S
  <2>1. SubSeq(s, 1, 0) = <<>> BY DEF Text
  <2> QED BY <1>1, <1>2, <1>3, <2>1, ScanNothing DEF Escapes
<1>5. ASSUME NEW i \in 1..Len(s), i - 1 \in S PROVE i \in S
  <2>1. PICK c \in Chars : c = s[i] BY <1>2
  <2>3. <<Escape>> \in Text /\ <<>> \in Text /\ <<c>> \in Text BY Signs, Lists DEF Text
  <2>2. PICK e \in Text : e = (IF c \in {Quote, Escape} THEN <<Escape>> ELSE <<>>) BY <2>3
  <2>4. E[i] = E[i - 1] \o e \o <<c>> /\ E[i - 1] \in Text
    <3>1. E[i - 1] \in Text BY <1>1, <1>2 DEF Escapes
    <3>2. E[i] = E[i - 1] \o (IF s[i] \in {Quote, Escape} THEN <<Escape>> ELSE <<>>) \o <<s[i]>>
      BY <1>1 DEF Escapes
    <3> QED BY <2>1, <2>2, <3>1, <3>2
  <2>5. PICK p \in Text : p = SubSeq(s, 1, i - 1) BY Prefixes DEF Text
  <2>6. Append(p, c) = SubSeq(s, 1, i) /\ Append(p, c) \in Text BY <2>1, <2>5, Prefixes DEF Text
  <2>7. Scan(E[i - 1], InQuotes(<<>>, items)) = InQuotes(p, items) BY <1>5, <2>5
  <2>8. Scan(e \o <<c>>, InQuotes(p, items)) = InQuotes(Append(p, c), items)
    <3>1. Scan(e \o <<c>>, InQuotes(p, items)) = Scan(<<c>>, Scan(e, InQuotes(p, items)))
      BY <1>3, <2>3, ScanBoth
    <3>2. CASE c \in {Quote, Escape}
      <4>1. Scan(e, InQuotes(p, items)) = Read(InQuotes(p, items), Escape)
        BY <1>3, <2>2, <3>2, Signs, ScanLetter
      <4>2. Read(InQuotes(p, items), Escape) = [at |-> "escaped", item |-> p, items |-> items]
        BY DEF Read, InQuotes
      <4>3. [at |-> "escaped", item |-> p, items |-> items] \in State BY DEF State
      <4>4. Read([at |-> "escaped", item |-> p, items |-> items], c) = InQuotes(Append(p, c), items)
        BY DEF Read, InQuotes
      <4> QED BY <3>1, <4>1, <4>2, <4>3, <4>4, ScanLetter
    <3>3. CASE c \notin {Quote, Escape}
      <4>1. Scan(e, InQuotes(p, items)) = InQuotes(p, items) BY <1>3, <2>2, <3>3, ScanNothing
      <4>2. Read(InQuotes(p, items), c) = InQuotes(Append(p, c), items) BY <3>3 DEF Read, InQuotes
      <4> QED BY <1>3, <3>1, <4>1, <4>2, ScanLetter
    <3> QED BY <3>2, <3>3
  <2>9. E[i] = E[i - 1] \o (e \o <<c>>) /\ e \o <<c>> \in Text
    <3>1. PICK d \in Text : d = E[i - 1] BY <2>4
    <3>2. PICK k \in Text : k = <<c>> BY <2>3
    <3>3. d \o e \o k = d \o (e \o k) /\ e \o k \in Text BY Associative
    <3> QED BY <2>4, <3>1, <3>2, <3>3
  <2>10. Scan(E[i], InQuotes(<<>>, items)) = InQuotes(Append(p, c), items)
    <3>1. InQuotes(<<>>, items) \in State BY <1>2, <1>3
    <3>2. Scan(E[i - 1] \o (e \o <<c>>), InQuotes(<<>>, items))
             = Scan(e \o <<c>>, Scan(E[i - 1], InQuotes(<<>>, items)))
      BY <2>4, <2>9, <3>1, ScanBoth
    <3> QED BY <2>7, <2>8, <2>9, <3>2
  <2> QED BY <2>6, <2>10
<1>6. Len(s) \in S
  <2>1. \A i \in 0..Len(s) : i \in S
    <3> HIDE DEF S
    <3> QED BY <1>2, <1>4, <1>5, UpTo
  <2> QED BY <1>2, <2>1
<1>7. SubSeq(s, 1, Len(s)) = s BY DEF Text
<1> QED BY <1>1, <1>6, <1>7

\* The reader in a plain element.
Plainly(item, items) == [at |-> "plain", item |-> item, items |-> items]

LEMMA StatesTyped ==
    ASSUME NEW item \in Text, NEW items \in Seq(Text)
    PROVE  Between(items) \in State /\ InQuotes(item, items) \in State /\ Plainly(item, items) \in State
  BY Lists DEF Between, InQuotes, Plainly, State, Text

\* An element in quotes ...
LEMMA ScanQuoted ==
    ASSUME NEW s \in Text, NEW items \in Seq(Text)
    PROVE  Scan(Quoted(s), Between(items)) = Between(Append(items, s))
<1>1. PICK e \in Text : e = Escaped(s, {Quote, Escape}) BY EscapedTyped
<1>2. PICK q \in Text : q = <<Quote>> BY Signs, Lists DEF Text
<1>3. Quoted(s) = q \o e \o q BY <1>1, <1>2 DEF Quoted
<1>4. q \o e \in Text BY Lists DEF Text
<1>5. <<>> \in Text BY Lists DEF Text
<1>6. Scan(q \o e \o q, Between(items)) = Scan(q, Scan(q \o e, Between(items)))
  BY <1>4, <1>5, StatesTyped, ScanBoth
<1>7. Scan(q \o e, Between(items)) = Scan(e, Scan(q, Between(items)))
  BY <1>5, StatesTyped, ScanBoth
<1>8. Scan(q, Between(items)) = InQuotes(<<>>, items)
  <2>1. Scan(q, Between(items)) = Read(Between(items), Quote)
    BY <1>2, <1>5, StatesTyped, Signs, ScanLetter
  <2> QED BY <2>1, Signs DEF Read, Between, InQuotes
<1>9. Scan(e, InQuotes(<<>>, items)) = InQuotes(s, items) BY <1>1, ScanEscaped
<1>10. Scan(q, InQuotes(s, items)) = Between(Append(items, s))
  <2>1. Scan(q, InQuotes(s, items)) = Read(InQuotes(s, items), Quote)
    BY <1>2, StatesTyped, Signs, ScanLetter
  <2> QED BY <2>1, Signs DEF Read, InQuotes
<1> QED BY <1>3, <1>6, <1>7, <1>8, <1>9, <1>10

\* ... and one without.
LEMMA ScanPlain ==
    ASSUME NEW s \in Text, Plain(s), NEW items \in Seq(Text)
    PROVE  Scan(s, Between(items)) = Plainly(s, items)
<1>1. Between(items) \in State /\ Len(s) \in Nat /\ Len(s) # 0
  <2>1. Between(items) \in State BY StatesTyped
  <2>2. s # <<>> BY DEF Plain
  <2>3. Len(s) \in Nat /\ (Len(s) = 0 => s = <<>>) BY DEF Text
  <2> QED BY <2>1, <2>2, <2>3
<1>2. PICK R : Scans(R, s, Between(items)) /\ Scan(s, Between(items)) = R[Len(s)] BY <1>1, ScanIs
<1> DEFINE S == {i \in 0..Len(s) : i # 0 => R[i] = Plainly(SubSeq(s, 1, i), items)}
<1>3. 0 \in S BY <1>1
<1>4. ASSUME NEW i \in 1..Len(s), i - 1 \in S PROVE i \in S
  <2>1. PICK c : c = s[i] OBVIOUS
  <2>2. c \notin {",", Quote, Space} BY <2>1 DEF Plain
  <2>3. R[i] = Read(R[i - 1], c) BY <1>2, <2>1 DEF Scans
  <2>4. PICK p : p = SubSeq(s, 1, i - 1) OBVIOUS
  <2>5. Append(p, c) = SubSeq(s, 1, i) BY <2>1, <2>4, Prefixes DEF Text
  <2>6. CASE i = 1
    <3>1. R[0] = Between(items) BY <1>2 DEF Scans
    <3>2. Read(Between(items), c) = Plainly(<<c>>, items) BY <2>2 DEF Read, Between, Plainly
    <3>3. p = <<>> BY <2>4, <2>6, Prefixes DEF Text
    <3>4. Append(<<>>, c) = <<c>> OBVIOUS
    <3>5. i - 1 = 0 BY <2>6
    <3>6. R[i] = Plainly(<<c>>, items) BY <2>3, <3>1, <3>2, <3>5
    <3>7. <<c>> = SubSeq(s, 1, i) BY <2>5, <3>3, <3>4
    <3>8. R[i] = Plainly(SubSeq(s, 1, i), items) BY <3>6, <3>7
    <3> QED BY <1>1, <3>8
  <2>7. CASE i # 1
    <3>1. R[i - 1] = Plainly(p, items) BY <1>4, <2>4, <2>7
    <3>2. Read(Plainly(p, items), c) = Plainly(Append(p, c), items) BY <2>2 DEF Read, Plainly
    <3>3. R[i] = Plainly(SubSeq(s, 1, i), items) BY <2>3, <2>5, <3>1, <3>2
    <3> QED BY <1>1, <3>3
  <2> QED BY <2>6, <2>7
<1>5. \A i \in 0..Len(s) : i \in S
  <2> HIDE DEF S
  <2> QED BY <1>1, <1>3, <1>4, UpTo
<1>6. R[Len(s)] = Plainly(SubSeq(s, 1, Len(s)), items) BY <1>1, <1>5
<1> QED BY <1>2, <1>6, Prefixes DEF Text

\* B[i] is the first i parts with their commas.
Joins(B, parts) ==
    /\ B \in [0..Len(parts) -> Text] /\ B[0] = <<>>
    /\ \A i \in 1..Len(parts) : B[i] = B[i - 1] \o (IF i = 1 THEN <<>> ELSE <<",">>) \o parts[i]

LEMMA BracedIs ==
    ASSUME NEW parts \in Seq(Text)
    PROVE  \E B : Joins(B, parts) /\ Braced(parts) = <<"{">> \o B[Len(parts)] \o <<"}">>
<1> DEFINE More(b, i) == b \o (IF i = 1 THEN <<>> ELSE <<",">>) \o parts[i]
           step == [x \in (1..Len(parts)) \X Text |-> More(x[2], x[1])]
           F == CHOOSE B : B = [i \in 0..Len(parts) |-> IF i = 0 THEN <<>> ELSE More(B[i - 1], i)]
<1>1. Len(parts) \in Nat /\ (\A i \in 1..Len(parts) : parts[i] \in Text) /\ <<>> \in Text
  BY Lists DEF Text
<1>2. ASSUME NEW b \in Text, NEW i \in 1..Len(parts) PROVE More(b, i) \in Text
  <2>1. parts[i] \in Text /\ <<",">> \in Text /\ <<>> \in Text BY <1>1, Signs, Lists DEF Text
  <2>2. PICK x \in Text : x = IF i = 1 THEN <<>> ELSE <<",">> BY <2>1
  <2>3. b \o x \o parts[i] \in Text BY <2>1, Lists DEF Text
  <2> QED BY <2>2, <2>3
<1>3. step \in [(1..Len(parts)) \X Text -> Text]
  <2> HIDE DEF More
  <2> QED BY <1>2
<1>4. PICK g \in [0..Len(parts) -> Text] : Solves(g, <<>>, step, Len(parts))
  <2>1. PICK n \in Nat : n = Len(parts) BY <1>1
  <2>2. step \in [(1..n) \X Text -> Text] BY <1>3, <2>1
  <2> HIDE DEF step, F, More
  <2>3. \E g \in [0..n -> Text] : Solves(g, <<>>, step, n) BY <1>1, <2>2, Recursion
  <2> QED BY <2>1, <2>3
<1> HIDE DEF More
<1>5. g[0] = <<>> /\ \A i \in 1..Len(parts) : g[i] = More(g[i - 1], i)
  <2>1. ASSUME NEW i \in 1..Len(parts) PROVE g[i] = More(g[i - 1], i)
    <3>1. g[i - 1] \in Text BY <1>1
    <3>2. step[<<i, g[i - 1]>>] = More(g[i - 1], i) BY <3>1
    <3> HIDE DEF step
    <3> QED BY <1>4, <3>2 DEF Solves
  <2> QED BY <1>4, <2>1 DEF Solves
<1>6. g = [i \in 0..Len(parts) |-> IF i = 0 THEN <<>> ELSE More(g[i - 1], i)] BY <1>1, <1>5
<1>7. F = [i \in 0..Len(parts) |-> IF i = 0 THEN <<>> ELSE More(F[i - 1], i)] BY <1>6
<1>8. Braced(parts) = <<"{">> \o F[Len(parts)] \o <<"}">> BY DEF Braced, More
<1> HIDE DEF F, step
<1>9. F[0] = <<>> /\ \A i \in 1..Len(parts) : F[i] = More(F[i - 1], i) BY <1>1, <1>7
<1>10. \A i \in 0..Len(parts) : F[i] \in Text
  <2> DEFINE S == {i \in 0..Len(parts) : F[i] \in Text}
  <2>1. 0 \in S BY <1>1, <1>9
  <2>2. ASSUME NEW i \in 1..Len(parts), i - 1 \in S PROVE i \in S
    BY <1>1, <1>2, <1>9, <2>2
  <2>3. \A i \in 0..Len(parts) : i \in S
    <3> HIDE DEF S
    <3> QED BY <1>1, <2>1, <2>2, UpTo
  <2> QED BY <2>3
<1>11. F \in [0..Len(parts) -> Text]
  <2>1. F = [i \in 0..Len(parts) |-> F[i]] BY <1>7
  <2> QED BY <1>10, <2>1
<1> QED BY <1>8, <1>9, <1>11 DEF Joins, More

\* What has been read when the elements `done` are behind.
Holds(st, done) ==
    \/ st = Between(done)
    \/ \E item \in Text, items \in Seq(Text) : st = Plainly(item, items) /\ done = Append(items, item)

\* The elements of a column: in quotes, or plain if they may be.
Written(parts, items) ==
    /\ parts \in Seq(Text) /\ items \in Seq(Text) /\ Len(parts) = Len(items)
    /\ \A i \in 1..Len(items) : \/ parts[i] = Quoted(items[i])
                                \/ Plain(items[i]) /\ parts[i] = items[i]

LEMMA ScanPart ==
    ASSUME NEW done \in Seq(Text), NEW s \in Text, NEW part \in Text,
           part = Quoted(s) \/ (Plain(s) /\ part = s)
    PROVE  Holds(Scan(part, Between(done)), Append(done, s))
<1>1. CASE part = Quoted(s) BY <1>1, ScanQuoted DEF Holds
<1>2. CASE Plain(s) /\ part = s
  <2>1. Scan(part, Between(done)) = Plainly(s, done) BY <1>2, ScanPlain
  <2> QED BY <2>1 DEF Holds
<1> QED BY <1>1, <1>2

LEMMA ScanComma ==
    ASSUME NEW done \in Seq(Text), NEW st, Holds(st, done)
    PROVE  Scan(<<",">>, st) = Between(done) /\ st \in State
<1>1. CASE st = Between(done)
  <2>1. st \in State BY <1>1, Texts, StatesTyped
  <2>2. Scan(<<",">>, st) = Read(st, ",") BY <2>1, Signs, ScanLetter
  <2> QED BY <1>1, <2>1, <2>2 DEF Read, Between
<1>2. ASSUME NEW item \in Text, NEW items \in Seq(Text),
             st = Plainly(item, items), done = Append(items, item)
      PROVE  Scan(<<",">>, st) = Between(done) /\ st \in State
  <2>1. st \in State BY <1>2, StatesTyped
  <2>2. Scan(<<",">>, st) = Read(st, ",") BY <2>1, Signs, ScanLetter
  <2>3. Read(Plainly(item, items), ",") = Between(Append(items, item)) BY Signs DEF Read, Plainly
  <2> QED BY <1>2, <2>1, <2>2, <2>3
<1> QED BY <1>1, <1>2 DEF Holds

LEMMA ScanParts ==
    ASSUME NEW parts, NEW items, Written(parts, items), NEW B, Joins(B, parts)
    PROVE  Holds(Scan(B[Len(parts)], Between(<<>>)), items)
<1>1. /\ parts \in Seq(Text) /\ items \in Seq(Text) /\ Len(parts) = Len(items) /\ Len(items) \in Nat
      /\ \A i \in 1..Len(items) : parts[i] \in Text /\ items[i] \in Text
  BY DEF Written
<1>2. <<>> \in Seq(Text) /\ Between(<<>>) \in State BY Texts, Lists, StatesTyped
<1> DEFINE S == {i \in 0..Len(items) : Holds(Scan(B[i], Between(<<>>)), SubSeq(items, 1, i))}
<1>3. 0 \in S
  <2>1. B[0] = <<>> BY DEF Joins
  <2>2. Scan(B[0], Between(<<>>)) = Between(<<>>) BY <1>2, <2>1, ScanNothing
  <2>3. SubSeq(items, 1, 0) = <<>> BY <1>1, Prefixes
  <2>4. Holds(Scan(B[0], Between(<<>>)), <<>>) BY <2>2 DEF Holds
  <2>5. Holds(Scan(B[0], Between(<<>>)), SubSeq(items, 1, 0)) BY <2>3, <2>4
  <2> QED BY <1>1, <2>5
<1>4. ASSUME NEW i \in 1..Len(items), i - 1 \in S PROVE i \in S
  <2>1. PICK done \in Seq(Text) : done = SubSeq(items, 1, i - 1) BY <1>1, Prefixes
  <2>2. PICK s \in Text : s = items[i] BY <1>1
  <2>3. PICK part \in Text : part = parts[i] BY <1>1
  <2>4. Append(done, s) = SubSeq(items, 1, i) BY <1>1, <2>1, <2>2, Prefixes
  <2>5. PICK b \in Text : b = B[i - 1]
    <3>1. i - 1 \in 0..Len(parts) BY <1>1
    <3>2. B \in [0..Len(parts) -> Text] BY DEF Joins
    <3>3. B[i - 1] \in Text BY <3>1, <3>2
    <3> QED BY <3>3
  <2>6. Holds(Scan(b, Between(<<>>)), done) BY <1>4, <2>1, <2>5
  <2>7. Holds(Scan(part, Between(done)), Append(done, s))
    <3>1. part = Quoted(s) \/ (Plain(s) /\ part = s) BY <2>2, <2>3 DEF Written
    <3> QED BY <2>1, <2>2, <2>3, <3>1, ScanPart
  <2>8. CASE i = 1
    <3>1. B[i] = b \o <<>> \o part BY <1>1, <2>3, <2>5, <2>8 DEF Joins
    <3>5. i - 1 = 0 BY <2>8
    <3>2. b = <<>> BY <2>5, <3>5 DEF Joins
    <3>3. B[i] = part BY <2>3, <3>1, <3>2, Lists DEF Text
    <3>4. done = <<>> BY <1>1, <2>1, <2>8, Prefixes
    <3> QED BY <1>1, <2>4, <2>7, <3>3, <3>4
  <2>9. CASE i # 1
    <3>1. PICK c \in Text : c = <<",">> BY Signs, Lists DEF Text
    <3>2. B[i] = b \o c \o part BY <1>1, <2>3, <2>5, <2>9, <3>1 DEF Joins
    <3>3. b \o c \in Text BY <2>5, <3>1, Texts
    <3>4. Scan(B[i], Between(<<>>)) = Scan(part, Scan(b \o c, Between(<<>>)))
      BY <1>2, <2>3, <3>2, <3>3, ScanBoth
    <3>5. Scan(b \o c, Between(<<>>)) = Scan(c, Scan(b, Between(<<>>)))
      BY <1>2, <2>5, <3>1, ScanBoth
    <3>6. Scan(c, Scan(b, Between(<<>>))) = Between(done) BY <2>1, <2>6, <3>1, ScanComma
    <3>7. Holds(Scan(B[i], Between(<<>>)), Append(done, s)) BY <2>7, <3>4, <3>5, <3>6
    <3> QED BY <2>4, <3>7
  <2> QED BY <2>8, <2>9
<1>5. \A i \in 0..Len(items) : i \in S
  <2> HIDE DEF S
  <2> QED BY <1>1, <1>3, <1>4, UpTo
<1>6. Holds(Scan(B[Len(items)], Between(<<>>)), SubSeq(items, 1, Len(items))) BY <1>1, <1>5
<1> QED BY <1>1, <1>6, Prefixes

\* Reading gives back what was written, in quotes or not.
LEMMA ReadsWritten ==
    ASSUME NEW parts, NEW items, Written(parts, items)
    PROVE  Parsed(Braced(parts)) = items
<1>1. parts \in Seq(Text) BY DEF Written
<1>2. PICK B : Joins(B, parts) /\ Braced(parts) = <<"{">> \o B[Len(parts)] \o <<"}">>
  BY <1>1, BracedIs
<1>3. PICK b \in Text : b = B[Len(parts)]
  <2>1. Len(parts) \in 0..Len(parts) BY <1>1
  <2>2. B \in [0..Len(parts) -> Text] BY <1>2 DEF Joins
  <2>3. B[Len(parts)] \in Text BY <2>1, <2>2
  <2> QED BY <2>3
<1>4. PICK text : text = Braced(parts) OBVIOUS
<1>5. text = <<"{">> \o b \o <<"}">> BY <1>2, <1>3, <1>4
<1>6. SubSeq(text, 2, Len(text) - 1) = b
  <2>1. "{" \in Chars /\ "}" \in Chars BY DEF Chars
  <2>2. b \in Seq(Chars) BY <1>3 DEF Text
  <2>3. PICK x, y : x = "{" /\ y = "}" OBVIOUS
  <2>6. PICK C : C = Chars OBVIOUS
  <2>4. b \in Seq(C) /\ x \in C /\ y \in C BY <2>1, <2>2, <2>3, <2>6
  <2>5. text = <<x>> \o b \o <<y>> BY <1>5, <2>3
  <2> QED BY <2>4, <2>5, InBraces
<1>7. PICK st : st = Scan(b, Between(<<>>)) OBVIOUS
<1>8. Holds(st, items) BY <1>2, <1>3, <1>7, ScanParts
<1>9. Parsed(text) = IF st.at = "between" THEN st.items ELSE Append(st.items, st.item)
  BY <1>6, <1>7 DEF Parsed
<1>10. (IF st.at = "between" THEN st.items ELSE Append(st.items, st.item)) = items
  BY <1>8 DEF Holds, Between, Plainly
<1> QED BY <1>4, <1>9, <1>10

LEMMA LiteralRead == ASSUME NEW items \in Seq(Text) PROVE Parsed(Literal(items)) = items
<1>1. PICK parts : parts = [i \in 1..Len(items) |-> Quoted(items[i])] OBVIOUS
<1>2. Len(items) \in Nat /\ \A i \in 1..Len(items) : Quoted(items[i]) \in Text BY EscapedTyped
<1>3. parts \in Seq(Text) /\ Len(parts) = Len(items) BY <1>1, <1>2
<1>4. Written(parts, items) BY <1>1, <1>3 DEF Written
<1> QED BY <1>1, <1>4, ReadsWritten DEF Literal

LEMMA PrintedRead == ASSUME NEW items \in Seq(Text) PROVE Parsed(Printed(items)) = items
<1>1. PICK parts : parts = [i \in 1..Len(items) |->
                               IF Plain(items[i]) THEN items[i] ELSE Quoted(items[i])]
  OBVIOUS
<1>2. Len(items) \in Nat /\ \A i \in 1..Len(items) : items[i] \in Text /\ Quoted(items[i]) \in Text
  BY EscapedTyped
<1>3. parts \in Seq(Text) /\ Len(parts) = Len(items) BY <1>1, <1>2
<1>4. Written(parts, items) BY <1>1, <1>3 DEF Written
<1> QED BY <1>1, <1>4, ReadsWritten DEF Printed

-----------------------------------------------------------------------------
(* The tokens of an order *)

LEMMA OrderTyped ==
    ASSUME NEW lines \in Orders0
    PROVE  lines \in Seq(Line) /\ Len(lines) \in Nat /\ \A i \in 1..Len(lines) : lines[i] \in Line
<1>1. PICK n \in 0..MaxLines : lines \in [1..n -> Line] BY DEF Orders0
<1>2. n \in Nat BY <1>1, RowItemsAssumption
<1>3. lines \in Seq(Line) BY <1>1, <1>2
<1> QED BY <1>3

LEMMA SkuTyped ==
    ASSUME NEW line \in Line
    PROVE  line.sku \in Seq(Chars) /\ line.qty \in {1, 2}
<1>1. line.sku \in SkuNames \cup {<<>>} /\ line.qty \in 1..2 BY DEF Line
<1>2. CASE line.sku \in SkuNames
  <2>1. PICK n \in 1..SkuLength : line.sku \in [1..n -> Letters] BY <1>2 DEF SkuNames
  <2>2. n \in Nat BY <2>1, RowItemsAssumption
  <2>3. \A i \in 1..n : line.sku[i] \in Chars BY <2>1 DEF Chars
  <2>4. line.sku \in [1..n -> Chars] BY <2>1, <2>3
  <2>5. line.sku \in Seq(Chars) BY <2>2, <2>4
  <2> QED BY <1>1, <2>5
<1>3. CASE line.sku = <<>> BY <1>1, <1>3
<1> QED BY <1>1, <1>2, <1>3

\* The quantity read from a token is the line's, whatever the SKU's letters.
LEMMA TokenRead ==
    ASSUME NEW line \in Line, line.sku # <<>>
    PROVE  Token(line) \in Text /\ Token(line) # <<>> /\ QtyOf(Token(line)) = line.qty
<1>1. PICK s \in Seq(Chars) : s = line.sku BY SkuTyped
<1>2. PICK d : d = Digit(line.qty) OBVIOUS
<1>3. PICK x, y : x = "(" /\ y = ")" OBVIOUS
<1>4. x \in Chars /\ d \in Chars /\ y \in Chars /\ d # x /\ y # x BY <1>2, <1>3 DEF Digit, Chars
<1>5. PICK t : t = s \o <<x, d, y>> OBVIOUS
<1>6. Token(line) = t BY <1>1, <1>2, <1>3, <1>5 DEF Token
<1>7. /\ Len(s) \in Nat /\ t \in Seq(Chars) /\ Len(t) = Len(s) + 3
      /\ t[Len(s) + 1] = x /\ t[Len(s) + 2] = d /\ t[Len(s) + 3] = y
      /\ SubSeq(t, Len(s) + 2, Len(s) + 2) = <<d>>
  <2>1. Len(s) \in Nat /\ <<x, d, y>> \in Seq(Chars) /\ Len(<<x, d, y>>) = 3 BY <1>1, <1>4
  <2>2. t \in Seq(Chars) /\ Len(t) = Len(s) + 3 BY <1>1, <1>5, <2>1
  <2>3. t[Len(s) + 1] = x BY <1>1, <1>5, <2>1
  <2>4. t[Len(s) + 2] = d BY <1>1, <1>5, <2>1
  <2>5. t[Len(s) + 3] = y BY <1>1, <1>5, <2>1
  <2>6. PICK u : u = SubSeq(t, Len(s) + 2, Len(s) + 2) OBVIOUS
  <2>7. u \in Seq(Chars) /\ Len(u) = 1 /\ u[1] = d BY <2>1, <2>2, <2>4, <2>6
  <2>8. u = <<d>> BY <2>7
  <2> QED BY <2>1, <2>2, <2>3, <2>4, <2>5, <2>6, <2>8
<1>8. Len(s) > 0 BY <1>1, <1>7
<1>9. t # <<>> BY <1>7
<1>10. LastIndex(t, "(") = Len(s) + 1
  <2> DEFINE at == {i \in 1..Len(t) : t[i] = "("}
  <2>1. Len(s) + 1 \in at BY <1>3, <1>7
  <2>2. \A j \in at : j \in Nat /\ j <= Len(s) + 1
    <3> SUFFICES ASSUME NEW j \in at PROVE j \in Nat /\ j <= Len(s) + 1
      OBVIOUS
    <3>1. j \in 1..(Len(s) + 3) /\ t[j] = x BY <1>3, <1>7
    <3>2. j # Len(s) + 2 /\ j # Len(s) + 3 BY <1>4, <1>7, <3>1
    <3> QED BY <1>7, <3>1, <3>2
  <2>3. LastIndex(t, "(") = IF at = {} THEN 0 ELSE CHOOSE i \in at : \A j \in at : j <= i BY DEF LastIndex
  <2> HIDE DEF at
  <2>4. \A i \in at : (\A j \in at : j <= i) => i = Len(s) + 1 BY <1>7, <2>1, <2>2
  <2>5. (CHOOSE i \in at : \A j \in at : j <= i) = Len(s) + 1 BY <2>1, <2>2, <2>4
  <2> QED BY <2>1, <2>3, <2>5
<1>11. QtyOf(t) = QtyAfter(t, Len(s) + 1) BY <1>3, <1>7, <1>9, <1>10 DEF QtyOf
<1>12. Len(s) + 1 > 1 /\ Len(s) + 1 < Len(t) /\ (Len(s) + 1) + 1 = Len(s) + 2 /\ Len(t) - 1 = Len(s) + 2
  BY <1>7, <1>8
<1>13. QtyAfter(t, Len(s) + 1) = IF <<d>> = <<"2">> THEN 2 ELSE 1 BY <1>7, <1>12 DEF QtyAfter
<1>14. line.qty \in {1, 2} BY SkuTyped
<1>15. (IF <<d>> = <<"2">> THEN 2 ELSE 1) = line.qty BY <1>2, <1>14 DEF Digit
<1> QED BY <1>6, <1>7, <1>9, <1>11, <1>13, <1>15 DEF Text

\* Line i has a SKU.
Named(lines, i) == lines[i].sku # <<>>

\* T[i] is the tokens of the first i lines.
Tokenises(T, lines) ==
    /\ T \in [0..Len(lines) -> Seq(Text)] /\ T[0] = <<>>
    /\ \A i \in 1..Len(lines) :
          T[i] = IF Named(lines, i) THEN Append(T[i - 1], Token(lines[i])) ELSE T[i - 1]

LEMMA TokensIs ==
    ASSUME NEW lines \in Orders0
    PROVE  \E T : Tokenises(T, lines) /\ TokensOf(lines) = T[Len(lines)]
<1> DEFINE More(b, i) == IF lines[i].sku = <<>> THEN b ELSE Append(b, Token(lines[i]))
           V == Seq(Text)
           step == [x \in (1..Len(lines)) \X V |-> More(x[2], x[1])]
           F == CHOOSE B : B = [i \in 0..Len(lines) |-> IF i = 0 THEN <<>> ELSE More(B[i - 1], i)]
<1>1. Len(lines) \in Nat /\ (\A i \in 1..Len(lines) : lines[i] \in Line) /\ <<>> \in V
  BY OrderTyped, Lists
<1>2. ASSUME NEW b \in V, NEW i \in 1..Len(lines) PROVE More(b, i) \in V
  <2>1. CASE lines[i].sku = <<>> BY <2>1
  <2>2. CASE lines[i].sku # <<>>
    <3>1. Token(lines[i]) \in Text BY <1>1, <2>2, TokenRead
    <3>2. Append(b, Token(lines[i])) \in Seq(Text) BY <3>1
    <3> QED BY <2>2, <3>2
  <2> QED BY <2>1, <2>2
<1> HIDE DEF V
<1>3. step \in [(1..Len(lines)) \X V -> V]
  <2> HIDE DEF More
  <2> QED BY <1>2
<1>4. PICK g \in [0..Len(lines) -> V] : Solves(g, <<>>, step, Len(lines))
  <2>1. PICK n \in Nat : n = Len(lines) BY <1>1
  <2>2. step \in [(1..n) \X V -> V] BY <1>3, <2>1
  <2> HIDE DEF step, F, More
  <2>3. \E g \in [0..n -> V] : Solves(g, <<>>, step, n) BY <1>1, <2>2, Recursion
  <2> QED BY <2>1, <2>3
<1> HIDE DEF More
<1>5. g[0] = <<>> /\ \A i \in 1..Len(lines) : g[i] = More(g[i - 1], i)
  <2>1. ASSUME NEW i \in 1..Len(lines) PROVE g[i] = More(g[i - 1], i)
    <3>1. g[i - 1] \in V BY <1>1
    <3>2. step[<<i, g[i - 1]>>] = More(g[i - 1], i) BY <3>1
    <3> HIDE DEF step
    <3> QED BY <1>4, <3>2 DEF Solves
  <2> QED BY <1>4, <2>1 DEF Solves
<1>6. g = [i \in 0..Len(lines) |-> IF i = 0 THEN <<>> ELSE More(g[i - 1], i)] BY <1>1, <1>5
<1>7. F = [i \in 0..Len(lines) |-> IF i = 0 THEN <<>> ELSE More(F[i - 1], i)] BY <1>6
<1>8. TokensOf(lines) = F[Len(lines)] BY DEF TokensOf, More
<1> HIDE DEF F, step
<1>9. F[0] = <<>> /\ \A i \in 1..Len(lines) : F[i] = More(F[i - 1], i) BY <1>1, <1>7
<1>10. \A i \in 0..Len(lines) : F[i] \in V
  <2> DEFINE S == {i \in 0..Len(lines) : F[i] \in V}
  <2>1. 0 \in S BY <1>1, <1>9
  <2>2. ASSUME NEW i \in 1..Len(lines), i - 1 \in S PROVE i \in S
    BY <1>1, <1>2, <1>9, <2>2
  <2>3. \A i \in 0..Len(lines) : i \in S
    <3> HIDE DEF S
    <3> QED BY <1>1, <2>1, <2>2, UpTo
  <2> QED BY <2>3
<1>11. F \in [0..Len(lines) -> V]
  <2>1. F = [i \in 0..Len(lines) |-> F[i]] BY <1>7
  <2> QED BY <1>10, <2>1
<1>12. \A i \in 1..Len(lines) :
          F[i] = IF Named(lines, i) THEN Append(F[i - 1], Token(lines[i])) ELSE F[i - 1]
  BY <1>9 DEF More, Named
<1>13. Tokenises(F, lines) BY <1>9, <1>11, <1>12 DEF Tokenises, V
<1> QED BY <1>8, <1>13

\* What ts says of the lines up to i: a token for each line that has a SKU, and no other.
Tells(ts, lines, i) ==
    /\ ts \in Seq(Text)
    /\ \A k \in 1..Len(ts) : \E l \in 1..i : Named(lines, l) /\ ts[k] = Token(lines[l])
    /\ \A l \in 1..i : Named(lines, l) => \E k \in 1..Len(ts) : ts[k] = Token(lines[l])
    /\ Len(ts) > 1 <=> \E l, m \in 1..i : l # m /\ Named(lines, l) /\ Named(lines, m)

LEMMA OneMore ==
    ASSUME NEW lines, NEW i \in Nat, NEW ts, Tells(ts, lines, i), Named(lines, i + 1),
           Token(lines[i + 1]) \in Text
    PROVE  Tells(Append(ts, Token(lines[i + 1])), lines, i + 1)
<1>1. PICK us, c : c \in Text /\ c = Token(lines[i + 1]) /\ us = Append(ts, c) OBVIOUS
<1>2. ts \in Seq(Text) BY DEF Tells
<1>3. /\ us \in Seq(Text) /\ Len(us) = Len(ts) + 1 /\ Len(ts) \in Nat /\ us[Len(ts) + 1] = c
      /\ \A k \in 1..Len(ts) : us[k] = ts[k]
  BY <1>1, <1>2
<1>4. \A k \in 1..Len(us) : \E l \in 1..(i + 1) : Named(lines, l) /\ us[k] = Token(lines[l])
  <2> SUFFICES ASSUME NEW k \in 1..Len(us)
               PROVE  \E l \in 1..(i + 1) : Named(lines, l) /\ us[k] = Token(lines[l])
    OBVIOUS
  <2>1. CASE k = Len(ts) + 1 BY <1>1, <1>3, <2>1
  <2>2. CASE k # Len(ts) + 1
    <3>1. k \in 1..Len(ts) BY <1>3, <2>2
    <3>2. PICK l \in 1..i : Named(lines, l) /\ ts[k] = Token(lines[l]) BY <3>1 DEF Tells
    <3> QED BY <1>3, <3>1, <3>2
  <2> QED BY <2>1, <2>2
<1>5. \A l \in 1..(i + 1) : Named(lines, l) => \E k \in 1..Len(us) : us[k] = Token(lines[l])
  <2> SUFFICES ASSUME NEW l \in 1..(i + 1), Named(lines, l)
               PROVE  \E k \in 1..Len(us) : us[k] = Token(lines[l])
    OBVIOUS
  <2>1. CASE l = i + 1
    <3>1. Len(us) \in 1..Len(us) /\ us[Len(us)] = Token(lines[l]) BY <1>1, <1>3, <2>1
    <3> QED BY <3>1
  <2>2. CASE l # i + 1
    <3>1. l \in 1..i BY <2>2
    <3>2. PICK k \in 1..Len(ts) : ts[k] = Token(lines[l]) BY <3>1 DEF Tells
    <3>3. k \in 1..Len(us) /\ us[k] = Token(lines[l]) BY <1>3, <3>2
    <3> QED BY <3>3
  <2> QED BY <2>1, <2>2
<1>6. Len(us) > 1 <=> \E l, m \in 1..(i + 1) : l # m /\ Named(lines, l) /\ Named(lines, m)
  <2>1. CASE Len(ts) > 0
    <3>1. 1 \in 1..Len(ts) BY <1>3, <2>1
    <3>2. PICK l \in 1..i : Named(lines, l) /\ ts[1] = Token(lines[l]) BY <3>1 DEF Tells
    <3>3. l \in 1..(i + 1) /\ i + 1 \in 1..(i + 1) /\ l # i + 1 BY <3>2
    <3>4. \E x, y \in 1..(i + 1) : x # y /\ Named(lines, x) /\ Named(lines, y) BY <3>2, <3>3
    <3>5. Len(us) > 1 BY <1>3, <2>1
    <3> QED BY <3>4, <3>5
  <2>2. CASE Len(ts) = 0
    <3>1. \A l \in 1..i : ~Named(lines, l)
      <4> SUFFICES ASSUME NEW l \in 1..i, Named(lines, l) PROVE FALSE
        OBVIOUS
      <4>1. PICK k \in 1..Len(ts) : ts[k] = Token(lines[l]) BY DEF Tells
      <4> QED BY <2>2, <4>1
    <3>2. ASSUME NEW l \in 1..(i + 1), NEW m \in 1..(i + 1), l # m,
                 Named(lines, l), Named(lines, m)
          PROVE  FALSE
      <4>1. l \in 1..i \/ m \in 1..i BY <3>2
      <4> QED BY <3>1, <3>2, <4>1
    <3>3. ~(Len(us) > 1) BY <1>3, <2>2
    <3> QED BY <3>2, <3>3
  <2> QED BY <1>3, <2>1, <2>2
<1>7. Tells(us, lines, i + 1) BY <1>3, <1>4, <1>5, <1>6 DEF Tells
<1> QED BY <1>1, <1>7

LEMMA NoMore ==
    ASSUME NEW lines, NEW i \in Nat, NEW ts, Tells(ts, lines, i), ~Named(lines, i + 1)
    PROVE  Tells(ts, lines, i + 1)
<1>1. \A l \in 1..(i + 1) : Named(lines, l) => l \in 1..i OBVIOUS
<1>2. \A l \in 1..i : l \in 1..(i + 1) OBVIOUS
<1>3. ts \in Seq(Text) BY DEF Tells
<1>4. \A k \in 1..Len(ts) : \E l \in 1..(i + 1) : Named(lines, l) /\ ts[k] = Token(lines[l])
  BY <1>2 DEF Tells
<1>5. \A l \in 1..(i + 1) : Named(lines, l) => \E k \in 1..Len(ts) : ts[k] = Token(lines[l])
  BY <1>1 DEF Tells
<1>6. Len(ts) > 1 <=> \E l, m \in 1..(i + 1) : l # m /\ Named(lines, l) /\ Named(lines, m)
  BY <1>1, <1>2 DEF Tells
<1> QED BY <1>3, <1>4, <1>5, <1>6 DEF Tells

LEMMA TokensTell ==
    ASSUME NEW lines \in Orders0
    PROVE  Tells(TokensOf(lines), lines, Len(lines))
<1>1. PICK T : Tokenises(T, lines) /\ TokensOf(lines) = T[Len(lines)] BY TokensIs
<1>2. Len(lines) \in Nat /\ \A i \in 1..Len(lines) : lines[i] \in Line BY OrderTyped
<1> DEFINE S == {i \in 0..Len(lines) : Tells(T[i], lines, i)}
<1>3. 0 \in S
  <2>1. T[0] = <<>> BY <1>1 DEF Tokenises
  <2>2. T[0] \in Seq(Text) /\ Len(T[0]) = 0 BY <2>1, Lists
  <2>3. Tells(T[0], lines, 0) BY <2>2 DEF Tells
  <2> QED BY <1>2, <2>3
<1>4. ASSUME NEW i \in 1..Len(lines), i - 1 \in S PROVE i \in S
  <2>1. PICK j \in Nat : j = i - 1 BY <1>2
  <2>2. i = j + 1 BY <1>2, <2>1
  <2>3. Tells(T[j], lines, j) BY <1>4, <2>1
  <2>4. CASE Named(lines, i)
    <3>1. T[i] = Append(T[j], Token(lines[j + 1])) BY <1>1, <2>1, <2>2, <2>4 DEF Tokenises
    <3>2. Token(lines[j + 1]) \in Text BY <1>2, <2>2, <2>4, TokenRead DEF Named
    <3>3. PICK ts : ts = T[j] OBVIOUS
    <3>4. Tells(Append(ts, Token(lines[j + 1])), lines, j + 1) BY <2>2, <2>3, <2>4, <3>2, <3>3, OneMore
    <3>5. Tells(T[i], lines, i) BY <2>2, <3>1, <3>3, <3>4
    <3> QED BY <1>2, <3>5
  <2>5. CASE ~Named(lines, i)
    <3>1. PICK ts : ts = T[j] OBVIOUS
    <3>2. T[i] = ts BY <1>1, <2>1, <2>5, <3>1 DEF Tokenises
    <3>3. Tells(ts, lines, j + 1) BY <2>2, <2>3, <2>5, <3>1, NoMore
    <3>4. Tells(T[i], lines, i) BY <2>2, <3>2, <3>3
    <3> QED BY <1>2, <3>4
  <2> QED BY <2>4, <2>5
<1>5. \A i \in 0..Len(lines) : i \in S
  <2> HIDE DEF S
  <2> QED BY <1>2, <1>3, <1>4, UpTo
<1>6. Tells(T[Len(lines)], lines, Len(lines)) BY <1>2, <1>5
<1> QED BY <1>1, <1>6

\* multi_ban sees from the tokens what it would see from the lines.
LEMMA MultiSeen ==
    ASSUME NEW lines \in Orders0
    PROVE  LET named == {i \in 1..Len(lines) : lines[i].sku # <<>>}
           IN IsMulti(TokensOf(lines))
                 <=> (\E i, j \in named : i # j) \/ \E i \in named : lines[i].qty > 1
<1> DEFINE named == {i \in 1..Len(lines) : lines[i].sku # <<>>}
<1>1. PICK ts : ts = TokensOf(lines) OBVIOUS
<1>2. Tells(ts, lines, Len(lines)) BY <1>1, TokensTell
<1>3. ts \in Seq(Text) /\ Len(ts) \in Nat BY <1>2 DEF Tells
<1>4. \A i \in 1..Len(lines) : Named(lines, i)
         => Token(lines[i]) # <<>> /\ QtyOf(Token(lines[i])) = lines[i].qty
  BY OrderTyped, TokenRead DEF Named
<1>5. \A k \in 1..Len(ts) : ts[k] # <<>> BY <1>2, <1>4 DEF Tells
<1>6. {k \in 1..Len(ts) : ts[k] # <<>>} = 1..Len(ts) BY <1>5
<1>7. IsMulti(ts) <=> \/ \E k, m \in 1..Len(ts) : k # m
                      \/ \E k \in 1..Len(ts) : QtyOf(ts[k]) > 1
  BY <1>6 DEF IsMulti
<1>8. (\E k, m \in 1..Len(ts) : k # m) <=> Len(ts) > 1
  <2>1. Len(ts) > 1 => 1 \in 1..Len(ts) /\ 2 \in 1..Len(ts) /\ 1 # 2 BY <1>3
  <2>2. ASSUME NEW k \in 1..Len(ts), NEW m \in 1..Len(ts), k # m PROVE Len(ts) > 1 BY <1>3, <2>2
  <2> QED BY <2>1, <2>2
<1>9. Len(ts) > 1 <=> \E i, j \in named : i # j
  <2>1. Len(ts) > 1 <=> \E l, m \in 1..Len(lines) : l # m /\ Named(lines, l) /\ Named(lines, m)
    BY <1>2 DEF Tells
  <2> QED BY <2>1 DEF Named
<1>10. (\E k \in 1..Len(ts) : QtyOf(ts[k]) > 1) <=> \E i \in named : lines[i].qty > 1
  <2>1. ASSUME NEW k \in 1..Len(ts), QtyOf(ts[k]) > 1 PROVE \E i \in named : lines[i].qty > 1
    <3>1. PICK l \in 1..Len(lines) : Named(lines, l) /\ ts[k] = Token(lines[l]) BY <1>2 DEF Tells
    <3>2. l \in named BY <3>1 DEF Named
    <3> QED BY <1>4, <2>1, <3>1, <3>2
  <2>2. ASSUME NEW i \in named, lines[i].qty > 1 PROVE \E k \in 1..Len(ts) : QtyOf(ts[k]) > 1
    <3>1. i \in 1..Len(lines) /\ Named(lines, i) BY DEF Named
    <3>2. PICK k \in 1..Len(ts) : ts[k] = Token(lines[i]) BY <1>2, <3>1 DEF Tells
    <3> QED BY <1>4, <2>2, <3>1, <3>2
  <2> QED BY <2>1, <2>2
<1> QED BY <1>1, <1>7, <1>8, <1>9, <1>10

-----------------------------------------------------------------------------
(* The row *)

\* The column and what is read from it are the order's tokens, as printed and as read.
ItemsInv ==
    /\ order \in Orders0
    /\ column = <<>> \/ column = Printed(TokensOf(order))
    /\ tokens = <<>> \/ tokens = TokensOf(order)

LEMMA ItemsStart == ItemsInit => ItemsInv
BY DEF ItemsInit, ItemsInv

LEMMA ItemsStep == ItemsInv /\ [ItemsNext]_ItemsVars => ItemsInv'
<1> SUFFICES ASSUME ItemsInv, [ItemsNext]_ItemsVars PROVE ItemsInv'
  OBVIOUS
<1>1. PICK ts \in Seq(Text) : ts = TokensOf(order) BY TokensTell DEF ItemsInv, Tells
<1>2. Parsed(Literal(ts)) = ts /\ Parsed(Printed(ts)) = ts BY LiteralRead, PrintedRead
<1>3. CASE WriteRow
  <2>1. column' = Printed(ts) /\ order' = order /\ tokens' = tokens BY <1>1, <1>2, <1>3 DEF WriteRow
  <2> QED BY <1>1, <2>1 DEF ItemsInv
<1>4. CASE ReadRow
  <2>1. column = Printed(ts) BY <1>1, <1>4 DEF ReadRow, ItemsInv
  <2>2. tokens' = ts /\ order' = order /\ column' = column BY <1>2, <1>4, <2>1 DEF ReadRow
  <2> QED BY <1>1, <2>2 DEF ItemsInv
<1>5. CASE UNCHANGED ItemsVars BY <1>5 DEF ItemsInv, ItemsVars
<1> QED BY <1>3, <1>4, <1>5 DEF ItemsNext

LEMMA ItemsSeen == ItemsInv => BanSeesOrder
<1> SUFFICES ASSUME ItemsInv, tokens # <<>> PROVE BanSeesOrder
  BY DEF BanSeesOrder
<1>1. tokens = TokensOf(order) /\ order \in Orders0 BY DEF ItemsInv
<1> QED BY <1>1, MultiSeen DEF BanSeesOrder

\* The theorem of BanSeesOrder: for SKUs of every alphabet and length, and any
\* number of lines, what a task reads from a row are the tokens the pull wrote,
\* and multi_ban decides from them as it would from the lines (pg_text_array.go,
\* util.go).
THEOREM BanSees == ItemsSpec => []BanSeesOrder
<1>1. ItemsInv /\ [ItemsNext]_ItemsVars => ItemsInv' BY ItemsStep
<1> QED BY ItemsStart, <1>1, ItemsSeen, PTL DEF ItemsSpec
==============================================================================
