----------------------------- MODULE SkuMapping -----------------------------
(***************************************************************************)
(* How pull_sku_pair builds a new SKU mapping                              *)
(* (integration/dsco_lingxing/task_pull_sku_pair.go): LingXing lists the   *)
(* pairs of each store in pages, by offset; an inconsistent list leaves    *)
(* the mapping as it is, else the lists of all stores replace it.  The     *)
(* jobs that report back to DSCO read the mapping backwards.  What an      *)
(* operator saves meanwhile is the subject of ControlPlane.                *)
(***************************************************************************)
EXTENDS Integers, Sequences, FiniteSets

CONSTANTS
    Stores,      \* LingXing stores in mapping.shop
    MSkus, Skus, \* DSCO's SKUs and LingXing's
    PairPage,    \* page size of the job
    MaxPairs,    \* pairs a store lists at most
    PairFaults

PairFaultKinds == {"fail",    \* a page cannot be read
                   "null",    \* a page is answered by a success without data
                   "shift"}   \* a list changes during the run
ASSUME PairAssumption ==
    /\ PairPage \in Nat \ {0} /\ MaxPairs \in Nat
    /\ "" \notin Skus /\ PairFaults \subseteq PairFaultKinds

VARIABLES listing, mapping, pairs
(* listing[s]: what LingXing lists for store s, in order; a pair of which  *)
(* a part is blank, or that is another store's, has the SKU "".            *)
(* mapping: mapping.sku as a set of pairs.                                 *)
(* pairs: the run: left, stores still to be listed; store, offset, page,   *)
(* where it is; full, was the page as long as asked for; forth, back, the  *)
(* pairs of this store by MSKU and by SKU; new, all pairs, each with its   *)
(* store; conflict; skewed, it was not shown all of the list.              *)

Pair  == MSkus \X Skus
ListedPairs(s) == {listing[s][i] : i \in 1..Len(listing[s])}
SkuListing == [Stores -> UNION {[1..n -> MSkus \X (Skus \cup {""})] : n \in 0..MaxPairs}]

PairsIdle == [pc |-> "idle", left |-> {}, store |-> {}, offset |-> 0, page |-> <<>>,
              full |-> FALSE, forth |-> {}, back |-> {}, new |-> {},
              conflict |-> FALSE, skewed |-> FALSE]

PairsInit == listing \in SkuListing /\ mapping = {} /\ pairs = PairsIdle

PairsType == [pc : {"idle", "store", "page", "item", "saved"},
              left : SUBSET Stores, store : SUBSET Stores, offset : Nat,
              page : Seq(MSkus \X (Skus \cup {""})), full : BOOLEAN,
              forth : SUBSET Pair, back : SUBSET (Skus \X MSkus),
              new : SUBSET (MSkus \X Skus \X Stores), conflict : BOOLEAN, skewed : BOOLEAN]
PairsTypeOK == pairs \in PairsType /\ mapping \in SUBSET Pair

-----------------------------------------------------------------------------
PairsStart ==
    /\ pairs.pc = "idle" /\ Stores # {}
    /\ pairs' = [PairsIdle EXCEPT !.pc = "store", !.left = Stores]
    /\ UNCHANGED <<listing, mapping>>

\* Mutant: the next store is listed from where the last one ended.
NextStoreOffsetKept ==
    /\ pairs.pc = "store" /\ pairs.left # {}
    /\ \E s \in pairs.left :
          pairs' = [pairs EXCEPT !.pc = "page", !.left = @ \ {s}, !.store = {s},
                                 !.forth = {}, !.back = {}]
    /\ UNCHANGED <<listing, mapping>>

\* The stores come in the order of a Go map: any.
NextStore ==
    /\ pairs.pc = "store" /\ pairs.left # {}
    /\ \E s \in pairs.left :
          pairs' = [pairs EXCEPT !.pc = "page", !.left = @ \ {s}, !.store = {s},
                                 !.offset = 0, !.forth = {}, !.back = {}]
    /\ UNCHANGED <<listing, mapping>>

PageOf(s) == LET rest == Len(listing[s]) - pairs.offset
             IN SubSeq(listing[s], pairs.offset + 1,
                       pairs.offset + (IF rest < PairPage THEN rest ELSE PairPage))

\* One page; an empty one ends the store, a failure ends the run.
PairPageRead ==
    /\ pairs.pc = "page"
    /\ \/ \E s \in pairs.store :
             pairs' = IF PageOf(s) = <<>> THEN [pairs EXCEPT !.pc = "store"]
                      ELSE [pairs EXCEPT !.pc = "item", !.page = PageOf(s),
                                         !.full = Len(PageOf(s)) = PairPage,
                                         !.offset = @ + Len(PageOf(s))]
       \/ "null" \in PairFaults /\ pairs' = [pairs EXCEPT !.pc = "store", !.skewed = TRUE]
       \/ "fail" \in PairFaults /\ pairs' = PairsIdle
    /\ UNCHANGED <<listing, mapping>>

\* Is key k in m with another value than v?
Clash(m, k, v) == \E p \in m : p[1] = k /\ p[2] # v

\* Mutant: two MSKUs of a SKU are no conflict.
TakePairOneWay(r, m, s) ==
    IF s = "" \/ Clash(r.forth, m, s) \/ Clash(r.new, m, s)
    THEN [r EXCEPT !.conflict = TRUE]
    ELSE [r EXCEPT !.forth = @ \cup {<<m, s>>}, !.new = @ \cup ({m} \X {s} \X r.store)]

\* One pair: a blank part, two SKUs of an MSKU or two MSKUs of a SKU within
\* the store, or two SKUs of an MSKU across the stores are conflicts.
TakePair(r, m, s) ==
    IF s = "" \/ Clash(r.forth, m, s) THEN [r EXCEPT !.conflict = TRUE]
    ELSE LET f == [r EXCEPT !.forth = @ \cup {<<m, s>>}]
         IN IF Clash(r.back, s, m) THEN [f EXCEPT !.conflict = TRUE]
            ELSE LET b == [f EXCEPT !.back = @ \cup {<<s, m>>}]
                 IN IF Clash(r.new, m, s) THEN [b EXCEPT !.conflict = TRUE]
                    ELSE [b EXCEPT !.new = @ \cup ({m} \X {s} \X r.store)]

\* A page that was not full is the store's last one.
AfterPage == IF pairs.full THEN "page" ELSE "store"

PairItem ==
    /\ pairs.pc = "item"
    /\ LET it == Head(pairs.page)
           r  == TakePair(pairs, it[1], it[2])
       IN pairs' = [r EXCEPT !.page = Tail(@),
                             !.pc = IF Len(pairs.page) > 1 THEN "item" ELSE AfterPage]
    /\ UNCHANGED <<listing, mapping>>

\* All stores are listed: the mapping is replaced, unless there is a conflict,
\* an operator changed it meanwhile, or it cannot be saved.
PairsSave ==
    /\ pairs.pc = "store" /\ pairs.left = {}
    /\ \/ /\ ~pairs.conflict
          /\ mapping' = {<<p[1], p[2]>> : p \in pairs.new}
          /\ pairs' = [pairs EXCEPT !.pc = "saved"]
       \/ /\ pairs.conflict \/ "fail" \in PairFaults
          /\ pairs' = PairsIdle /\ UNCHANGED mapping
    /\ UNCHANGED listing

\* Meanwhile a store's list changes: a pair goes, a pair comes.
Shift ==
    /\ "shift" \in PairFaults /\ pairs.pc = "page" /\ ~pairs.skewed
    /\ \E s \in Stores :
          /\ listing[s] # <<>>
          /\ \E it \in MSkus \X Skus :
                listing' = [listing EXCEPT ![s] = Append(Tail(@), it)]
    /\ pairs' = [pairs EXCEPT !.skewed = TRUE]
    /\ UNCHANGED mapping

PairsNext == PairsStart \/ NextStore \/ PairPageRead \/ PairItem \/ PairsSave \/ Shift

PairsVars == <<listing, mapping, pairs>>
PairsSpec == PairsInit /\ [][PairsNext]_PairsVars

-----------------------------------------------------------------------------
(* The mapping backwards: reverseMapStrict fails on a SKU of two MSKUs *)

ReverseWorks(m) == \A p, q \in m : p[2] = q[2] => p[1] = q[1]

-----------------------------------------------------------------------------
(* Properties *)

Apart == \A s, t \in Stores : s # t =>
             \A p \in ListedPairs(s), q \in ListedPairs(t) : p[2] # q[2]

\* The mapping that is saved is a map, and the pairs of one store can be read
\* backwards: the jobs that report to DSCO never stop on it unless two
\* stores share a LingXing SKU.  It holds whatever the pages showed.
SavedIsMap ==
    pairs.pc = "saved" =>
        /\ \A p, q \in mapping : p[1] = q[1] => p[2] = q[2]
        /\ \A p, q \in pairs.new : p[2] = q[2] /\ p[3] = q[3] => p[1] = q[1]

\* Every pair of every store is in the saved mapping, and no other, however
\* many pages a list takes and whether the last one is full, if no list
\* changed meanwhile; a mapping of stores that share no SKU can be read
\* backwards.
SavedIsListing ==
    pairs.pc = "saved" /\ ~pairs.skewed =>
        /\ mapping = UNION {ListedPairs(s) : s \in Stores}
        /\ Apart => ReverseWorks(mapping)
=============================================================================
