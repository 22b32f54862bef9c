----------------------------- MODULE StockProof -----------------------------
(***************************************************************************)
(* Proofs about stock synchronisation: the types, and that a row with      *)
(* status 1 has the quantity DSCO accepted, for every number of            *)
(* warehouses, SKUs, pages and batches and for any failures.               *)
(*                                                                         *)
(* PageInv is the memory of a page: while its batches go out, an item of   *)
(* a writing run is still to be sent, was accepted as it was listed, or    *)
(* the page is marked as bad.  Nothing else changes what DSCO accepted,    *)
(* since all runs hold one lock.                                           *)
(***************************************************************************)
EXTENDS StockSyncProps, TLAPS

\* How an item s of the page stands.
Unsent(k, r)   == k \in DOMAIN sync.out /\ sync.out[k] = r.num
Accepted(k, r) == k \notin DOMAIN sync.out /\ acc[k] = r.num

PageInv ==
    /\ \A v, w \in sync.wh : v = w
    /\ sync.pc \notin {"look", "send"} => sync.made = Empty
    /\ sync.write /\ ~sync.bad =>
          \A w \in sync.wh, s \in DOMAIN sync.made :
              LET k == <<w, s>> IN Unsent(k, sync.made[s]) \/ Accepted(k, sync.made[s])

-----------------------------------------------------------------------------
(* Partial functions *)

LEMMA PartialIs ==
    ASSUME NEW S, NEW T, NEW f
    PROVE  f \in Partial(S, T) <=> DOMAIN f \subseteq S /\ f \in [DOMAIN f -> T]
<1>1. f \in Partial(S, T) => DOMAIN f \subseteq S /\ f \in [DOMAIN f -> T]
  BY DEF Partial
<1>2. ASSUME DOMAIN f \subseteq S, f \in [DOMAIN f -> T]
      PROVE  f \in Partial(S, T)
  <2>1. DOMAIN f \in SUBSET S
    BY <1>2
  <2> QED BY <2>1, <1>2 DEF Partial
<1> QED BY <1>1, <1>2

LEMMA EmptyIs ==
    /\ DOMAIN Empty = {}
    /\ \A S, T : Empty \in Partial(S, T)
<1>1. DOMAIN Empty = {} /\ \A T : Empty \in [DOMAIN Empty -> T]
  BY DEF Empty
<1> QED BY <1>1, PartialIs

LEMMA OverIs ==
    ASSUME NEW f, NEW g
    PROVE  /\ DOMAIN Over(g, f) = DOMAIN f \cup DOMAIN g
           /\ \A x \in DOMAIN g : Over(g, f)[x] = g[x]
           /\ \A x \in DOMAIN f \ DOMAIN g : Over(g, f)[x] = f[x]
BY DEF Over

LEMMA OverTyped ==
    ASSUME NEW S, NEW T, NEW f \in Partial(S, T), NEW g \in Partial(S, T)
    PROVE  Over(g, f) \in Partial(S, T)
<1>1. /\ DOMAIN f \subseteq S /\ f \in [DOMAIN f -> T]
      /\ DOMAIN g \subseteq S /\ g \in [DOMAIN g -> T]
  BY PartialIs
<1>2. DOMAIN Over(g, f) \subseteq S
  BY <1>1, OverIs
<1>3. Over(g, f) \in [DOMAIN f \cup DOMAIN g -> T]
  BY <1>1 DEF Over
<1>4. Over(g, f) \in [DOMAIN Over(g, f) -> T]
  BY <1>3, OverIs
<1> QED BY <1>2, <1>4, PartialIs

LEMMA PutTyped ==
    ASSUME NEW S, NEW T, NEW f \in Partial(S, T), NEW x \in S, NEW v \in T
    PROVE  Put(f, x, v) \in Partial(S, T)
<1>1. [y \in {x} |-> v] \in Partial(S, T)
  BY PartialIs
<1> QED BY <1>1, OverTyped DEF Put

LEMMA WithoutIs ==
    ASSUME NEW f, NEW B
    PROVE  /\ DOMAIN Without(f, B) = DOMAIN f \ B
           /\ \A x \in DOMAIN f \ B : Without(f, B)[x] = f[x]
BY DEF Without, Restrict

LEMMA RestrictTyped ==
    ASSUME NEW S, NEW T, NEW f \in Partial(S, T), NEW B, B \subseteq DOMAIN f
    PROVE  Restrict(f, B) \in Partial(S, T)
<1>1. DOMAIN f \subseteq S /\ f \in [DOMAIN f -> T]
  BY PartialIs
<1>2. Restrict(f, B) \in [B -> T] /\ B \subseteq S
  BY <1>1 DEF Restrict
<1>3. DOMAIN Restrict(f, B) = B
  BY DEF Restrict
<1> QED BY <1>2, <1>3, PartialIs

LEMMA WithoutTyped ==
    ASSUME NEW S, NEW T, NEW f \in Partial(S, T), NEW B
    PROVE  Without(f, B) \in Partial(S, T)
BY RestrictTyped DEF Without

-----------------------------------------------------------------------------
(* Types *)

LEMMA IdleTyped == SyncIdle \in SyncType
<1>1. Missing \in Entry
  BY StockAssumption DEF Missing, Entry, Qty, StockAssumption
<1> QED BY <1>1, EmptyIs DEF SyncIdle, SyncType

LEMMA InitTyped == Init => TypeOK
BY IdleTyped, EmptyIs, StockAssumption DEF Init, TypeOK, Qty, StockAssumption

\* What a run has, but for the functions it works on.
LEMMA SyncIs ==
    ASSUME TypeOK
    PROVE  /\ sync \in SyncType /\ sync.wh \subseteq Warehouses /\ sync.left \subseteq Skus
           /\ sync.page \in Partial(Skus, Qty) /\ sync.made \in Partial(Skus, Look)
           /\ sync.out \in Partial(Keys, Qty) /\ sync.cache \in [Skus -> Entry]
BY DEF TypeOK, SyncType

LEMMA SomeIs ==
    ASSUME NEW f, NEW n, NEW B \in Some(f, n)
    PROVE  B \subseteq DOMAIN f
BY DEF Some

\* A batch that DSCO takes.
LEMMA AcceptsTyped ==
    ASSUME TypeOK, NEW B, B \subseteq DOMAIN sync.out, Accepts(B)
    PROVE  acc' \in [Keys -> Qty]
<1>1. sync.out \in [DOMAIN sync.out -> Qty]
  BY SyncIs, PartialIs
<1> QED BY <1>1 DEF Accepts, TypeOK

LEMMA SendTyped ==
    ASSUME TypeOK, SyncSend
    PROVE  TypeOK'
<1>1. PICK B \in Some(sync.out, Size) :
         \/ /\ Accepts(B) /\ UNCHANGED events
            /\ sync' = [sync EXCEPT !.out = Without(@, B)]
         \/ /\ Event /\ (UNCHANGED acc \/ Accepts(B))
            /\ sync' = [sync EXCEPT !.out = Empty, !.bad = TRUE]
  BY DEF SyncSend
<1>2. acc' \in [Keys -> Qty]
  BY <1>1, SomeIs, AcceptsTyped DEF TypeOK
<1>3. sync' \in SyncType
  <2>1. Without(sync.out, B) \in Partial(Keys, Qty) /\ Empty \in Partial(Keys, Qty)
    BY SyncIs, WithoutTyped, EmptyIs
  <2> QED BY <1>1, <2>1, SyncIs DEF SyncType
<1>4. events' \in 0..Events
  BY <1>1, StockAssumption DEF Event, TypeOK, StockAssumption
<1> QED BY <1>2, <1>3, <1>4 DEF TypeOK, SyncSend, rows

LEMMA LookTyped ==
    ASSUME TypeOK, NEW s \in Skus, SyncLook(s)
    PROVE  TypeOK'
<1>1. PICK w \in sync.wh, e \in LookUps(s) :
         sync' = [sync EXCEPT
                !.cache[s] = e,
                !.page = Without(@, {s}),
                !.made = Put(@, s, [num |-> sync.page[s], dsco |-> e.q[w],
                                    st |-> IF e.st = "failed" THEN 2 ELSE 1]),
                !.out = IF sync.write THEN Put(@, <<w, s>>, sync.page[s]) ELSE @]
  BY DEF SyncLook
<1>2. sync.page[s] \in Qty
  BY SyncIs, PartialIs DEF SyncLook
<1>3. e \in Entry
  <2>1. [st |-> "read", q |-> [v \in Warehouses |-> dq[<<v, s>>]]] \in Entry
    BY DEF TypeOK, Entry, Keys
  <2>2. [Missing EXCEPT !.st = "failed"] \in Entry
    BY StockAssumption DEF Missing, Entry, Qty, StockAssumption
  <2>3. sync.cache[s] \in Entry
    BY SyncIs
  <2> QED BY <2>1, <2>2, <2>3 DEF LookUps
<1>4. w \in Warehouses /\ e.q[w] \in Qty
  BY <1>3, SyncIs DEF Entry
<1> DEFINE r == [num |-> sync.page[s], dsco |-> e.q[w],
                 st |-> IF e.st = "failed" THEN 2 ELSE 1]
<1>5. r \in Look
  BY <1>2, <1>4 DEF Look
<1> HIDE DEF r
<1>6. /\ Without(sync.page, {s}) \in Partial(Skus, Qty)
      /\ Put(sync.made, s, r) \in Partial(Skus, Look)
      /\ Put(sync.out, <<w, s>>, sync.page[s]) \in Partial(Keys, Qty)
      /\ [sync.cache EXCEPT ![s] = e] \in [Skus -> Entry]
  <2>1. <<w, s>> \in Keys
    BY <1>4 DEF Keys
  <2> QED BY <2>1, <1>2, <1>3, <1>5, SyncIs, WithoutTyped, PutTyped
<1>7. sync' = [sync EXCEPT
                !.cache = [sync.cache EXCEPT ![s] = e],
                !.page = Without(sync.page, {s}),
                !.made = Put(sync.made, s, r),
                !.out = IF sync.write THEN Put(sync.out, <<w, s>>, sync.page[s])
                        ELSE sync.out]
  BY <1>1, SyncIs DEF r, SyncType
<1>8. sync' \in SyncType
  BY <1>6, <1>7, SyncIs DEF SyncType
<1> QED BY <1>8 DEF TypeOK, SyncLook, partners, rows

LEMMA PageTyped ==
    ASSUME TypeOK, SyncPage
    PROVE  TypeOK'
<1>1. PICK w \in sync.wh : LET listed == [s \in sync.left |-> lxq[<<w, s>>]] IN
           \/ /\ sync.left # {}
              /\ \E B \in Some(listed, PageLength) :
                   sync' = [sync EXCEPT !.pc = "look", !.page = Restrict(listed, B),
                                        !.left = @ \ B, !.bad = FALSE]
              /\ UNCHANGED events
           \/ /\ sync.left = {} /\ UNCHANGED events
              /\ sync' = [sync EXCEPT !.pc = "next", !.wh = {}]
           \/ /\ sync.left # {} /\ Event
              /\ sync' = [sync EXCEPT !.pc = "next", !.wh = {}, !.left = {}]
  BY DEF SyncPage
<1> DEFINE listed == [s \in sync.left |-> lxq[<<w, s>>]]
<1>2. listed \in Partial(Skus, Qty) /\ DOMAIN listed = sync.left
  <2>1. listed \in [sync.left -> Qty]
    BY SyncIs DEF TypeOK, Keys
  <2> QED BY <2>1, SyncIs, PartialIs
<1>3. \A B \in Some(listed, PageLength) : Restrict(listed, B) \in Partial(Skus, Qty)
  <2> HIDE DEF listed
  <2> QED BY <1>2, SomeIs, RestrictTyped
<1> HIDE DEF listed
<1>4. \/ \E B \in Some(listed, PageLength) :
            sync' = [sync EXCEPT !.pc = "look", !.page = Restrict(listed, B),
                                 !.left = @ \ B, !.bad = FALSE]
      \/ sync' = [sync EXCEPT !.pc = "next", !.wh = {}]
      \/ sync' = [sync EXCEPT !.pc = "next", !.wh = {}, !.left = {}]
  BY <1>1 DEF listed
<1>5. sync' \in SyncType
  BY <1>3, <1>4, SyncIs DEF SyncType
<1>6. Event \/ UNCHANGED events
  BY <1>1
<1>7. events' \in 0..Events
  BY <1>6, StockAssumption DEF Event, TypeOK, StockAssumption
<1> QED BY <1>5, <1>7 DEF TypeOK, SyncPage, partners, rows

LEMMA RecordTyped ==
    ASSUME TypeOK, SyncRecord
    PROVE  TypeOK'
<1>1. PICK w \in sync.wh :
       LET made    == sync.made
           new     == {<<w, s>> : s \in DOMAIN made}
           differ1 == {k \in new : made[k[2]].num # made[k[2]].dsco}
       IN  \/ /\ latest' = Over([k \in new |-> [num |-> made[k[2]].num,
                                             st |-> Status(made[k[2]])]], latest)
              /\ differ' = Over([k \in differ1 |-> made[k[2]].num], differ)
              /\ UNCHANGED events
           \/ Event /\ UNCHANGED rows
  BY DEF SyncRecord
<1> DEFINE made    == sync.made
           new     == {<<w, s>> : s \in DOMAIN made}
           differ1 == {k \in new : made[k[2]].num # made[k[2]].dsco}
           rows1   == [k \in new |-> [num |-> made[k[2]].num, st |-> Status(made[k[2]])]]
           rows2   == [k \in differ1 |-> made[k[2]].num]
<1>2. new \subseteq Keys /\ \A k \in new : made[k[2]] \in Look
  BY SyncIs, PartialIs DEF Keys
<1>3. rows1 \in [new -> [num : Qty, st : {1, 2}]] /\ rows2 \in [differ1 -> Qty]
  BY <1>2 DEF Look, Status
<1>4. DOMAIN rows1 = new /\ DOMAIN rows2 = differ1 /\ differ1 \subseteq new
  OBVIOUS
<1>5. /\ rows1 \in Partial(Keys, [num : Qty, st : {1, 2}])
      /\ rows2 \in Partial(Keys, Qty)
  <2> HIDE DEF new, differ1, rows1, rows2
  <2> QED BY <1>2, <1>3, <1>4, PartialIs
<1>6. \/ latest' = Over(rows1, latest) /\ differ' = Over(rows2, differ) /\ UNCHANGED events
      \/ Event /\ UNCHANGED rows
  BY <1>1
<1> HIDE DEF made, new, differ1, rows1, rows2
<1>7. latest' \in Partial(Keys, [num : Qty, st : {1, 2}]) /\ differ' \in Partial(Keys, Qty)
  BY <1>5, <1>6, OverTyped DEF TypeOK, rows
<1>8. events' \in 0..Events
  BY <1>6, StockAssumption DEF Event, TypeOK, StockAssumption
<1>9. sync' \in SyncType
  BY SyncIs, EmptyIs DEF SyncRecord, SyncType
<1> QED BY <1>7, <1>8, <1>9 DEF TypeOK, SyncRecord, partners

LEMMA StartTyped ==
    ASSUME TypeOK, NEW write \in SyncModes, SyncStart(write)
    PROVE  TypeOK'
<1>1. PICK S \in (IF Stream THEN SUBSET Skus ELSE {{}}) :
         sync' = [SyncIdle EXCEPT
                    !.pc = "next", !.write = write, !.todo = Warehouses,
                    !.cache = [s \in Skus |->
                        IF s \in S THEN [st |-> "read", q |-> [w \in Warehouses |-> dq[<<w, s>>]]]
                        ELSE Missing]]
  BY DEF SyncStart
<1> DEFINE cache == [s \in Skus |->
                        IF s \in S THEN [st |-> "read", q |-> [w \in Warehouses |-> dq[<<w, s>>]]]
                        ELSE Missing]
<1>2. cache \in [Skus -> Entry]
  <2>1. ASSUME NEW s \in Skus
        PROVE  [st |-> "read", q |-> [w \in Warehouses |-> dq[<<w, s>>]]] \in Entry
    BY DEF TypeOK, Keys, Entry
  <2>2. Missing \in Entry
    BY StockAssumption DEF Missing, Entry, Qty, StockAssumption
  <2> QED BY <2>1, <2>2
<1>3. sync' = [SyncIdle EXCEPT !.pc = "next", !.write = write, !.todo = Warehouses,
                               !.cache = cache]
  BY <1>1
<1> HIDE DEF cache
<1>4. sync' \in SyncType
  BY <1>2, <1>3, IdleTyped, StockAssumption DEF SyncType, StockAssumption
<1> QED BY <1>4 DEF TypeOK, SyncStart, partners, rows

LEMMA OverrideTyped ==
    ASSUME TypeOK, NEW src \in {"daily", "items"}, NEW target \in Partial(Keys, Qty),
           Override(src, target)
    PROVE  TypeOK'
<1>1. sync' \in SyncType
  BY IdleTyped DEF Override, SyncType
<1>2. events' \in 0..Events
  BY StockAssumption DEF Override, Event, TypeOK, StockAssumption
<1> QED BY <1>1, <1>2 DEF TypeOK, Override, partners, rows

LEMMA DailyTyped ==
    ASSUME TypeOK, NEW d \in DiffOnly, DailyPulled(d)
    PROVE  TypeOK'
<1>1. latest \in [DOMAIN latest -> [num : Qty, st : {1, 2}]] /\ DOMAIN latest \subseteq Keys
  BY PartialIs DEF TypeOK
<1>2. [k \in DOMAIN latest |-> latest[k].num] \in Partial(Keys, Qty)
  <2> DEFINE f == [k \in DOMAIN latest |-> latest[k].num]
  <2>1. f \in [DOMAIN latest -> Qty] /\ DOMAIN f = DOMAIN latest
    BY <1>1
  <2> HIDE DEF f
  <2> QED BY <2>1, <1>1, PartialIs DEF f
<1>3. ListLatest(d) \in Partial(Keys, Qty)
  BY <1>2 DEF ListLatest, TypeOK
<1> QED BY <1>3, OverrideTyped DEF DailyPulled

LEMMA ItemsTyped ==
    ASSUME TypeOK, NEW k \in Keys, NEW q \in -1..MaxQty, ManualItems(k, q)
    PROVE  TypeOK'
<1>1. q \in Qty
  BY StockAssumption DEF ManualItems, Qty, StockAssumption
<1>2. Put(Empty, k, q) \in Partial(Keys, Qty)
  BY <1>1, EmptyIs, PutTyped
<1> QED BY <1>2, OverrideTyped DEF ManualItems

LEMMA PushTyped ==
    ASSUME TypeOK, OverrideSend
    PROVE  TypeOK'
<1>1. PICK B \in Some(sync.out, Size) :
         \/ /\ Accepts(B) /\ UNCHANGED events
            /\ sync' = [sync EXCEPT !.out = Without(@, B)]
         \/ Event /\ (UNCHANGED acc \/ Accepts(B)) /\ sync' = SyncIdle
  BY DEF OverrideSend
<1>2. acc' \in [Keys -> Qty]
  BY <1>1, SomeIs, AcceptsTyped DEF TypeOK
<1>3. sync' \in SyncType
  <2>1. Without(sync.out, B) \in Partial(Keys, Qty)
    BY SyncIs, WithoutTyped
  <2> QED BY <1>1, <2>1, SyncIs, IdleTyped DEF SyncType
<1>4. events' \in 0..Events
  BY <1>1, StockAssumption DEF Event, TypeOK, StockAssumption
<1> QED BY <1>2, <1>3, <1>4 DEF TypeOK, OverrideSend, rows

LEMMA PartnersTyped ==
    ASSUME TypeOK, NEW k \in Keys, Move(k) \/ Process(k)
    PROVE  TypeOK'
<1>1. CASE Move(k)
  <2>1. PICK q \in Qty \ {lxq[k]} : lxq' = [lxq EXCEPT ![k] = q]
    BY <1>1 DEF Move
  <2>2. lxq' \in [Keys -> Qty]
    BY <2>1 DEF TypeOK
  <2>3. events' \in 0..Events
    BY <1>1, StockAssumption DEF Move, Event, TypeOK, StockAssumption
  <2> QED BY <1>1, <2>2, <2>3 DEF TypeOK, Move, rows
<1>2. CASE Process(k)
  <2>1. dq' \in [Keys -> Qty]
    BY <1>2 DEF Process, TypeOK
  <2> QED BY <1>2, <2>1 DEF TypeOK, Process, rows
<1> QED BY <1>1, <1>2

LEMMA RestTyped ==
    ASSUME TypeOK, SyncNext \/ SyncLooked \/ OverrideDone \/ SyncAbort
    PROVE  TypeOK'
<1>1. CASE SyncNext
  <2>1. ASSUME NEW w \in sync.todo,
               sync' = [sync EXCEPT !.pc = "page", !.todo = @ \ {w}, !.wh = {w}, !.left = Skus]
        PROVE  sync' \in SyncType
    <3>1. w \in Warehouses
      BY SyncIs DEF SyncType
    <3> QED BY <2>1, <3>1, SyncIs DEF SyncType
  <2>2. sync' \in SyncType
    BY <1>1, <2>1, IdleTyped DEF SyncNext
  <2> QED BY <1>1, <2>2 DEF TypeOK, SyncNext, partners, rows
<1>2. CASE SyncLooked
  <2>1. sync' \in SyncType
    BY <1>2, SyncIs DEF SyncLooked, SyncType
  <2> QED BY <1>2, <2>1 DEF TypeOK, SyncLooked, partners, rows
<1>3. CASE OverrideDone
  BY <1>3, IdleTyped DEF TypeOK, OverrideDone, partners, rows
<1>4. CASE SyncAbort
  <2>1. events' \in 0..Events
    BY <1>4, StockAssumption DEF SyncAbort, Event, TypeOK, StockAssumption
  <2> QED BY <1>4, <2>1, IdleTyped DEF TypeOK, SyncAbort, partners, rows
<1> QED BY <1>1, <1>2, <1>3, <1>4

LEMMA NextTyped == TypeOK /\ [Next]_vars => TypeOK'
<1> SUFFICES ASSUME TypeOK, [Next]_vars PROVE TypeOK'
  OBVIOUS
<1>1. CASE UNCHANGED vars
  BY <1>1 DEF vars, partners, rows, TypeOK
<1>2. CASE Next
  BY <1>2, SendTyped, LookTyped, PageTyped, RecordTyped, StartTyped, DailyTyped,
     ItemsTyped, PushTyped, PartnersTyped, RestTyped DEF Next, SyncStep
<1> QED BY <1>1, <1>2

\* Quantities, rows and the memory of a run keep their types.
THEOREM StockTyped == Spec => []TypeOK
BY InitTyped, NextTyped, PTL DEF Spec

-----------------------------------------------------------------------------
(* Success rows *)

LEMMA InitPage == Init => PageInv
BY EmptyIs DEF Init, PageInv, SyncIdle

\* DSCO takes a batch: what is sent is accepted as it was listed.
LEMMA TakenBatch ==
    ASSUME NEW B \in SUBSET DOMAIN sync.out, Accepts(B), NEW k \in Keys, NEW v,
           \/ k \in DOMAIN sync.out /\ sync.out[k] = v
           \/ k \notin DOMAIN sync.out /\ acc[k] = v
    PROVE  LET out == Without(sync.out, B)
           IN \/ k \in DOMAIN out /\ out[k] = v
              \/ k \notin DOMAIN out /\ acc'[k] = v
<1> DEFINE out == Without(sync.out, B)
<1>1. /\ DOMAIN out = DOMAIN sync.out \ B
      /\ \A x \in DOMAIN sync.out \ B : out[x] = sync.out[x]
  BY WithoutIs
<1>2. acc'[k] = IF k \in B THEN sync.out[k] ELSE acc[k]
  BY DEF Accepts
<1> HIDE DEF out
<1>3. \/ k \in DOMAIN out /\ out[k] = v
      \/ k \notin DOMAIN out /\ acc'[k] = v
  BY <1>1, <1>2
<1> QED BY <1>3 DEF out

LEMMA PageSend ==
    ASSUME TypeOK, PageInv, SyncSend
    PROVE  PageInv'
<1>1. PICK B \in Some(sync.out, Size) :
         \/ /\ Accepts(B) /\ UNCHANGED events
            /\ sync' = [sync EXCEPT !.out = Without(@, B)]
         \/ /\ Event /\ (UNCHANGED acc \/ Accepts(B))
            /\ sync' = [sync EXCEPT !.out = Empty, !.bad = TRUE]
  BY DEF SyncSend
<1>2. /\ sync'.wh = sync.wh /\ sync'.made = sync.made /\ sync'.write = sync.write
      /\ sync'.pc = sync.pc
  BY <1>1, SyncIs DEF SyncType
<1>3. CASE Accepts(B) /\ sync' = [sync EXCEPT !.out = Without(@, B)]
  <2>1. sync'.out = Without(sync.out, B) /\ sync'.bad = sync.bad
    BY <1>3, SyncIs DEF SyncType
  <2>2. ASSUME sync.write, ~sync.bad, NEW w \in sync.wh, NEW s \in DOMAIN sync.made
        PROVE  Unsent(<<w, s>>, sync.made[s])' \/ Accepted(<<w, s>>, sync.made[s])'
    <3>1. <<w, s>> \in Keys
      BY SyncIs, PartialIs DEF Keys
    <3>2. B \in SUBSET DOMAIN sync.out
      BY SomeIs
    <3>3. Unsent(<<w, s>>, sync.made[s]) \/ Accepted(<<w, s>>, sync.made[s])
      BY <2>2 DEF PageInv
    <3> DEFINE r == sync.made[s]
    <3>4. Unsent(<<w, s>>, r) \/ Accepted(<<w, s>>, r)
      BY <3>3
    <3>5. r' = r
      BY <1>2
    <3> HIDE DEF r
    <3>6. \/ <<w, s>> \in DOMAIN sync'.out /\ sync'.out[<<w, s>>] = r.num
          \/ <<w, s>> \notin DOMAIN sync'.out /\ acc'[<<w, s>>] = r.num
      BY <3>1, <3>2, <3>4, <1>3, <2>1, TakenBatch DEF Unsent, Accepted
    <3> QED BY <3>5, <3>6 DEF Unsent, Accepted, r
  <2> QED BY <1>2, <2>1, <2>2 DEF PageInv
<1>4. CASE sync' = [sync EXCEPT !.out = Empty, !.bad = TRUE]
  <2>1. sync'.bad = TRUE
    BY <1>4, SyncIs DEF SyncType
  <2> QED BY <1>2, <2>1 DEF PageInv
<1> QED BY <1>1, <1>3, <1>4

LEMMA PageLook ==
    ASSUME TypeOK, PageInv, NEW s \in Skus, SyncLook(s)
    PROVE  PageInv'
<1>1. PICK w \in sync.wh, e \in LookUps(s) :
         sync' = [sync EXCEPT
                !.cache[s] = e,
                !.page = Without(@, {s}),
                !.made = Put(@, s, [num |-> sync.page[s], dsco |-> e.q[w],
                                    st |-> IF e.st = "failed" THEN 2 ELSE 1]),
                !.out = IF sync.write THEN Put(@, <<w, s>>, sync.page[s]) ELSE @]
  BY DEF SyncLook
<1> DEFINE q == sync.page[s]
           r == [num |-> q, dsco |-> e.q[w], st |-> IF e.st = "failed" THEN 2 ELSE 1]
<1>2. r.num = q
  OBVIOUS
<1> HIDE DEF r
<1>3. /\ sync'.pc = "look" /\ sync'.wh = sync.wh /\ sync'.write = sync.write
      /\ sync'.bad = sync.bad /\ sync'.made = Put(sync.made, s, r)
      /\ sync.write => sync'.out = Put(sync.out, <<w, s>>, q)
  BY <1>1, SyncIs DEF r, SyncType, SyncLook
<1>4. acc' = acc
  BY DEF SyncLook, partners
<1> HIDE DEF q
<1>5. ASSUME sync.write, ~sync.bad, NEW v \in sync.wh, NEW t \in DOMAIN sync'.made
      PROVE  \/ <<v, t>> \in DOMAIN sync'.out /\ sync'.out[<<v, t>>] = sync'.made[t].num
             \/ <<v, t>> \notin DOMAIN sync'.out /\ acc[<<v, t>>] = sync'.made[t].num
  <2>1. v = w
    BY DEF PageInv
  <2>2. /\ DOMAIN sync'.made = DOMAIN sync.made \cup {s} /\ sync'.made[s] = r
        /\ \A y \in DOMAIN sync.made : y # s => sync'.made[y] = sync.made[y]
    <3> DEFINE made == Put(sync.made, s, r)
    <3>1. /\ DOMAIN made = DOMAIN sync.made \cup {s} /\ made[s] = r
          /\ \A y \in DOMAIN sync.made : y # s => made[y] = sync.made[y]
      BY DEF Put, Over
    <3> HIDE DEF made
    <3>2. sync'.made = made
      BY <1>3 DEF made
    <3> QED BY <3>1, <3>2
  <2>3. /\ DOMAIN sync'.out = DOMAIN sync.out \cup {<<w, s>>} /\ sync'.out[<<w, s>>] = q
        /\ \A y \in DOMAIN sync.out : y # <<w, s>> => sync'.out[y] = sync.out[y]
    <3> DEFINE out == Put(sync.out, <<w, s>>, q)
    <3>1. /\ DOMAIN out = DOMAIN sync.out \cup {<<w, s>>} /\ out[<<w, s>>] = q
          /\ \A y \in DOMAIN sync.out : y # <<w, s>> => out[y] = sync.out[y]
      BY DEF Put, Over
    <3> HIDE DEF out
    <3>2. sync'.out = out
      BY <1>3, <1>5 DEF out
    <3> QED BY <3>1, <3>2
  <2>4. CASE t = s
    BY <2>1, <2>2, <2>3, <2>4, <1>2
  <2>5. CASE t # s
    <3>1. t \in DOMAIN sync.made /\ sync'.made[t] = sync.made[t] /\ <<w, t>> # <<w, s>>
      BY <2>2, <2>5
    <3>2. Unsent(<<w, t>>, sync.made[t]) \/ Accepted(<<w, t>>, sync.made[t])
      BY <3>1, <1>5 DEF PageInv
    <3> QED BY <2>1, <2>3, <3>1, <3>2 DEF Unsent, Accepted
  <2> QED BY <2>4, <2>5
<1> QED BY <1>3, <1>4, <1>5 DEF PageInv, Unsent, Accepted

LEMMA PageOther ==
    ASSUME TypeOK, PageInv, [Next]_vars,
           ~SyncSend, \A s \in Skus : ~SyncLook(s)
    PROVE  PageInv'
<1>1. ASSUME sync' = SyncIdle PROVE PageInv'
  BY <1>1 DEF PageInv, SyncIdle
<1>2. CASE \E write \in SyncModes : SyncStart(write)
  <2>1. sync'.wh = {} /\ sync'.made = Empty
    BY <1>2 DEF SyncStart, SyncIdle
  <2> QED BY <2>1, EmptyIs DEF PageInv
<1>3. CASE SyncNext
  <2>1. ASSUME NEW w \in sync.todo,
               sync' = [sync EXCEPT !.pc = "page", !.todo = @ \ {w}, !.wh = {w}, !.left = Skus]
        PROVE  PageInv'
    <3>1. sync'.wh = {w} /\ sync'.made = sync.made /\ sync.made = Empty
      BY <1>3, <2>1, SyncIs DEF SyncNext, PageInv, SyncType
    <3> QED BY <3>1, EmptyIs DEF PageInv
  <2> QED BY <1>1, <1>3, <2>1 DEF SyncNext
<1>4. CASE SyncPage
  <2>1. /\ sync.made = Empty /\ sync'.made = sync.made /\ sync'.wh \in {sync.wh, {}}
    BY <1>4, SyncIs DEF SyncPage, PageInv, SyncType
  <2> QED BY <2>1, EmptyIs DEF PageInv
<1>5. CASE SyncLooked
  <2>1. /\ sync'.pc = "send" /\ sync'.wh = sync.wh /\ sync'.made = sync.made
        /\ sync'.out = sync.out /\ sync'.write = sync.write /\ sync'.bad = sync.bad
    BY <1>5, SyncIs DEF SyncLooked, SyncType
  <2>2. acc' = acc
    BY <1>5 DEF SyncLooked, partners
  <2> QED BY <2>1, <2>2 DEF PageInv, Unsent, Accepted
<1>6. CASE SyncRecord
  <2>1. sync'.wh = sync.wh /\ sync'.made = Empty
    BY <1>6, SyncIs DEF SyncRecord, SyncType
  <2> QED BY <2>1, EmptyIs DEF PageInv
<1>7. CASE OverrideSend \/ OverrideDone
  <2>1. \/ sync' = SyncIdle
        \/ sync'.wh = sync.wh /\ sync'.made = sync.made /\ sync.made = Empty
    BY <1>7, SyncIs DEF OverrideSend, OverrideDone, PageInv, SyncType
  <2> QED BY <1>1, <2>1, EmptyIs DEF PageInv
<1>8. CASE SyncAbort
  BY <1>1, <1>8 DEF SyncAbort
<1>9. ASSUME NEW src, NEW target, Override(src, target) PROVE PageInv'
  <2>1. sync'.wh = {} /\ sync'.made = Empty
    BY <1>9 DEF Override, SyncIdle
  <2> QED BY <2>1, EmptyIs DEF PageInv
<1>10. ASSUME UNCHANGED <<sync, acc>> PROVE PageInv'
  BY <1>10 DEF PageInv, Unsent, Accepted
<1>11. CASE UNCHANGED vars
  BY <1>10, <1>11 DEF vars, partners
<1>12. CASE \E k \in Keys : Move(k) \/ Process(k)
  BY <1>10, <1>12 DEF Move, Process
<1> QED BY <1>2, <1>3, <1>4, <1>5, <1>6, <1>7, <1>8, <1>9, <1>11, <1>12
        DEF Next, SyncStep, DailyPulled, ManualItems

LEMMA NextPage == TypeOK /\ PageInv /\ [Next]_vars => PageInv'
BY PageSend, PageLook, PageOther

\* The rows of a page carry what was accepted, unless a batch of it failed.
LEMMA RecordAccepted ==
    ASSUME TypeOK, PageInv, SyncRecord, sync.write, latest' # latest,
           NEW k \in DOMAIN latest', k[1] \in sync.wh, k[2] \in DOMAIN sync.made,
           latest'[k].st = 1
    PROVE  acc[k] = latest'[k].num
<1>1. PICK w \in sync.wh :
       LET made    == sync.made
           new     == {<<w, s>> : s \in DOMAIN made}
           differ1 == {x \in new : made[x[2]].num # made[x[2]].dsco}
       IN  \/ /\ latest' = Over([x \in new |-> [num |-> made[x[2]].num,
                                             st |-> Status(made[x[2]])]], latest)
              /\ differ' = Over([x \in differ1 |-> made[x[2]].num], differ)
              /\ UNCHANGED events
           \/ Event /\ UNCHANGED rows
  BY DEF SyncRecord
<1> DEFINE new == {<<w, s>> : s \in DOMAIN sync.made}
           f   == [x \in new |-> [num |-> sync.made[x[2]].num, st |-> Status(sync.made[x[2]])]]
           s   == k[2]
<1>2. latest' = Over(f, latest)
  BY <1>1 DEF rows
<1>3. k = <<w, s>> /\ k \in new
  <2>1. k \in Keys
    <3>1. TypeOK'
      BY RecordTyped
    <3> QED BY <3>1, PartialIs DEF TypeOK
  <2>2. k = <<k[1], k[2]>>
    BY <2>1 DEF Keys
  <2>3. k[1] = w
    BY DEF PageInv
  <2> QED BY <2>2, <2>3
<1>4. f[k].num = sync.made[s].num /\ f[k].st = Status(sync.made[s]) /\ DOMAIN f = new
  BY <1>3
<1> HIDE DEF new, f
<1>5. latest'[k] = f[k]
  <2>1. Over(f, latest)[k] = f[k]
    BY <1>3, <1>4 DEF Over
  <2> QED BY <1>2, <2>1
<1>6. ~sync.bad
  BY <1>4, <1>5 DEF Status
<1>7. Unsent(<<w, s>>, sync.made[s]) \/ Accepted(<<w, s>>, sync.made[s])
  BY <1>6 DEF PageInv
<1>8. sync.out = Empty
  BY DEF SyncRecord
<1> QED BY <1>3, <1>4, <1>5, <1>7, <1>8, EmptyIs DEF Unsent, Accepted

\* SuccessMeansAccepted holds whatever calls fail, are taken without an answer
\* or are cut off, and whatever the API sends in between.
THEOREM SuccessBacked == Spec => SuccessMeansAccepted
<1>1. Init => TypeOK /\ PageInv
  BY InitTyped, InitPage
<1>2. TypeOK /\ PageInv /\ [Next]_vars => (TypeOK /\ PageInv)'
  BY NextTyped, NextPage
<1>3. TypeOK /\ PageInv /\ [Next]_vars =>
         [\A k \in DOMAIN latest' :
             /\ latest' # latest /\ sync.write
             /\ k[1] \in sync.wh /\ k[2] \in DOMAIN sync.made
             /\ latest'[k].st = 1
             => acc[k] = latest'[k].num]_vars
  <2> SUFFICES ASSUME TypeOK, PageInv, [Next]_vars, NEW k \in DOMAIN latest',
                      latest' # latest, sync.write,
                      k[1] \in sync.wh, k[2] \in DOMAIN sync.made, latest'[k].st = 1
               PROVE  acc[k] = latest'[k].num
    OBVIOUS
  <2>1. SyncRecord
    BY DEF Next, SyncStep, SyncStart, SyncNext, SyncPage, SyncLook, SyncLooked, SyncSend,
           SyncAbort, OverrideSend, OverrideDone, DailyPulled, ManualItems, Override,
           Move, Process, rows, vars
  <2> QED BY <2>1, RecordAccepted
<1> QED BY <1>1, <1>2, <1>3, PTL DEF Spec, SuccessMeansAccepted
=============================================================================
