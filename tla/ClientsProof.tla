---------------------------- MODULE ClientsProof -----------------------------
(***************************************************************************)
(* The clients of DSCO and LingXing: the inventory stream, and the tokens  *)
(* and answers of LingXing.                                                *)
(***************************************************************************)
EXTENDS StreamPull, SdkClients, TLAPS

-----------------------------------------------------------------------------
(***************************************************************************)
(* For any catalogue, dump, number of events per pull, waits and faults:   *)
(* the full inventory read comes to an end, leaves no stream behind that   *)
(* it knows of, and is complete if DSCO paused less than the reader waits. *)
(*                                                                         *)
(* The invariant: the events up to the position are in the cache (InCache), *)
(* and a reader that has read all there is has waited no longer than DSCO  *)
(* has paused (Pacing).                                                    *)
(***************************************************************************)

Patient == Pause < StableWait /\ Pause < IdleWait

Progress ==
    /\ reader.pos <= dump.written
    /\ reader.pc = "handle" => reader.pos < reader.next /\ reader.next <= reader.last
    /\ reader.pc \in {"handle", "ack"} =>
          /\ reader.pos < reader.last /\ reader.last <= dump.written
          /\ reader.quiet = 0 /\ reader.still = 0
    /\ reader.pc \in {"idle", "sync", "wait"} => reader.pos = 0 /\ reader.still = 0

Pacing ==
    Patient /\ ~Late =>
        /\ reader.pc \in {"pull", "look"} /\ reader.pos = dump.written
              /\ dump.written < Events =>
              reader.quiet <= dump.lull /\ reader.still <= dump.lull + 1
        /\ reader.pc = "look" /\ reader.pos < dump.written =>
              reader.quiet < IdleWait /\ reader.still <= StableWait

\* The events 1..n are in the cache, the last of each item.
Right(n) == \A e \in 1..n : e # dump.blank =>
                reader.cache[dump.log[e]] >= e /\ reader.cache[dump.log[e]] \in Of(dump.log[e])

InCache ==
    /\ reader.pc \in {"idle", "sync", "wait", "pull", "look"} => Right(reader.pos)
    /\ reader.pc = "handle" => Right(reader.next - 1)
    /\ reader.pc = "ack" => Right(reader.last)
    /\ reader.pc = "ok" => reader.good
    /\ Patient /\ ~Late /\ reader.pc \in {"drop", "ok"} /\ reader.good => Right(Events)

StreamInv == StreamTypeOK /\ Progress /\ Pacing /\ InCache

-----------------------------------------------------------------------------
(* Helpers *)

\* The assumptions on the numbers.
LEMMA Numbers ==
    /\ Events \in Nat /\ Events # 0 /\ PullBatch \in Nat /\ PullBatch # 0 /\ Pause \in Nat
    /\ StableWait \in Nat /\ IdleWait \in Nat /\ Longest \in Nat
  BY StreamAssumption DEF StreamAssumption

LEMMA PartnerName ==
  ASSUME NEW i \in Items, Partner[i] # "none"
  PROVE  Partner[i] \in Names
<1>1. Partner[i] \in Names \cup {"none"}
  BY StreamAssumption DEF StreamAssumption
<1>2. QED
  BY <1>1, Zenon

LEMMA ItemName == Items \subseteq Names
  BY StreamAssumption DEF StreamAssumption

LEMMA Idle_Type == ReaderIdle \in ReaderType
<1>1. NoCache \in [Names -> 0..Events] /\ 0 \in 0..Events /\ 0 \in 0..Longest
      /\ 1 \in 1..(Events + 1) /\ 0 \in Nat
  BY Numbers DEF NoCache
<1>2. QED
  BY <1>1 DEF ReaderIdle, ReaderType

LEMMA NewDump_Type ==
  ASSUME NEW d \in NewDump
  PROVE  d \in DumpType /\ d.written = 0
<1>1. PICK f \in [1..Events -> Items],
           b \in IF "blank" \in StreamFaults THEN 0..Events ELSE {0} :
        d = [exists |-> FALSE, log |-> f, blank |-> b, written |-> 0, lull |-> 0]
  BY DEF NewDump
<1>2. b \in 0..Events /\ 0 \in 0..Events /\ 0 \in 0..(Pause + 1)
  BY Numbers
<1>3. QED
  BY <1>1, <1>2 DEF DumpType

\* What the handler does to the cache.
LEMMA Store_OK ==
  ASSUME dump \in DumpType, NEW c \in [Names -> 0..Events], NEW e \in 1..Events
  PROVE  /\ Store(c, e) \in [Names -> 0..Events]
         /\ dump.log[e] \in Items /\ Store(c, e)[dump.log[e]] = e
         /\ \A n \in Names : n # dump.log[e] /\ c[n] # 0 => Store(c, e)[n] = c[n]
<1> DEFINE i == dump.log[e]
           d == [c EXCEPT ![i] = e]
<1>1. i \in Items /\ i \in Names /\ e \in 0..Events /\ e # 0
  BY ItemName, Numbers DEF DumpType
<1>2. d \in [Names -> 0..Events] /\ d[i] = e /\ \A n \in Names : n # i => d[n] = c[n]
  BY <1>1
<1> HIDE DEF i, d
<1>3. CASE Partner[i] # "none" /\ d[Partner[i]] = 0
  <2>1. Partner[i] \in Names
    BY <1>1, <1>3, PartnerName
  <2>2. Store(c, e) = [d EXCEPT ![Partner[i]] = e]
    BY <1>3 DEF Store, i, d
  <2>3. Partner[i] # i
    BY <1>1, <1>2, <1>3
  <2>4. QED
    BY <1>1, <1>2, <1>3, <2>1, <2>2, <2>3 DEF i
<1>4. CASE ~(Partner[i] # "none" /\ d[Partner[i]] = 0)
  <2>1. Store(c, e) = d
    BY <1>4 DEF Store, i, d
  <2>2. QED
    BY <1>1, <1>2, <2>1 DEF i
<1>5. QED
  BY <1>3, <1>4

\* A round: DSCO's pause grows, if it has not written all, until it is late.
LEMMA Round_OK ==
  ASSUME dump \in DumpType, Round
  PROVE  /\ dump' \in DumpType
         /\ dump'.exists = dump.exists /\ dump'.log = dump.log
         /\ dump'.blank = dump.blank /\ dump'.written = dump.written
         /\ ~Late' => ~Late /\ (dump.written < Events => dump'.lull = dump.lull + 1)
<1> DEFINE l == IF dump.written = Events \/ Late THEN dump.lull ELSE dump.lull + 1
<1>1. dump' = [dump EXCEPT !.lull = l]
  BY DEF Round
<1>2. dump.lull \in 0..(Pause + 1) /\ dump.written \in 0..Events
  BY DEF DumpType
<1>3. l \in 0..(Pause + 1)
  BY <1>2, Numbers DEF Late
<1>4. ~(l > Pause) => ~Late /\ (dump.written < Events => l = dump.lull + 1)
  BY <1>2, Numbers DEF Late
<1> HIDE DEF l
<1>5. dump' \in DumpType
  BY <1>1, <1>3 DEF DumpType
<1>6. /\ dump'.exists = dump.exists /\ dump'.log = dump.log
      /\ dump'.blank = dump.blank /\ dump'.written = dump.written /\ dump'.lull = l
  BY <1>1 DEF DumpType
<1>7. QED
  BY <1>4, <1>5, <1>6 DEF Late

LEMMA Write_Inv == StreamInv /\ DumpWrite => StreamInv'
<1> SUFFICES ASSUME StreamInv, DumpWrite PROVE StreamInv'
  OBVIOUS
<1> DEFINE l == IF Late THEN dump.lull ELSE 0
<1>1. /\ dump \in DumpType /\ reader \in ReaderType /\ dump.written < Events
      /\ dump' = [dump EXCEPT !.written = @ + 1, !.lull = l] /\ reader' = reader
  BY DEF StreamInv, StreamTypeOK, DumpWrite
<1>2. /\ dump.lull \in 0..(Pause + 1) /\ dump.written \in 0..Events
      /\ reader.pos \in 0..Events /\ reader.last \in 0..Events
  BY <1>1 DEF DumpType, ReaderType
<1>3. l \in 0..(Pause + 1) /\ dump.written + 1 \in 0..Events /\ (~(l > Pause) => ~Late)
  BY <1>1, <1>2, Numbers DEF Late
<1> HIDE DEF l
<1>4. dump' \in DumpType
  BY <1>1, <1>3 DEF DumpType
<1>5. /\ dump'.log = dump.log /\ dump'.blank = dump.blank
      /\ dump'.written = dump.written + 1 /\ dump'.lull = l
  BY <1>1 DEF DumpType
<1>6. Progress'
  BY <1>1, <1>2, <1>5 DEF StreamInv, Progress
<1>7. Pacing'
  <2> SUFFICES ASSUME Patient, ~Late'
               PROVE  /\ reader.pos # dump'.written
                      /\ reader.pc = "look" => reader.quiet < IdleWait /\ reader.still <= StableWait
    BY <1>1 DEF Pacing
  <2>1. ~Late
    BY <1>3, <1>5 DEF Late
  <2>2. reader.pos # dump'.written
    BY <1>2, <1>5 DEF StreamInv, Progress
  <2>3. ASSUME reader.pc = "look", reader.pos = dump.written
        PROVE  reader.quiet < IdleWait /\ reader.still <= StableWait
    <3>1. reader.quiet <= dump.lull /\ reader.still <= dump.lull + 1
      BY <1>1, <2>1, <2>3 DEF StreamInv, Pacing
    <3>2. reader.quiet \in Nat /\ reader.still \in Nat
      BY <1>1 DEF ReaderType
    <3>3. QED
      BY <1>2, <2>1, <3>1, <3>2, Numbers DEF Late, Patient
  <2>4. ASSUME reader.pc = "look", reader.pos # dump.written
        PROVE  reader.quiet < IdleWait /\ reader.still <= StableWait
    <3>1. reader.pos < dump.written
      BY <1>2, <2>4 DEF StreamInv, Progress
    <3>2. QED
      BY <2>1, <2>4, <3>1 DEF StreamInv, Pacing
  <2>5. QED
    BY <2>2, <2>3, <2>4
<1>8. InCache'
  <2>1. Late => Late'
    BY <1>3, <1>5 DEF Late
  <2>2. QED
    BY <1>1, <1>5, <2>1 DEF StreamInv, InCache, Right, Of
<1>9. QED
  BY <1>1, <1>4, <1>6, <1>7, <1>8 DEF StreamInv, StreamTypeOK

-----------------------------------------------------------------------------
(* The steps of the reader.  One that gives up only has to be type-correct. *)

LEMMA GiveUp_Fields ==
  ASSUME reader \in ReaderType, GiveUp
  PROVE  /\ reader' \in ReaderType /\ reader'.pc = "drop" /\ reader'.good = FALSE
         /\ reader'.pos = reader.pos /\ reader'.age = reader.age
  BY DEF GiveUp, ReaderType

LEMMA GiveUp_Inv == StreamInv /\ GiveUp /\ UNCHANGED dump => StreamInv'
<1> SUFFICES ASSUME StreamInv, GiveUp, UNCHANGED dump PROVE StreamInv'
  OBVIOUS
<1>1. /\ dump' = dump /\ dump \in DumpType /\ reader' \in ReaderType
      /\ reader'.pc = "drop" /\ reader'.good = FALSE /\ reader'.pos = reader.pos
  BY GiveUp_Fields DEF StreamInv, StreamTypeOK
<1>2. Progress' /\ Pacing' /\ InCache'
  BY <1>1 DEF StreamInv, Progress, Pacing, InCache
<1>3. QED
  BY <1>1, <1>2 DEF StreamInv, StreamTypeOK

\* A run that is over, or has not begun to read.
LEMMA Start_Inv == StreamInv /\ StreamStart => StreamInv'
<1> SUFFICES ASSUME StreamInv, StreamStart PROVE StreamInv'
  OBVIOUS
<1>1. dump \in DumpType /\ reader \in ReaderType /\ reader.pc = "idle"
  BY DEF StreamInv, StreamTypeOK, StreamStart
<1>2. ASSUME NEW made \in BOOLEAN, dump' = [dump EXCEPT !.exists = made]
      PROVE  /\ dump' \in DumpType /\ dump'.log = dump.log /\ dump'.blank = dump.blank
             /\ dump'.written = dump.written /\ dump'.lull = dump.lull
  BY <1>1, <1>2 DEF DumpType
<1>3. CASE /\ dump' = [dump EXCEPT !.exists = TRUE]
           /\ reader' = [reader EXCEPT !.pc = "sync"]
  <2>1. /\ reader' \in ReaderType /\ reader'.pc = "sync" /\ reader'.pos = reader.pos
        /\ reader'.still = reader.still /\ reader'.cache = reader.cache
    BY <1>1, <1>3 DEF ReaderType
  <2>2. /\ dump' \in DumpType /\ dump'.log = dump.log /\ dump'.blank = dump.blank
        /\ dump'.written = dump.written
    BY <1>2, <1>3
  <2>3. Progress' /\ Pacing' /\ InCache'
    BY <1>1, <2>1, <2>2 DEF StreamInv, Progress, Pacing, InCache, Right, Of
  <2>4. QED
    BY <2>1, <2>2, <2>3 DEF StreamInv, StreamTypeOK
<1>4. CASE \E made \in BOOLEAN :
              /\ dump' = [dump EXCEPT !.exists = made]
              /\ reader' = [reader EXCEPT !.pc = "failed", !.leak = made]
  <2>1. PICK made \in BOOLEAN :
              /\ dump' = [dump EXCEPT !.exists = made]
              /\ reader' = [reader EXCEPT !.pc = "failed", !.leak = made]
    BY <1>4
  <2>2. /\ reader' \in ReaderType /\ reader'.pc = "failed" /\ reader'.pos = reader.pos
    BY <1>1, <2>1 DEF ReaderType
  <2>3. dump' \in DumpType /\ dump'.written = dump.written
    BY <1>2, <2>1
  <2>4. Progress' /\ Pacing' /\ InCache'
    BY <2>2, <2>3 DEF StreamInv, Progress, Pacing, InCache
  <2>5. QED
    BY <2>2, <2>3, <2>4 DEF StreamInv, StreamTypeOK
<1>5. QED
  BY <1>3, <1>4 DEF StreamStart

LEMMA Sync_Inv == StreamInv /\ StreamSync => StreamInv'
<1> SUFFICES ASSUME StreamInv, StreamSync PROVE StreamInv'
  OBVIOUS
<1>1. dump \in DumpType /\ reader \in ReaderType /\ reader.pc = "sync" /\ dump' = dump
  BY DEF StreamInv, StreamTypeOK, StreamSync
<1>2. CASE reader' = [reader EXCEPT !.pc = "wait"]
  <2>1. /\ reader' \in ReaderType /\ reader'.pc = "wait" /\ reader'.pos = reader.pos
        /\ reader'.still = reader.still /\ reader'.cache = reader.cache
    BY <1>1, <1>2 DEF ReaderType
  <2>2. Progress' /\ Pacing' /\ InCache'
    BY <1>1, <2>1 DEF StreamInv, Progress, Pacing, InCache, Right, Of
  <2>3. QED
    BY <1>1, <2>1, <2>2 DEF StreamInv, StreamTypeOK
<1>3. QED
  BY <1>1, <1>2, GiveUp_Inv DEF StreamSync

LEMMA Wait_Inv == StreamInv /\ StreamWait => StreamInv'
<1> SUFFICES ASSUME StreamInv, StreamWait PROVE StreamInv'
  OBVIOUS
<1>1. /\ dump \in DumpType /\ reader \in ReaderType /\ reader.pc = "wait"
      /\ reader.pos = 0 /\ reader.still = 0 /\ Right(reader.pos)
  BY DEF StreamInv, StreamTypeOK, StreamWait, Progress, InCache
<1>2. CASE /\ dump.written > 0 /\ UNCHANGED dump
           /\ reader' = [reader EXCEPT !.pc = "pull", !.quiet = 0]
  <2>1. /\ reader' \in ReaderType /\ reader'.pc = "pull" /\ reader'.pos = 0
        /\ reader'.cache = reader.cache
    BY <1>1, <1>2 DEF ReaderType
  <2>2. dump.written \in 0..Events
    BY <1>1 DEF DumpType
  <2>3. Progress' /\ Pacing'
    BY <1>2, <2>1, <2>2, Numbers DEF Progress, Pacing
  <2>4. InCache'
    BY <1>1, <1>2, <2>1 DEF InCache, Right, Of
  <2>5. QED
    BY <1>1, <1>2, <2>1, <2>3, <2>4 DEF StreamInv, StreamTypeOK
<1>3. CASE /\ ~TooOld /\ Round
           /\ reader' = [reader EXCEPT !.quiet = @ + 1, !.age = @ + 1]
  <2>1. reader.age + 1 \in 0..Longest /\ reader.quiet + 1 \in Nat
    BY <1>1, <1>3, Numbers DEF TooOld, ReaderType
  <2>2. /\ reader' \in ReaderType /\ reader'.pc = "wait" /\ reader'.pos = 0
        /\ reader'.still = 0 /\ reader'.cache = reader.cache
    BY <1>1, <1>3, <2>1 DEF ReaderType
  <2>3. /\ dump' \in DumpType /\ dump'.log = dump.log /\ dump'.blank = dump.blank
        /\ dump'.written = dump.written
    BY <1>1, <1>3, Round_OK
  <2>4. Progress' /\ Pacing'
    BY <1>1, <2>2, <2>3 DEF StreamInv, Progress, Pacing
  <2>5. InCache'
    BY <1>1, <2>2, <2>3 DEF InCache, Right, Of
  <2>6. QED
    BY <2>2, <2>3, <2>4, <2>5 DEF StreamInv, StreamTypeOK
<1>4. QED
  BY <1>2, <1>3, GiveUp_Inv DEF StreamWait

LEMMA Pull_Inv == StreamInv /\ StreamPull => StreamInv'
<1> SUFFICES ASSUME StreamInv, StreamPull PROVE StreamInv'
  OBVIOUS
<1>1. /\ dump \in DumpType /\ reader \in ReaderType /\ reader.pc = "pull"
      /\ dump' = dump /\ Right(reader.pos) /\ reader.pos <= dump.written
  BY DEF StreamInv, StreamTypeOK, StreamPull, Progress, InCache
<1>2. reader.pos \in 0..Events /\ dump.written \in 0..Events
  BY <1>1 DEF DumpType, ReaderType
<1> DEFINE n == IF dump.written - reader.pos < PullBatch
                THEN dump.written - reader.pos ELSE PullBatch
<1>3. /\ n \in Nat /\ reader.pos + n <= dump.written
      /\ n = 0 => reader.pos = dump.written
  BY <1>1, <1>2, Numbers
<1>4. PullEvents => reader' = IF n = 0 THEN [reader EXCEPT !.pc = "look"]
                              ELSE [reader EXCEPT !.pc = "handle", !.next = reader.pos + 1,
                                     !.last = reader.pos + n, !.quiet = 0, !.still = 0]
  BY DEF PullEvents
<1> HIDE DEF n
<1>5. CASE PullEvents /\ n = 0
  <2>1. /\ reader' \in ReaderType /\ reader'.pc = "look" /\ reader'.pos = reader.pos
        /\ reader'.cache = reader.cache /\ reader'.quiet = reader.quiet
        /\ reader'.still = reader.still
    BY <1>1, <1>4, <1>5 DEF ReaderType
  <2>2. reader.pos = dump.written
    BY <1>3, <1>5
  <2>3. Progress' /\ InCache'
    BY <1>1, <2>1 DEF Progress, InCache, Right, Of
  <2>4. Pacing'
    BY <1>1, <1>2, <2>1, <2>2 DEF StreamInv, Pacing, Late
  <2>5. QED
    BY <1>1, <2>1, <2>3, <2>4 DEF StreamInv, StreamTypeOK
<1>6. CASE PullEvents /\ n # 0
  <2>1. /\ reader.pos + 1 \in 1..(Events + 1) /\ reader.pos + n \in 0..Events
        /\ reader.pos + 1 <= reader.pos + n /\ reader.pos < reader.pos + 1
        /\ reader.pos < reader.pos + n /\ (reader.pos + 1) - 1 = reader.pos
    BY <1>2, <1>3, <1>6, Numbers
  <2>2. /\ reader' \in ReaderType /\ reader'.pc = "handle" /\ reader'.pos = reader.pos
        /\ reader'.next = reader.pos + 1 /\ reader'.last = reader.pos + n
        /\ reader'.quiet = 0 /\ reader'.still = 0 /\ reader'.cache = reader.cache
    <3>1. reader' = [reader EXCEPT !.pc = "handle", !.next = reader.pos + 1,
                                   !.last = reader.pos + n, !.quiet = 0, !.still = 0]
      BY <1>4, <1>6
    <3>2. reader.pos + 1 \in 1..(Events + 1) /\ reader.pos + n \in 0..Events /\ 0 \in Nat
      BY <2>1
    <3>3. QED
      BY <1>1, <3>1, <3>2 DEF ReaderType
  <2>3. Progress' /\ Pacing'
    BY <1>1, <1>3, <2>1, <2>2 DEF Progress, Pacing
  <2>4. InCache'
    BY <1>1, <2>1, <2>2 DEF InCache, Right, Of
  <2>5. QED
    BY <1>1, <2>2, <2>3, <2>4 DEF StreamInv, StreamTypeOK
<1>7. QED
  BY <1>1, <1>5, <1>6, GiveUp_Inv DEF StreamPull

LEMMA Handle_Inv == StreamInv /\ StreamHandle => StreamInv'
<1> SUFFICES ASSUME StreamInv, StreamHandle PROVE StreamInv'
  OBVIOUS
<1> DEFINE e == reader.next
           after == [reader EXCEPT !.next = e + 1,
                                   !.pc = IF e = reader.last THEN "ack" ELSE "handle"]
<1>1. /\ dump \in DumpType /\ reader \in ReaderType /\ reader.pc = "handle" /\ dump' = dump
      /\ Right(e - 1) /\ reader.pos < e /\ e <= reader.last /\ reader.pos < reader.last
      /\ reader.last <= dump.written /\ reader.quiet = 0 /\ reader.still = 0
      /\ reader.pos <= dump.written
  BY DEF StreamInv, StreamTypeOK, StreamHandle, Progress, InCache
<1>2. /\ e \in 1..Events /\ e + 1 \in 1..(Events + 1) /\ reader.last \in 0..Events
      /\ reader.pos \in 0..Events /\ reader.cache \in [Names -> 0..Events]
  <2>1. e \in 1..(Events + 1) /\ reader.last \in 0..Events /\ reader.pos \in 0..Events
        /\ reader.cache \in [Names -> 0..Events]
    BY <1>1 DEF ReaderType
  <2>2. QED
    BY <1>1, <2>1, Numbers
<1>3. /\ after \in ReaderType /\ after.next = e + 1 /\ after.pos = reader.pos
      /\ after.last = reader.last /\ after.quiet = 0 /\ after.still = 0
      /\ after.cache = reader.cache
      /\ after.pc = IF e = reader.last THEN "ack" ELSE "handle"
  BY <1>1, <1>2 DEF ReaderType
<1>4. ASSUME NEW c \in [Names -> 0..Events], reader' = [after EXCEPT !.cache = c],
             \A f \in 1..e : f # dump.blank =>
                c[dump.log[f]] >= f /\ c[dump.log[f]] \in Of(dump.log[f])
      PROVE  StreamInv'
  <2> HIDE DEF after
  <2>1. /\ reader' \in ReaderType /\ reader'.next = e + 1 /\ reader'.pos = reader.pos
        /\ reader'.last = reader.last /\ reader'.quiet = 0 /\ reader'.still = 0
        /\ reader'.cache = c /\ reader'.pc = IF e = reader.last THEN "ack" ELSE "handle"
    BY <1>3, <1>4 DEF ReaderType
  <2>2. Progress'
    BY <1>1, <1>2, <2>1 DEF Progress
  <2>3. Pacing'
    BY <2>1 DEF Pacing
  <2>4. (e + 1) - 1 = e
    BY <1>2
  <2>5. InCache'
    BY <1>1, <1>4, <2>1, <2>4 DEF InCache, Right, Of
  <2>6. QED
    BY <1>1, <2>1, <2>2, <2>3, <2>5 DEF StreamInv, StreamTypeOK
<1>5. CASE e # dump.blank /\ reader' = [after EXCEPT !.cache = Store(@, e)]
  <2> DEFINE c == Store(reader.cache, e)
  <2>1. /\ c \in [Names -> 0..Events] /\ dump.log[e] \in Items /\ c[dump.log[e]] = e
        /\ \A n \in Names : n # dump.log[e] /\ reader.cache[n] # 0 => c[n] = reader.cache[n]
    BY <1>1, <1>2, Store_OK
  <2>2. reader' = [after EXCEPT !.cache = c]
    BY <1>3, <1>5
  <2> HIDE DEF c
  <2>3. ASSUME NEW f \in 1..e, f # dump.blank
        PROVE  c[dump.log[f]] >= f /\ c[dump.log[f]] \in Of(dump.log[f])
    <3>1. f \in 1..Events /\ dump.log[f] \in Items /\ dump.log[f] \in Names
      BY <1>1, <1>2, ItemName, Numbers DEF DumpType
    <3>2. CASE dump.log[f] = dump.log[e]
      BY <1>2, <1>5, <2>1, <2>3, <3>1, <3>2 DEF Of
    <3>3. CASE dump.log[f] # dump.log[e]
      <4>1. f \in 1..(e - 1)
        BY <1>2, <2>3, <3>1, <3>3
      <4>2. /\ reader.cache[dump.log[f]] >= f
            /\ reader.cache[dump.log[f]] \in Of(dump.log[f])
        BY <1>1, <2>3, <4>1 DEF Right
      <4>3. reader.cache[dump.log[f]] # 0
        BY <3>1, <4>2
      <4>4. QED
        BY <2>1, <3>1, <3>3, <4>2, <4>3
    <3>4. QED
      BY <3>2, <3>3
  <2>4. QED
    BY <1>4, <2>1, <2>2, <2>3
<1>6. CASE e = dump.blank /\ reader' = after
  <2>1. after = [after EXCEPT !.cache = reader.cache]
    BY <1>3 DEF ReaderType
  <2>2. ASSUME NEW f \in 1..e, f # dump.blank
        PROVE  /\ reader.cache[dump.log[f]] >= f
               /\ reader.cache[dump.log[f]] \in Of(dump.log[f])
    <3>1. f \in 1..(e - 1)
      BY <1>2, <1>6, <2>2
    <3>2. QED
      BY <1>1, <2>2, <3>1 DEF Right
  <2>3. QED
    BY <1>2, <1>4, <1>6, <2>1, <2>2
<1>7. CASE GiveUp
  BY <1>1, <1>7, GiveUp_Inv
<1>8. QED
  BY <1>5, <1>6, <1>7 DEF StreamHandle

LEMMA Ack_Inv == StreamInv /\ StreamAck => StreamInv'
<1> SUFFICES ASSUME StreamInv, StreamAck PROVE StreamInv'
  OBVIOUS
<1>1. /\ dump \in DumpType /\ reader \in ReaderType /\ reader.pc = "ack"
      /\ Right(reader.last) /\ reader.pos < reader.last /\ reader.last <= dump.written
      /\ reader.quiet = 0 /\ reader.still = 0
  BY DEF StreamInv, StreamTypeOK, StreamAck, Progress, InCache
<1>2. CASE /\ ~TooOld /\ Round
           /\ reader' = [reader EXCEPT !.pc = "pull", !.quiet = @ + 1, !.age = @ + 1,
                                       !.pos = PosAfter]
  <2>1. /\ reader.age \in 0..Longest /\ reader.age # Longest
        /\ reader.last \in 0..Events /\ reader.pos \in 0..Events
    BY <1>1, <1>2 DEF TooOld, ReaderType
  <2>2. reader.age + 1 \in 0..Longest /\ reader.quiet + 1 = 1 /\ 1 \in Nat
    BY <1>1, <2>1, Numbers
  <2>3. PosAfter \in 0..Events /\ PosAfter <= reader.last
    BY <1>1, <2>1 DEF PosAfter
  <2>4. /\ reader' \in ReaderType /\ reader'.pc = "pull" /\ reader'.pos = PosAfter
        /\ reader'.quiet = 1 /\ reader'.still = 0 /\ reader'.cache = reader.cache
    BY <1>1, <1>2, <2>2, <2>3 DEF ReaderType
  <2>5. /\ dump' \in DumpType /\ dump'.log = dump.log /\ dump'.blank = dump.blank
        /\ dump'.written = dump.written
        /\ ~Late' => (dump.written < Events => dump'.lull = dump.lull + 1)
    BY <1>1, <1>2, Round_OK
  <2>6. dump.written \in 0..Events /\ dump.lull \in Nat
    BY <1>1, Numbers DEF DumpType
  <2>7. Progress'
    BY <1>1, <2>1, <2>3, <2>4, <2>5, <2>6 DEF Progress
  <2>8. Pacing'
    BY <2>4, <2>5, <2>6 DEF Pacing
  <2>9. \A f \in 1..PosAfter : f \in 1..reader.last
    BY <2>1, <2>3
  <2>10. InCache'
    BY <1>1, <2>4, <2>5, <2>9 DEF InCache, Right, Of
  <2>11. QED
    BY <2>4, <2>5, <2>7, <2>8, <2>10 DEF StreamInv, StreamTypeOK
<1>3. QED
  BY <1>2, GiveUp_Inv DEF StreamAck

\* With a patient reader a look that finds enough has seen all events.
LEMMA Look_Enough ==
  ASSUME StreamInv, reader.pc = "look", Patient, ~Late,
         NEW top \in Tops, Enough(StillNow(top))
  PROVE  reader.pos = Events
<1>1. /\ reader.pos \in 0..Events /\ dump.written \in 0..Events
      /\ reader.quiet \in Nat /\ reader.still \in Nat /\ dump.lull \in 0..(Pause + 1)
      /\ reader.pos <= dump.written
  BY DEF StreamInv, StreamTypeOK, ReaderType, DumpType, Progress
<1>2. /\ StillNow(top) \in {reader.still, 0, 1}
      /\ StillNow(top) = 1 => reader.still = 0 \/ reader.still = 1
  BY <1>1 DEF StillNow, Tops
<1>3. StableWait # 0 /\ StableWait \in Nat /\ IdleWait \in Nat /\ Pause \in Nat
  BY StreamAssumption DEF StreamAssumption
<1>4. StillNow(top) <= reader.still \/ StillNow(top) <= StableWait
  BY <1>1, <1>2, <1>3
<1>5. CASE reader.pos < dump.written
  <2>1. reader.quiet < IdleWait /\ reader.still <= StableWait
    BY <1>5 DEF StreamInv, Pacing
  <2>2. QED
    BY <1>1, <1>2, <1>3, <1>4, <2>1 DEF Enough
<1>6. CASE reader.pos = dump.written /\ dump.written < Events
  <2>1. reader.quiet <= dump.lull /\ reader.still <= dump.lull + 1
    BY <1>6 DEF StreamInv, Pacing
  <2>2. dump.lull <= Pause /\ Pause < StableWait /\ Pause < IdleWait
    BY <1>1, <1>3 DEF Late, Patient
  <2>3. QED
    BY <1>1, <1>2, <1>3, <1>4, <2>1, <2>2 DEF Enough
<1>7. QED
  BY <1>1, <1>5, <1>6, Numbers

LEMMA Look_Inv == StreamInv /\ StreamLook => StreamInv'
<1> SUFFICES ASSUME StreamInv, StreamLook PROVE StreamInv'
  OBVIOUS
<1>1. /\ dump \in DumpType /\ reader \in ReaderType /\ reader.pc = "look"
      /\ Right(reader.pos) /\ reader.pos <= dump.written
  BY DEF StreamInv, StreamTypeOK, StreamLook, Progress, InCache
<1>2. /\ reader.pos \in 0..Events /\ dump.written \in 0..Events
      /\ reader.quiet \in Nat /\ reader.still \in Nat /\ dump.lull \in Nat
  BY <1>1, Numbers DEF ReaderType, DumpType
<1>3. PICK top \in Tops :
        \/ /\ Enough(StillNow(top)) /\ UNCHANGED dump
           /\ reader' = [reader EXCEPT !.pc = "drop", !.good = TRUE]
        \/ GiveUp /\ UNCHANGED dump
        \/ /\ ~TooOld /\ Round
           /\ reader' = [reader EXCEPT !.pc = "pull", !.quiet = @ + 1,
                            !.still = IF StillNow(top) = 0 THEN 0 ELSE StillNow(top) + 1,
                            !.age = @ + 1]
  BY DEF StreamLook
<1>4. CASE /\ Enough(StillNow(top)) /\ UNCHANGED dump
           /\ reader' = [reader EXCEPT !.pc = "drop", !.good = TRUE]
  <2>1. /\ reader' \in ReaderType /\ reader'.pc = "drop" /\ reader'.pos = reader.pos
        /\ reader'.cache = reader.cache
    BY <1>1, <1>4 DEF ReaderType
  <2>2. Patient /\ ~Late => reader.pos = Events
    BY <1>1, <1>4, Look_Enough
  <2>3. Progress' /\ Pacing'
    BY <1>1, <1>4, <2>1 DEF Progress, Pacing
  <2>4. InCache'
    BY <1>1, <1>4, <2>1, <2>2 DEF InCache, Right, Of, Late
  <2>5. QED
    BY <1>1, <1>4, <2>1, <2>3, <2>4 DEF StreamInv, StreamTypeOK
<1>5. CASE GiveUp /\ UNCHANGED dump
  BY <1>5, GiveUp_Inv
<1>6. CASE /\ ~TooOld /\ Round
           /\ reader' = [reader EXCEPT !.pc = "pull", !.quiet = @ + 1,
                            !.still = IF StillNow(top) = 0 THEN 0 ELSE StillNow(top) + 1,
                            !.age = @ + 1]
  <2> DEFINE st == IF StillNow(top) = 0 THEN 0 ELSE StillNow(top) + 1
  <2>1. reader.age \in 0..Longest /\ reader.age # Longest
    BY <1>1, <1>6 DEF TooOld, ReaderType
  <2>2. reader.age + 1 \in 0..Longest /\ reader.quiet + 1 \in Nat
    BY <1>2, <2>1, Numbers
  <2>3. StillNow(top) \in {reader.still, 0, 1}
    BY <1>2 DEF StillNow, Tops
  <2>4. st \in Nat /\ (st <= reader.still + 1 \/ st <= 2)
    BY <1>2, <2>3
  <2> HIDE DEF st
  <2>5. /\ reader' \in ReaderType /\ reader'.pc = "pull" /\ reader'.pos = reader.pos
        /\ reader'.quiet = reader.quiet + 1 /\ reader'.still = st
        /\ reader'.cache = reader.cache
    BY <1>1, <1>6, <2>2, <2>4 DEF ReaderType, st
  <2>6. /\ dump' \in DumpType /\ dump'.log = dump.log /\ dump'.blank = dump.blank
        /\ dump'.written = dump.written
        /\ ~Late' => ~Late /\ (dump.written < Events => dump'.lull = dump.lull + 1)
    BY <1>1, <1>6, Round_OK
  <2>7. Progress'
    BY <1>1, <2>5, <2>6 DEF Progress
  <2>8. ASSUME Patient, ~Late', reader.pos = dump.written, dump.written < Events
        PROVE  reader'.quiet <= dump'.lull /\ reader'.still <= dump'.lull + 1
    <3>1. ~Late /\ dump'.lull = dump.lull + 1
      BY <2>6, <2>8
    <3>2. reader.quiet <= dump.lull /\ reader.still <= dump.lull + 1
      BY <1>1, <2>8, <3>1 DEF StreamInv, Pacing
    <3>3. QED
      BY <1>2, <2>4, <2>5, <3>1, <3>2
  <2>9. Pacing'
    BY <2>5, <2>6, <2>8 DEF Pacing, Patient
  <2>10. InCache'
    BY <1>1, <2>5, <2>6 DEF InCache, Right, Of
  <2>11. QED
    BY <2>5, <2>6, <2>7, <2>9, <2>10 DEF StreamInv, StreamTypeOK
<1>7. QED
  BY <1>3, <1>4, <1>5, <1>6

LEMMA Drop_Inv == StreamInv /\ StreamDrop => StreamInv'
<1> SUFFICES ASSUME StreamInv, StreamDrop PROVE StreamInv'
  OBVIOUS
<1>1. dump \in DumpType /\ reader \in ReaderType /\ reader.pc = "drop"
  BY DEF StreamInv, StreamTypeOK, StreamDrop
<1>2. PICK gone \in BOOLEAN :
        /\ dump' = [dump EXCEPT !.exists = ~gone]
        /\ reader' = [reader EXCEPT !.pc = IF reader.good THEN "ok" ELSE "failed",
                                    !.cache = IF reader.good THEN @ ELSE NoCache,
                                    !.leak = ~gone]
  BY DEF StreamDrop
<1>3. /\ dump' \in DumpType /\ dump'.log = dump.log /\ dump'.blank = dump.blank
      /\ dump'.written = dump.written /\ dump'.lull = dump.lull
  BY <1>1, <1>2 DEF DumpType
<1>4. NoCache \in [Names -> 0..Events]
  BY Numbers DEF NoCache
<1>5. /\ reader' \in ReaderType /\ reader'.pos = reader.pos /\ reader'.good = reader.good
      /\ reader'.pc = (IF reader.good THEN "ok" ELSE "failed")
      /\ reader.good => reader'.cache = reader.cache
  BY <1>1, <1>2, <1>4 DEF ReaderType
<1>6. Progress' /\ Pacing'
  BY <1>3, <1>5 DEF StreamInv, Progress, Pacing
<1>7. InCache'
  BY <1>1, <1>3, <1>5 DEF StreamInv, InCache, Right, Of, Late, Patient
<1>8. QED
  BY <1>3, <1>5, <1>6, <1>7 DEF StreamInv, StreamTypeOK

LEMMA Fresh_Inv ==
  ASSUME NEW d \in NewDump
  PROVE  dump = d /\ reader = ReaderIdle => StreamInv
<1> SUFFICES ASSUME dump = d, reader = ReaderIdle PROVE StreamInv
  OBVIOUS
<1>1. StreamTypeOK /\ dump.written = 0
  BY Idle_Type, NewDump_Type DEF StreamTypeOK
<1>2. reader.pos = 0 /\ reader.still = 0 /\ reader.pc = "idle"
  BY DEF ReaderIdle
<1>3. QED
  BY <1>1, <1>2 DEF StreamInv, Progress, Pacing, InCache, Right

LEMMA Again_Inv == StreamAgain => StreamInv'
<1> SUFFICES ASSUME StreamAgain PROVE StreamInv'
  OBVIOUS
<1>1. dump' \in DumpType /\ dump'.written = 0 /\ reader' = ReaderIdle /\ reader' \in ReaderType
  BY Idle_Type, NewDump_Type DEF StreamAgain
<1>2. reader'.pos = 0 /\ reader'.still = 0 /\ reader'.pc = "idle"
  BY <1>1 DEF ReaderIdle
<1>3. QED
  BY <1>1, <1>2 DEF StreamInv, StreamTypeOK, Progress, Pacing, InCache, Right

-----------------------------------------------------------------------------
\* The reader stays in its types and the invariant holds in every state of
\* every full inventory read.
THEOREM StreamKept == StreamSpec => []StreamInv
<1>1. StreamInit => StreamInv
  BY Fresh_Inv DEF StreamInit
<1>2. StreamInv /\ [StreamNext]_StreamVars => StreamInv'
  <2> SUFFICES ASSUME StreamInv, [StreamNext]_StreamVars PROVE StreamInv'
    OBVIOUS
  <2>1. CASE StreamStep
    BY <2>1, Start_Inv, Sync_Inv, Wait_Inv, Pull_Inv, Handle_Inv, Ack_Inv, Look_Inv, Drop_Inv
       DEF StreamStep
  <2>2. CASE StreamAgain
    BY <2>2, Again_Inv
  <2>3. CASE DumpWrite
    BY <2>3, Write_Inv
  <2>4. CASE UNCHANGED StreamVars
    BY <2>4 DEF StreamVars, StreamInv, StreamTypeOK, Progress, Pacing, InCache, Right, Of, Late
  <2>5. QED
    BY <2>1, <2>2, <2>3, <2>4 DEF StreamNext
<1>3. QED
  BY <1>1, <1>2, PTL DEF StreamSpec

\* A full read that ended well has the last event of every item, whatever the
\* dump's order, repeats and size and the number of events per pull, if DSCO
\* paused for less than the reader waits.
THEOREM ReadComplete == StreamSpec => []StreamComplete
<1>1. StreamInv => StreamComplete
  <2> SUFFICES ASSUME StreamInv, Patient, ~Late, reader.pc = "ok",
                      NEW i \in Items, NEW e \in Of(i)
               PROVE  reader.cache[i] >= e /\ reader.cache[i] \in Of(i)
    BY DEF StreamComplete, Patient
  <2>1. e \in 1..Events /\ dump.log[e] = i /\ e # dump.blank
    BY DEF Of
  <2>2. Right(Events)
    BY DEF StreamInv, InCache
  <2>3. QED
    BY <2>1, <2>2 DEF Right
<1>2. QED
  BY StreamKept, <1>1, PTL

\* However a read ends, its stream is deleted, or the reader was not told that
\* it was created or that it could not be deleted.
THEOREM StreamsDeleted == StreamSpec => []NoStreamLeft
<1>1. StreamInv /\ NoStreamLeft /\ [StreamNext]_StreamVars => NoStreamLeft'
  <2> SUFFICES ASSUME StreamInv, NoStreamLeft, [StreamNext]_StreamVars,
                      reader'.pc \in {"ok", "failed"}
               PROVE  dump'.exists => reader'.leak
    BY DEF NoStreamLeft
  <2>1. dump \in DumpType /\ reader \in ReaderType
    BY DEF StreamInv, StreamTypeOK
  <2>2. CASE StreamStart
    BY <2>1, <2>2 DEF StreamStart, DumpType, ReaderType
  <2>3. CASE StreamDrop
    BY <2>1, <2>3 DEF StreamDrop, DumpType, ReaderType
  <2>4. CASE GiveUp
    BY <2>1, <2>4, GiveUp_Fields
  <2>5. CASE StreamSync \/ StreamWait \/ StreamPull
    <3>1. GiveUp \/ reader'.pc \in {"wait", "pull", "look", "handle"}
      BY <2>1, <2>5 DEF StreamSync, StreamWait, StreamPull, PullEvents, ReaderType
    <3>2. QED
      BY <2>4, <3>1
  <2>6. CASE StreamHandle
    <3>1. GiveUp \/ reader'.pc \in {"ack", "handle"}
      BY <2>1, <2>6 DEF StreamHandle, ReaderType
    <3>2. QED
      BY <2>4, <3>1
  <2>7. CASE StreamAck \/ StreamLook
    <3>1. CASE StreamAck
      <4>1. GiveUp \/ reader'.pc = "pull"
        BY <2>1, <3>1 DEF StreamAck, ReaderType
      <4>2. QED
        BY <2>4, <4>1
    <3>2. CASE StreamLook
      <4>1. GiveUp \/ reader'.pc \in {"drop", "pull"}
        BY <2>1, <3>2 DEF StreamLook, ReaderType
      <4>2. QED
        BY <2>4, <4>1
    <3>3. QED
      BY <2>7, <3>1, <3>2
  <2>8. CASE StreamAgain
    BY <2>8 DEF StreamAgain, ReaderIdle
  <2>9. CASE DumpWrite
    BY <2>1, <2>9 DEF DumpWrite, NoStreamLeft, DumpType
  <2>10. CASE UNCHANGED StreamVars
    BY <2>10 DEF StreamVars, NoStreamLeft
  <2>11. QED
    BY <2>2, <2>3, <2>5, <2>6, <2>7, <2>8, <2>9, <2>10 DEF StreamNext, StreamStep
<1>2. StreamInit => NoStreamLeft
  BY DEF StreamInit, ReaderIdle, NoStreamLeft
<1>3. QED
  BY StreamKept, <1>1, <1>2, PTL DEF StreamSpec

\* Every step of a read uses up time of the run, or comes nearer to the end
\* of its round, or handles one more event of the pull: no read is endless.
THEOREM ReadEnds == StreamSpec => StreamRunsOut
<1> DEFINE A == /\ reader' # reader /\ Place(reader.pc) > 0
           B == \/ reader'.age \in (reader.age + 1)..Longest
                \/ reader'.age = reader.age /\ Place(reader'.pc) < Place(reader.pc)
                \/ /\ reader'.age = reader.age /\ reader.pc = "handle" /\ reader'.pc = "handle"
                   /\ reader'.next = reader.next + 1 /\ reader'.next <= reader.last
<1>1. ASSUME StreamInv, [StreamNext]_StreamVars, A
      PROVE  B
  <2>1. /\ dump \in DumpType /\ reader \in ReaderType /\ reader.age \in 0..Longest
        /\ reader.next \in Nat /\ reader.last \in Nat
    <3>1. dump \in DumpType /\ reader \in ReaderType
      BY <1>1 DEF StreamInv, StreamTypeOK
    <3>2. reader.age \in 0..Longest /\ reader.next \in 1..(Events + 1) /\ reader.last \in 0..Events
      BY <3>1 DEF ReaderType
    <3>3. QED
      BY <3>1, <3>2, Numbers
  <2>2. /\ Place("sync") = 6 /\ Place("wait") = 5 /\ Place("pull") = 4
        /\ Place("handle") = 3 /\ Place("ack") = 2 /\ Place("look") = 2
        /\ Place("drop") = 1 /\ Place("ok") = 0 /\ Place("failed") = 0 /\ Place("idle") = 0
    BY DEF Place
  <2>3. ASSUME ~TooOld, reader'.age = reader.age + 1
        PROVE  B
    <3>1. reader.age # Longest
      BY <2>3 DEF TooOld
    <3>2. reader.age + 1 \in (reader.age + 1)..Longest
      BY <2>1, <3>1, Numbers
    <3>3. QED
      BY <2>3, <3>2
  <2>4. CASE GiveUp /\ reader.pc \in {"sync", "wait", "pull", "handle", "ack", "look"}
    <3>1. reader'.age = reader.age /\ Place(reader'.pc) = 1
      BY <2>1, <2>2, <2>4, GiveUp_Fields
    <3>2. Place(reader.pc) \in {2, 3, 4, 5, 6}
      BY <2>2, <2>4
    <3>3. Place(reader'.pc) < Place(reader.pc)
      BY <3>1, <3>2
    <3>4. QED
      BY <3>1, <3>3
  <2>5. CASE StreamStart \/ StreamAgain
    <3>1. reader.pc \in {"idle", "ok", "failed"}
      BY <2>5 DEF StreamStart, StreamAgain
    <3>2. Place(reader.pc) = 0
      BY <2>2, <3>1
    <3>3. ~(Place(reader.pc) > 0)
      BY <3>2
    <3>4. QED
      BY <1>1, <3>3
  <2>6. CASE StreamSync
    <3>1. CASE reader' = [reader EXCEPT !.pc = "wait"]
      <4>1. reader'.pc = "wait" /\ reader'.age = reader.age
        BY <2>1, <3>1 DEF ReaderType
      <4>2. QED
        BY <2>2, <2>6, <4>1 DEF StreamSync
    <3>2. QED
      BY <2>4, <2>6, <3>1 DEF StreamSync
  <2>7. CASE StreamWait
    <3>1. CASE reader' = [reader EXCEPT !.pc = "pull", !.quiet = 0]
      BY <2>1, <2>2, <2>7, <3>1 DEF StreamWait, ReaderType
    <3>2. CASE ~TooOld /\ reader' = [reader EXCEPT !.quiet = @ + 1, !.age = @ + 1]
      BY <2>1, <2>3, <3>2 DEF ReaderType
    <3>3. QED
      BY <2>4, <2>7, <3>1, <3>2 DEF StreamWait
  <2>8. CASE StreamPull
    <3>1. CASE PullEvents
      <4>1. reader'.pc \in {"look", "handle"} /\ reader'.age = reader.age
        BY <2>1, <3>1 DEF PullEvents, ReaderType
      <4>2. QED
        BY <2>2, <2>8, <4>1 DEF StreamPull
    <3>2. QED
      BY <2>4, <2>8, <3>1 DEF StreamPull
  <2>9. CASE StreamHandle
    <3>1. reader.next <= reader.last
      BY <1>1, <2>9 DEF StreamHandle, StreamInv, Progress
    <3>2. CASE GiveUp
      BY <2>4, <2>9, <3>2 DEF StreamHandle
    <3>3. CASE ~GiveUp
      <4>1. /\ reader'.age = reader.age /\ reader'.next = reader.next + 1
            /\ reader'.pc = IF reader.next = reader.last THEN "ack" ELSE "handle"
        BY <2>1, <2>9, <3>3 DEF StreamHandle, ReaderType
      <4>2. QED
        BY <2>1, <2>2, <2>9, <3>1, <4>1 DEF StreamHandle
    <3>4. QED
      BY <3>2, <3>3
  <2>10. CASE StreamAck
    <3>1. CASE ~TooOld /\ ~GiveUp
      <4>1. reader'.age = reader.age + 1
        BY <2>1, <2>10, <3>1 DEF StreamAck, ReaderType
      <4>2. QED
        BY <2>3, <3>1, <4>1
    <3>2. QED
      BY <2>4, <2>10, <3>1 DEF StreamAck
  <2>11. CASE StreamLook
    <3>1. PICK top \in Tops :
            \/ reader' = [reader EXCEPT !.pc = "drop", !.good = TRUE]
            \/ GiveUp
            \/ /\ ~TooOld
               /\ reader' = [reader EXCEPT !.pc = "pull", !.quiet = @ + 1,
                                !.still = IF StillNow(top) = 0 THEN 0 ELSE StillNow(top) + 1,
                                !.age = @ + 1]
      BY <2>11 DEF StreamLook
    <3>2. CASE reader' = [reader EXCEPT !.pc = "drop", !.good = TRUE]
      <4>1. reader'.pc = "drop" /\ reader'.age = reader.age
        BY <2>1, <3>2 DEF ReaderType
      <4>2. QED
        BY <2>2, <2>11, <4>1 DEF StreamLook
    <3>3. CASE GiveUp
      BY <2>4, <2>11, <3>3 DEF StreamLook
    <3>4. CASE /\ ~TooOld
               /\ reader' = [reader EXCEPT !.pc = "pull", !.quiet = @ + 1,
                                !.still = IF StillNow(top) = 0 THEN 0 ELSE StillNow(top) + 1,
                                !.age = @ + 1]
      <4>1. reader'.age = reader.age + 1
        BY <2>1, <3>4 DEF ReaderType
      <4>2. QED
        BY <2>3, <3>4, <4>1
    <3>5. QED
      BY <3>1, <3>2, <3>3, <3>4
  <2>12. CASE StreamDrop
    <3>1. reader'.pc \in {"ok", "failed"} /\ reader'.age = reader.age
      BY <2>1, <2>12 DEF StreamDrop, ReaderType
    <3>2. QED
      BY <2>2, <2>12, <3>1 DEF StreamDrop
  <2>13. CASE DumpWrite \/ UNCHANGED StreamVars
    BY <1>1, <2>13 DEF DumpWrite, StreamVars
  <2>14. QED
    BY <1>1, <2>5, <2>6, <2>7, <2>8, <2>9, <2>10, <2>11, <2>12, <2>13
       DEF StreamNext, StreamStep
<1>2. StreamInv /\ [StreamNext]_StreamVars => [A => B]_StreamVars
  BY <1>1
<1>3. QED
  BY StreamKept, <1>2, PTL DEF StreamSpec, StreamRunsOut

-----------------------------------------------------------------------------
(***************************************************************************)
(* For any runs, token life, leeway, call time and faults: a request that  *)
(* was refused is never taken for an answer, and the run LingXing issued   *)
(* its last token to is served.                                            *)
(*                                                                         *)
(* The invariant (Fit) relates the client's clock to LingXing's: a client  *)
(* thinks its token no younger than it is, one that renews its token does  *)
(* so because of its age, also after an answer was lost, and a request is  *)
(* on its way no longer than the leeway.                                   *)
(***************************************************************************)

Due(r) == r.age + Leeway > Life

\* What is true of the record r as the client c.
Fit(c, r) ==
    /\ r \in ClientType
    /\ r.known => r.tok # "none"
    /\ r.pc = "send" => r.spent <= Delay
    /\ r.pc \in {"refresh", "get"} /\ r.known => Due(r)
    /\ r.got \in {"zero", "value"} => r.served
    /\ issued.to = c /\ r.known =>
          \/ r.tok = "current" /\ issued.age <= r.age
          \/ r.tok = "old" /\ Due(r) /\ r.pc # "send"
    /\ issued.to = c /\ r.known /\ r.pc = "send" =>
          issued.age + Leeway <= Life + r.spent \/ issued.age <= r.spent

SdkInv == SdkTypeOK /\ \A c \in Clients : Fit(c, client[c])

-----------------------------------------------------------------------------
LEMMA Times == /\ Life \in Nat /\ Leeway \in Nat /\ Delay \in Nat
               /\ Delay <= Leeway /\ Leeway <= Life
  BY SdkAssumption DEF SdkAssumption

\* LingXing signs the same text for every form of a field.
LEMMA SameSignature == \A f \in Fields : SignedByClient(f) = SignedByServer(f)
  BY DEF Fields, SignedByClient, SignedByServer, BodyToSignParams, NormalizeSignValue

LEMMA New_Type == NewClient \in ClientType /\ [NewClient EXCEPT !.pc = "off"] \in ClientType
<1>1. 0 \in TokAges /\ 0 \in 0..(2 * Delay)
  BY Times DEF TokAges
<1>2. QED
  BY <1>1 DEF NewClient, ClientType, Fields, Ends

\* A step that changes one client and no token.
LEMMA One_Inv ==
  ASSUME SdkInv, issued' = issued, NEW c \in Clients, NEW r,
         client' = [client EXCEPT ![c] = r], Fit(c, r)
  PROVE  SdkInv'
<1>1. client \in [Clients -> ClientType] /\ issued \in IssuedType /\ r \in ClientType
  BY DEF SdkInv, SdkTypeOK, Fit
<1>2. client' \in [Clients -> ClientType] /\ client'[c] = r
      /\ \A d \in Clients : d # c => client'[d] = client[d]
  BY <1>1
<1>3. ASSUME NEW d \in Clients
      PROVE  Fit(d, client[d])'
  <2>1. Fit(d, client'[d])
    BY <1>2 DEF SdkInv
  <2>2. QED
    BY <2>1 DEF Fit
<1>4. QED
  BY <1>1, <1>2, <1>3 DEF SdkInv, SdkTypeOK

LEMMA StartFit ==
  ASSUME SdkInv, NEW c \in Clients, RunStart(c), issued' = issued
  PROVE  SdkInv'
<1>1. Fit(c, NewClient)
  BY New_Type DEF Fit, NewClient
<1>2. QED
  BY <1>1, One_Inv DEF RunStart

LEMMA End_Inv ==
  ASSUME SdkInv, NEW c \in Clients, RunEnd(c), issued' = issued
  PROVE  SdkInv'
<1> DEFINE r == [NewClient EXCEPT !.pc = "off"]
<1>1. Fit(c, r)
  BY New_Type DEF Fit, NewClient
<1>2. QED
  BY <1>1, One_Inv DEF RunEnd

LEMMA Request_Inv ==
  ASSUME SdkInv, NEW c \in Clients, NEW f \in Fields, Request(c, f), issued' = issued
  PROVE  SdkInv'
<1> DEFINE r == [client[c] EXCEPT !.pc = "ensure", !.field = f, !.got = "none", !.served = FALSE]
<1>1. client \in [Clients -> ClientType] /\ Fit(c, client[c]) /\ client[c].pc = "idle"
  BY DEF SdkInv, SdkTypeOK, Request
<1>2. client[c] \in ClientType
  BY <1>1
<1>3. /\ r \in ClientType /\ r.pc = "ensure" /\ r.got = "none" /\ r.tok = client[c].tok
      /\ r.age = client[c].age /\ r.known = client[c].known
  BY <1>2 DEF ClientType, Ends
<1>4. client' = [client EXCEPT ![c] = r]
  BY <1>1 DEF Request
<1> HIDE DEF r
<1>5. Fit(c, r)
  BY <1>1, <1>3 DEF Fit, Due
<1>6. QED
  BY <1>4, <1>5, One_Inv

LEMMA Ensure_Inv ==
  ASSUME SdkInv, NEW c \in Clients, Ensure(c)
  PROVE  SdkInv'
<1> DEFINE p == IF client[c].tok # "none" /\ ~ShouldRefresh(c) THEN "send"
                ELSE IF client[c].rt # "none" THEN "refresh" ELSE "get"
           r == [client[c] EXCEPT !.spent = 0, !.pc = p]
<1>1. client \in [Clients -> ClientType] /\ Fit(c, client[c]) /\ issued' = issued
      /\ client[c].pc = "ensure" /\ issued \in IssuedType
  BY DEF SdkInv, SdkTypeOK, Ensure
<1>2. client[c] \in ClientType /\ client[c].age \in Nat /\ issued.age \in Nat
  <2>1. client[c] \in ClientType /\ client[c].age \in TokAges /\ issued.age \in TokAges
    BY <1>1 DEF ClientType, IssuedType
  <2>2. QED
    BY <2>1, Times DEF TokAges
<1>3. p \in {"send", "refresh", "get"} /\ 0 \in 0..(2 * Delay)
  BY Times
<1>4. client' = [client EXCEPT ![c] = r]
  BY <1>1 DEF Ensure
<1>5. p = "send" /\ client[c].known => ~Due(client[c])
  BY DEF ShouldRefresh, Due
<1>6. p # "send" /\ client[c].known => Due(client[c])
  BY <1>1 DEF ShouldRefresh, Due, Fit
<1> HIDE DEF p
<1>7. /\ r \in ClientType /\ r.pc = p /\ r.got = client[c].got /\ r.served = client[c].served
      /\ r.tok = client[c].tok /\ r.age = client[c].age /\ r.known = client[c].known
      /\ r.spent = 0
  BY <1>2, <1>3 DEF ClientType
<1> HIDE DEF r
<1>8. Fit(c, r)
  <2>1. r.known => r.tok # "none"
    BY <1>1, <1>7 DEF Fit
  <2>2. r.pc = "send" => r.spent <= Delay
    BY <1>7, Times
  <2>3. r.pc \in {"refresh", "get"} /\ r.known => Due(r)
    BY <1>6, <1>7 DEF Due
  <2>4. r.got \in {"zero", "value"} => r.served
    BY <1>1, <1>7 DEF Fit
  <2>5. ASSUME issued.to = c, r.known
        PROVE  \/ r.tok = "current" /\ issued.age <= r.age
               \/ r.tok = "old" /\ Due(r) /\ r.pc # "send"
    BY <1>1, <1>5, <1>7, <2>5 DEF Fit, Due
  <2>6. ASSUME issued.to = c, r.known, r.pc = "send"
        PROVE  issued.age + Leeway <= Life + r.spent
    <3>1. issued.age <= client[c].age /\ ~Due(client[c])
      BY <1>1, <1>5, <1>7, <2>6 DEF Fit
    <3>2. QED
      BY <1>2, <1>7, <3>1, Times DEF Due
  <2>7. QED
    BY <1>7, <2>1, <2>2, <2>3, <2>4, <2>5, <2>6 DEF Fit
<1>9. QED
  BY <1>1, <1>4, <1>8, One_Inv

-----------------------------------------------------------------------------
(* Tokens *)

\* A new token for c: the others' tokens are old now.
LEMMA Issue_Inv ==
  ASSUME SdkInv, NEW c \in Clients, NewToken(c), NEW r \in ClientType,
         client' = [Outdate(client) EXCEPT ![c] = r],
         r.known => r.tok # "none",
         r.pc = "send" => r.spent <= Delay,
         r.pc \in {"refresh", "get"} /\ r.known => Due(r),
         r.got \in {"zero", "value"} => r.served,
         r.known => r.tok = "current" \/ (r.tok = "old" /\ Due(r) /\ r.pc # "send")
  PROVE  SdkInv'
<1>1. client \in [Clients -> ClientType] /\ issued' = [to |-> c, age |-> 0]
  BY DEF SdkInv, SdkTypeOK, NewToken
<1>2. r.age \in Nat /\ r.spent \in Nat
  <2>1. r.age \in 0..(Life + 2 * Delay + 1) /\ r.spent \in 0..(2 * Delay)
    BY DEF ClientType, TokAges
  <2>2. QED
    BY <2>1, Times
<1>3. issued' \in IssuedType /\ issued'.to = c /\ issued'.age = 0
  <2>1. 0 \in TokAges
    BY Times DEF TokAges
  <2>2. QED
    BY <1>1, <2>1 DEF IssuedType
<1>4. ASSUME NEW d \in Clients
      PROVE  LET o == Outdate(client)[d]
             IN /\ o \in ClientType /\ o.pc = client[d].pc /\ o.known = client[d].known
                /\ o.age = client[d].age /\ o.spent = client[d].spent
                /\ o.got = client[d].got /\ o.served = client[d].served
                /\ o.tok = (IF client[d].tok = "current" THEN "old" ELSE client[d].tok)
  <2>1. client[d] \in ClientType
    BY <1>1
  <2>2. Outdate(client)[d] = [client[d] EXCEPT !.tok = IF @ = "current" THEN "old" ELSE @,
                                               !.rt  = IF @ = "held" THEN "old" ELSE @]
    BY DEF Outdate
  <2>3. QED
    BY <2>1, <2>2 DEF ClientType
<1>5. /\ client' \in [Clients -> ClientType] /\ client'[c] = r
      /\ \A d \in Clients : d # c => client'[d] = Outdate(client)[d]
  <2>1. Outdate(client) \in [Clients -> ClientType]
    BY <1>4 DEF Outdate
  <2>2. QED
    BY <2>1
<1>6. Fit(c, client[c])'
  <2>1. issued'.age <= r.age /\ issued'.age <= r.spent
    BY <1>2, <1>3
  <2>2. QED
    BY <1>5, <2>1 DEF Fit, Due
<1>7. ASSUME NEW d \in Clients, d # c
      PROVE  Fit(d, client[d])'
  <2>1. Fit(d, client[d])
    BY DEF SdkInv
  <2> DEFINE o == client'[d]
  <2>2. /\ o \in ClientType /\ o.pc = client[d].pc /\ o.known = client[d].known
        /\ o.age = client[d].age /\ o.spent = client[d].spent
        /\ o.got = client[d].got /\ o.served = client[d].served
        /\ o.tok = (IF client[d].tok = "current" THEN "old" ELSE client[d].tok)
    BY <1>4, <1>5, <1>7
  <2> HIDE DEF o
  <2>3. issued'.to # d
    BY <1>3, <1>7
  <2>4. /\ o.known => o.tok # "none"
        /\ o.pc = "send" => o.spent <= Delay
        /\ o.pc \in {"refresh", "get"} /\ o.known => Due(o)
        /\ o.got \in {"zero", "value"} => o.served
    BY <2>1, <2>2 DEF Fit, Due
  <2>5. QED
    BY <2>2, <2>3, <2>4 DEF Fit, o, Due
<1>8. QED
  BY <1>3, <1>5, <1>6, <1>7 DEF SdkInv, SdkTypeOK

LEMMA Granted_Inv ==
  ASSUME SdkInv, NEW c \in Clients, Granted(c), client[c].pc \in {"refresh", "get"}
  PROVE  SdkInv'
<1>1. client \in [Clients -> ClientType] /\ Fit(c, client[c])
  BY DEF SdkInv, SdkTypeOK
<1>2. PICK term \in BOOLEAN : client' = [Outdate(client) EXCEPT ![c] = Holds(c, term)]
  BY DEF Granted
<1> DEFINE r == Holds(c, term)
<1>3. r = [client[c] EXCEPT !.pc = "send", !.tok = "current", !.rt = "held",
                            !.age = client[c].spent, !.known = term, !.spent = 0]
  BY DEF Holds
<1>4. client[c] \in ClientType /\ client[c].spent \in TokAges /\ 0 \in 0..(2 * Delay)
  <2>1. client[c] \in ClientType /\ client[c].spent \in 0..(2 * Delay)
    BY <1>1 DEF ClientType
  <2>2. QED
    BY <2>1, Times DEF TokAges
<1>5. /\ r \in ClientType /\ r.pc = "send" /\ r.tok = "current" /\ r.spent = 0
      /\ r.got = client[c].got /\ r.served = client[c].served
  BY <1>3, <1>4 DEF ClientType
<1> HIDE DEF r
<1>6. r.got \in {"zero", "value"} => r.served
  BY <1>1, <1>5 DEF Fit
<1>7. r.pc = "send" => r.spent <= Delay
  BY <1>5, Times
<1>8. QED
  BY <1>2, <1>5, <1>6, <1>7, Issue_Inv DEF Granted, r

LEMMA Refresh_Inv ==
  ASSUME SdkInv, NEW c \in Clients, RefreshToken(c)
  PROVE  SdkInv'
<1>1. client \in [Clients -> ClientType] /\ client[c].pc = "refresh" /\ Fit(c, client[c])
  BY DEF SdkInv, SdkTypeOK, RefreshToken
<1>2. CASE Granted(c)
  BY <1>1, <1>2, Granted_Inv
<1>3. CASE NewToken(c) /\ client' = [Outdate(client) EXCEPT ![c].pc = "get"]
  <2> DEFINE r == [client[c] EXCEPT !.pc = "get",
                                    !.tok = IF @ = "current" THEN "old" ELSE @,
                                    !.rt  = IF @ = "held" THEN "old" ELSE @]
  <2>1. client[c] \in ClientType
    BY <1>1
  <2>2. [Outdate(client)[c] EXCEPT !.pc = "get"] = r
    BY <2>1 DEF Outdate, ClientType
  <2>3. client' = [Outdate(client) EXCEPT ![c] = r]
    BY <1>3, <2>2
  <2>4. /\ r \in ClientType /\ r.pc = "get" /\ r.known = client[c].known
        /\ r.age = client[c].age /\ r.got = client[c].got /\ r.served = client[c].served
        /\ r.tok = (IF client[c].tok = "current" THEN "old" ELSE client[c].tok)
    BY <2>1 DEF ClientType
  <2> HIDE DEF r
  <2>5. /\ r.known => r.tok = "old" /\ Due(r)
        /\ r.got \in {"zero", "value"} => r.served
    BY <1>1, <2>1, <2>4 DEF Fit, Due, ClientType
  <2>6. QED
    BY <1>3, <2>3, <2>4, <2>5, Issue_Inv
<1>4. CASE client' = [client EXCEPT ![c].pc = "get"] /\ UNCHANGED issued
  <2> DEFINE r == [client[c] EXCEPT !.pc = "get"]
  <2>1. /\ r \in ClientType /\ r.pc = "get" /\ r.known = client[c].known
        /\ r.age = client[c].age /\ r.got = client[c].got /\ r.served = client[c].served
        /\ r.tok = client[c].tok
    BY <1>1 DEF ClientType
  <2>2. client' = [client EXCEPT ![c] = r]
    BY <1>1, <1>4
  <2> HIDE DEF r
  <2>3. Fit(c, r)
    BY <1>1, <2>1 DEF Fit, Due
  <2>4. QED
    BY <1>4, <2>2, <2>3, One_Inv
<1>5. QED
  BY <1>2, <1>3, <1>4 DEF RefreshToken

\* A request that ended with an error leaves a client that knows as much as before.
LEMMA Failed_Fit ==
  ASSUME NEW c \in Clients, NEW q \in ClientType, NEW end \in Ends
  PROVE  LET r == [q EXCEPT !.pc = "idle", !.got = end, !.field = "absent", !.spent = 0]
         IN /\ r \in ClientType /\ r.pc = "idle" /\ r.got = end /\ r.known = q.known
            /\ r.age = q.age /\ r.tok = q.tok /\ r.served = q.served
<1>1. 0 \in 0..(2 * Delay)
  BY Times
<1>2. QED
  BY <1>1 DEF ClientType, Fields

LEMMA Get_Inv ==
  ASSUME SdkInv, NEW c \in Clients, GetToken(c)
  PROVE  SdkInv'
<1>1. /\ client \in [Clients -> ClientType] /\ client[c].pc = "get" /\ Fit(c, client[c])
      /\ client[c] \in ClientType
  BY DEF SdkInv, SdkTypeOK, GetToken, Fit
<1>2. CASE Granted(c)
  BY <1>1, <1>2, Granted_Inv
<1>3. CASE NewToken(c) /\ client' = Failed(Outdate(client), c)
  <2> DEFINE q == Outdate(client)[c]
             r == [q EXCEPT !.pc = "idle", !.got = "error", !.field = "absent", !.spent = 0]
  <2>1. q = [client[c] EXCEPT !.tok = IF @ = "current" THEN "old" ELSE @,
                              !.rt  = IF @ = "held" THEN "old" ELSE @]
    BY DEF Outdate
  <2>2. /\ q \in ClientType /\ q.known = client[c].known /\ q.age = client[c].age
        /\ q.tok = (IF client[c].tok = "current" THEN "old" ELSE client[c].tok)
    BY <1>1, <2>1 DEF ClientType
  <2>3. client' = [Outdate(client) EXCEPT ![c] = r]
    BY <1>3 DEF Failed, Ended, Outdate
  <2> HIDE DEF q
  <2>4. "error" \in Ends
    BY DEF Ends
  <2>5. /\ r \in ClientType /\ r.pc = "idle" /\ r.got = "error" /\ r.known = q.known
        /\ r.age = q.age /\ r.tok = q.tok
    BY <2>2, <2>4, Failed_Fit
  <2> HIDE DEF r
  <2>6. r.known => r.tok = "old" /\ Due(r)
    BY <1>1, <2>2, <2>5 DEF Fit, Due, ClientType
  <2>7. QED
    BY <1>3, <2>3, <2>5, <2>6, Issue_Inv
<1>4. CASE client' = Failed(client, c) /\ UNCHANGED issued
  <2> DEFINE r == [client[c] EXCEPT !.pc = "idle", !.got = "error",
                                    !.field = "absent", !.spent = 0]
  <2>1. "error" \in Ends
    BY DEF Ends
  <2>2. /\ r \in ClientType /\ r.pc = "idle" /\ r.got = "error"
        /\ r.known = client[c].known /\ r.age = client[c].age /\ r.tok = client[c].tok
    BY <1>1, <2>1, Failed_Fit
  <2>3. client' = [client EXCEPT ![c] = r]
    BY <1>1, <1>4 DEF Failed, Ended
  <2> HIDE DEF r
  <2>4. Fit(c, r)
    BY <1>1, <2>2 DEF Fit, Due
  <2>5. QED
    BY <1>4, <2>3, <2>4, One_Inv
<1>5. CASE /\ UNCHANGED issued /\ client[c].tok # "none"
           /\ client' = [client EXCEPT ![c] =
                           [@ EXCEPT !.pc = "send", !.known = FALSE, !.spent = 0]]
  <2> DEFINE r == [client[c] EXCEPT !.pc = "send", !.known = FALSE, !.spent = 0]
  <2>1. 0 \in 0..(2 * Delay) /\ 0 <= Delay
    BY Times
  <2>2. /\ r \in ClientType /\ r.pc = "send" /\ r.known = FALSE /\ r.spent = 0
        /\ r.got = client[c].got /\ r.served = client[c].served
    BY <1>1, <2>1 DEF ClientType
  <2>3. client' = [client EXCEPT ![c] = r]
    BY <1>1, <1>5
  <2> HIDE DEF r
  <2>4. Fit(c, r)
    BY <1>1, <2>1, <2>2 DEF Fit
  <2>5. QED
    BY <1>5, <2>3, <2>4, One_Inv
<1>6. CASE /\ UNCHANGED issued
           /\ client' = [client EXCEPT ![c] =
                          IF @.tok = "none" THEN Failed(client, c)[c]
                          ELSE [@ EXCEPT !.pc = "send", !.known = FALSE, !.spent = 0]]
  <2>1. CASE client[c].tok = "none"
    <3>1. client' = [client EXCEPT ![c] = Failed(client, c)[c]]
      BY <1>1, <1>6, <2>1
    <3>2. client' = Failed(client, c)
      BY <1>1, <3>1 DEF Failed, Ended
    <3>3. QED
      BY <1>4, <1>6, <3>2
  <2>2. CASE client[c].tok # "none"
    BY <1>1, <1>5, <1>6, <2>2
  <2>3. QED
    BY <2>1, <2>2
<1>7. QED
  BY <1>2, <1>3, <1>4, <1>6 DEF GetToken

-----------------------------------------------------------------------------
(* Requests *)

\* An answer is a value, empty or not, only of a request that was executed.
LEMMA Answered_Inv ==
  ASSUME SdkInv, NEW c \in Clients, UNCHANGED issued,
         NEW end \in Ends, NEW served \in BOOLEAN,
         client' = [Ended(client, c, end) EXCEPT ![c].served = served],
         end \in {"zero", "value"} => served
  PROVE  SdkInv'
<1> DEFINE q == [client[c] EXCEPT !.pc = "idle", !.got = end, !.field = "absent", !.spent = 0]
           r == [q EXCEPT !.served = served]
<1>1. client \in [Clients -> ClientType] /\ client[c] \in ClientType /\ Fit(c, client[c])
  BY DEF SdkInv, SdkTypeOK
<1>2. /\ q \in ClientType /\ q.pc = "idle" /\ q.got = end /\ q.known = client[c].known
      /\ q.age = client[c].age /\ q.tok = client[c].tok
  BY <1>1, Failed_Fit
<1>3. client' = [client EXCEPT ![c] = r]
  BY <1>1 DEF Ended
<1> HIDE DEF q
<1>4. /\ r \in ClientType /\ r.pc = "idle" /\ r.got = end /\ r.known = client[c].known
      /\ r.age = client[c].age /\ r.tok = client[c].tok /\ r.served = served
  BY <1>2 DEF ClientType
<1> HIDE DEF r
<1>5. Fit(c, r)
  BY <1>1, <1>4 DEF Fit, Due
<1>6. QED
  BY <1>3, <1>5, One_Inv

LEMMA Decode_OK ==
  /\ \A d \in Data : Decode(Answer("fine", "ok", d)) \in {"zero", "value", "error"}
  /\ Decode(Answer("fine", "refused", "null")) = "error"
  /\ \A http : Decode(Answer(http, "none", "null")) = "error"
<1>1. ASSUME NEW d \in Data
      PROVE  Decode(Answer("fine", "ok", d)) \in {"zero", "value", "error"}
  BY DEF Decode, Answer, Value, Data
<1>2. Decode(Answer("fine", "refused", "null")) = "error"
  BY DEF Decode, Answer
<1>3. ASSUME NEW http
      PROVE  Decode(Answer(http, "none", "null")) = "error"
  BY DEF Decode, Answer
<1>4. QED
  BY <1>1, <1>2, <1>3

LEMMA DecodeDsco_OK ==
  ASSUME NEW d \in Data, NEW http
  PROVE  /\ DecodeDsco(Answer(http, "none", d)) \in {"zero", "value", "error"}
         /\ http # "fine" => DecodeDsco(Answer(http, "none", d)) = "error"
<1>1. Answer(http, "none", d).http = http /\ Answer(http, "none", d).data = d
  BY DEF Answer
<1>2. Value(d) \in {"zero", "value", "error"}
  BY DEF Value, Data
<1>3. QED
  BY <1>1, <1>2 DEF DecodeDsco

LEMMA Send_Inv ==
  ASSUME SdkInv, NEW c \in Clients, Send(c)
  PROVE  SdkInv'
<1>1. UNCHANGED issued /\ Accepted(c) \in BOOLEAN
  BY DEF Send, Accepted
<1>2. ASSUME NEW d \in Data, Answered(c, TRUE, Answer("fine", "ok", d))
      PROVE  SdkInv'
  <2>1. Decode(Answer("fine", "ok", d)) \in Ends
    BY Decode_OK DEF Ends
  <2>2. QED
    BY <1>1, <1>2, <2>1, Answered_Inv DEF Answered
<1>3. ASSUME Answered(c, FALSE, Answer("fine", "refused", "null"))
      PROVE  SdkInv'
  <2>1. /\ "error" \in Ends
        /\ client' = [Ended(client, c, "error") EXCEPT ![c].served = FALSE]
    BY <1>3, Decode_OK DEF Ends, Answered
  <2>2. QED
    BY <1>1, <2>1, Answered_Inv
<1>4. ASSUME NEW served \in {FALSE, Accepted(c)}, NEW http,
             Answered(c, served, Answer(http, "none", "null"))
      PROVE  SdkInv'
  <2>1. /\ "error" \in Ends /\ served \in BOOLEAN
        /\ client' = [Ended(client, c, "error") EXCEPT ![c].served = served]
    BY <1>1, <1>4, Decode_OK DEF Ends, Answered
  <2>2. QED
    BY <1>1, <2>1, Answered_Inv
<1>5. QED
  BY <1>2, <1>3, <1>4 DEF Send

LEMMA SendDsco_Inv ==
  ASSUME SdkInv, NEW c \in Clients, SendDsco(c)
  PROVE  SdkInv'
<1>1. PICK served \in BOOLEAN, d \in Data, http \in {"fine", "none", "status"} :
        /\ http = "fine" => served
        /\ client' = [client EXCEPT ![c].got = DecodeDsco(Answer(http, "none", d)),
                                    ![c].served = served]
  BY DEF SendDsco
<1> DEFINE end == DecodeDsco(Answer(http, "none", d))
           r   == [client[c] EXCEPT !.got = end, !.served = served]
<1>2. /\ client \in [Clients -> ClientType] /\ client[c] \in ClientType /\ Fit(c, client[c])
      /\ client[c].pc = "idle" /\ UNCHANGED issued
  BY DEF SdkInv, SdkTypeOK, SendDsco
<1>3. end \in Ends /\ (end \in {"zero", "value"} => served)
  BY <1>1, DecodeDsco_OK DEF Ends
<1>4. client' = [client EXCEPT ![c] = r]
  BY <1>1, <1>2
<1> HIDE DEF end
<1>5. /\ r \in ClientType /\ r.pc = "idle" /\ r.got = end /\ r.known = client[c].known
      /\ r.age = client[c].age /\ r.tok = client[c].tok /\ r.served = served
  BY <1>2, <1>3 DEF ClientType
<1> HIDE DEF r
<1>6. Fit(c, r)
  BY <1>2, <1>3, <1>5 DEF Fit, Due
<1>7. QED
  BY <1>2, <1>4, <1>6, One_Inv

\* Time: both clocks go on together.
LEMMA Tick_Inv == SdkInv /\ Tick => SdkInv'
<1> SUFFICES ASSUME SdkInv, Tick PROVE SdkInv'
  OBVIOUS
<1>1. client \in [Clients -> ClientType] /\ issued \in IssuedType
  BY DEF SdkInv, SdkTypeOK
<1>2. issued' = [issued EXCEPT !.age = Older(@)] /\ issued.age \in TokAges
  BY <1>1 DEF Tick, IssuedType
<1>3. \A a \in TokAges : Older(a) \in TokAges
  BY Times DEF Older, TokAges
<1>4. issued' \in IssuedType /\ issued'.age = Older(issued.age) /\ issued'.to = issued.to
  BY <1>1, <1>2, <1>3 DEF IssuedType
<1>5. ASSUME NEW c \in Clients
      PROVE  Fit(c, client[c])' /\ client'[c] \in ClientType
  <2> DEFINE q == client[c]
             age == IF q.tok = "none" THEN q.age ELSE Older(q.age)
             spent == IF Calling(c) THEN q.spent + 1 ELSE q.spent
             r == [q EXCEPT !.age = age, !.spent = spent]
  <2>1. client'[c] = r
    BY DEF Tick
  <2>2. q \in ClientType /\ Fit(c, q) /\ q.age \in TokAges /\ q.spent \in 0..(2 * Delay)
    BY <1>1 DEF SdkInv, ClientType
  <2>3. /\ age \in TokAges
        /\ q.tok # "none" => age = Older(q.age)
        /\ q.tok = "none" => age = q.age
    BY <1>3, <2>2
  <2>4. /\ spent \in 0..(2 * Delay)
        /\ q.pc = "send" => spent = q.spent + 1 /\ spent <= Delay
    <3>1. Calling(c) => InTime(c)
      BY DEF Tick
    <3>2. q.spent \in 0..(2 * Delay) /\ Delay \in Nat
      BY <2>2, Times
    <3>3. Calling(c) => q.spent < 2 * Delay
      BY <3>1, <3>2 DEF InTime
    <3>4. q.pc = "send" => Calling(c) /\ q.spent < Delay
      BY <3>1 DEF Calling, InTime
    <3>5. QED
      BY <3>2, <3>3, <3>4
  <2> HIDE DEF age, spent
  <2>5. /\ r \in ClientType /\ r.pc = q.pc /\ r.got = q.got /\ r.served = q.served
        /\ r.known = q.known /\ r.tok = q.tok /\ r.age = age /\ r.spent = spent
    BY <2>2, <2>3, <2>4 DEF ClientType
  <2> HIDE DEF r, q
  <2>6. /\ q.age \in Nat /\ age \in Nat /\ q.spent \in Nat /\ spent \in Nat
        /\ issued.age \in Nat /\ issued'.age \in Nat
    BY <1>2, <1>3, <1>4, <2>2, <2>3, <2>4, Times DEF TokAges
  <2>7. q.age <= age /\ issued'.age <= issued.age + 1
    BY <1>4, <2>3, <2>6, Times DEF Older
  <2>8. r.known => r.tok # "none"
    BY <2>2, <2>5 DEF Fit
  <2>9. r.pc = "send" => r.spent <= Delay
    BY <2>4, <2>5
  <2>10. Due(q) => Due(r)
    BY <2>5, <2>6, <2>7, Times DEF Due
  <2>11. r.pc \in {"refresh", "get"} /\ r.known => Due(r)
    BY <2>2, <2>5, <2>10 DEF Fit
  <2>12. r.got \in {"zero", "value"} => r.served
    BY <2>2, <2>5 DEF Fit
  <2>13. ASSUME issued.age <= q.age, q.tok # "none"
         PROVE  issued'.age <= age
    BY <1>4, <2>3, <2>6, <2>13, Times DEF Older
  <2>14. ASSUME issued'.to = c, r.known
         PROVE  \/ r.tok = "current" /\ issued'.age <= r.age
                \/ r.tok = "old" /\ Due(r) /\ r.pc # "send"
    <3>1. CASE q.tok = "current" /\ issued.age <= q.age
      BY <2>5, <2>13, <3>1
    <3>2. CASE q.tok = "old" /\ Due(q) /\ q.pc # "send"
      BY <2>5, <2>10, <3>2
    <3>3. QED
      BY <1>4, <2>2, <2>5, <2>14, <3>1, <3>2 DEF Fit
  <2>15. ASSUME issued'.to = c, r.known, r.pc = "send"
         PROVE  issued'.age + Leeway <= Life + r.spent \/ issued'.age <= r.spent
    <3>1. issued.age + Leeway <= Life + q.spent \/ issued.age <= q.spent
      BY <1>4, <2>2, <2>5, <2>15 DEF Fit
    <3>2. r.spent = q.spent + 1
      BY <2>4, <2>5, <2>15
    <3>3. QED
      BY <2>6, <2>7, <3>1, <3>2, Times
  <2>16. QED
    BY <2>1, <2>5, <2>8, <2>9, <2>11, <2>12, <2>14, <2>15 DEF Fit, Due
<1>6. client' \in [Clients -> ClientType]
  BY <1>5 DEF Tick
<1>7. QED
  BY <1>4, <1>5, <1>6 DEF SdkInv, SdkTypeOK

-----------------------------------------------------------------------------
\* The clients stay in their types and the invariant holds in every state.
THEOREM SdkKept == SdkSpec => []SdkInv
<1>1. SdkInit => SdkInv
  <2> SUFFICES ASSUME SdkInit PROVE SdkInv
    OBVIOUS
  <2> DEFINE r == [NewClient EXCEPT !.pc = "off"]
  <2>1. \A c \in Clients : client[c] = r /\ Fit(c, r)
    BY New_Type DEF SdkInit, Fit, NewClient
  <2>2. Life + 1 \in TokAges
    BY Times DEF TokAges
  <2>3. SdkTypeOK
    BY <2>2, New_Type DEF SdkInit, SdkTypeOK, IssuedType
  <2>4. QED
    BY <2>1, <2>3 DEF SdkInv
<1>2. SdkInv /\ [SdkNext]_SdkVars => SdkInv'
  <2> SUFFICES ASSUME SdkInv, [SdkNext]_SdkVars PROVE SdkInv'
    OBVIOUS
  <2>1. ASSUME NEW c \in Clients, UNCHANGED issued,
               RunStart(c) \/ RunEnd(c) \/ \E f \in Fields : Request(c, f)
        PROVE  SdkInv'
    BY <2>1, StartFit, End_Inv, Request_Inv
  <2>2. ASSUME NEW c \in Clients,
               Ensure(c) \/ RefreshToken(c) \/ GetToken(c) \/ Send(c) \/ SendDsco(c)
        PROVE  SdkInv'
    BY <2>2, Ensure_Inv, Refresh_Inv, Get_Inv, Send_Inv, SendDsco_Inv
  <2>3. CASE Tick
    BY <2>3, Tick_Inv
  <2>4. CASE UNCHANGED SdkVars
    BY <2>4 DEF SdkVars, SdkInv, SdkTypeOK, Fit
  <2>5. QED
    BY <2>1, <2>2, <2>3, <2>4 DEF SdkNext
<1>3. QED
  BY <1>1, <1>2, PTL DEF SdkSpec

\* A request that was not executed ends with an error: no task takes a refused
\* or lost look-up for an empty one.
THEOREM RefusalsSeen == SdkSpec => []RefusalIsError
<1>1. SdkInv => RefusalIsError
  BY DEF SdkInv, Fit, RefusalIsError
<1>2. QED
  BY SdkKept, <1>1, PTL

\* The run LingXing issued its last token to sends requests that LingXing
\* accepts, whatever the life of a token, if the leeway is no shorter than a
\* call may take.
THEOREM LastTokenWorks == SdkSpec => []LastTokenServes
<1>1. SdkInv => LastTokenServes
  <2> SUFFICES ASSUME SdkInv, NEW c \in Clients, client[c].pc = "send", issued.to = c,
                      client[c].known
               PROVE  Accepted(c)
    BY DEF LastTokenServes
  <2>1. Fit(c, client[c]) /\ client[c] \in ClientType /\ issued \in IssuedType
    BY DEF SdkInv, SdkTypeOK
  <2>2. client[c].tok = "current" /\ client[c].spent <= Delay
    BY <2>1 DEF Fit
  <2>3. issued.age + Leeway <= Life + client[c].spent \/ issued.age <= client[c].spent
    BY <2>1 DEF Fit
  <2>4. issued.age \in 0..(Life + 2 * Delay + 1) /\ client[c].spent \in 0..(2 * Delay)
    BY <2>1 DEF IssuedType, ClientType, TokAges
  <2>5. issued.age <= Life
    BY <2>2, <2>3, <2>4, Times
  <2>6. SignedByClient(client[c].field) = SignedByServer(client[c].field)
    BY <2>1, SameSignature DEF ClientType
  <2>7. QED
    BY <2>2, <2>5, <2>6 DEF Accepted
<1>2. QED
  BY SdkKept, <1>1, PTL
==============================================================================
