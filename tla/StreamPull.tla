----------------------------- MODULE StreamPull -----------------------------
(***************************************************************************)
(* The full inventory read of the stock task (golib/v2/sdk/dsco/           *)
(* inventory_stream.go, stream.go; task_sync_stock.go): create a stream,   *)
(* ask DSCO to dump every item into it, read its events from a position    *)
(* until it seems to be at its end, delete it.  No event says "I am the    *)
(* last": the reader stops after some time without events, so a dump that  *)
(* pauses for longer ends it half way.                                     *)
(*                                                                         *)
(* Time counts rounds of the reading loop; all waits are in rounds.  The   *)
(* same item may come again (its dump, then an update).                    *)
(***************************************************************************)
EXTENDS Naturals, FiniteSets

CONSTANTS
    Items,       \* items of DSCO's catalogue, by SKU
    Names,       \* SKUs and partners' SKUs
    Partner,     \* the partner's SKU of each item, or "none"
    Events,      \* number of events the dump puts into the stream
    PullBatch,   \* events per pull (maxEvents.objectCount)
    FirstAtLeast, \* wait for the first event, if IdleWait is not longer (2 min)
    StableWait,  \* rounds at maxPosition that count as the end (1 min)
    IdleWait,    \* rounds without events that count as the end (IdleTimeout)
    Longest,     \* rounds of a whole run (MaxDuration)
    Pause,       \* rounds between two events that DSCO does not normally exceed
    StreamFaults

StreamFaultKinds == {"start",    \* creating the stream fails, or its answer is unusable
                     "sync",     \* the sync operation is refused
                     "read",     \* a pull or an acknowledge fails
                     "list",     \* maxPosition cannot be read, or is old
                     "payload",  \* an event cannot be decoded
                     "blank",    \* an event has no id
                     "delete"}   \* the stream cannot be deleted

ASSUME StreamAssumption ==
    /\ Events \in Nat \ {0} /\ PullBatch \in Nat \ {0} /\ Pause \in Nat
    /\ FirstAtLeast \in Nat \ {0} /\ StableWait \in Nat \ {0}
    /\ IdleWait \in Nat \ {0} /\ Longest \in Nat \ {0}
    /\ StreamFaults \subseteq StreamFaultKinds
    /\ Items \subseteq Names /\ Partner \in [Items -> Names \cup {"none"}]

VARIABLES dump, reader
(* dump: the stream at DSCO: does it exist, its events, which one has no   *)
(* id (0: none), how many are written, rounds since the last one was (it   *)
(* stays above Pause once it was: late).                                   *)
(* reader: pos, last event acknowledged; next..last, events of this pull   *)
(* still to be handled; quiet, rounds since the last events; still, rounds *)
(* since maxPosition was reached, plus 1 (0: not yet); age, rounds of the  *)
(* run; cache[n], the event name n's quantities are from (0: none); good,  *)
(* how the reading ended; leak, a stream is known to stay behind.          *)

FirstWait == IF IdleWait < FirstAtLeast THEN FirstAtLeast ELSE IdleWait

DumpType   == [exists : BOOLEAN, log : [1..Events -> Items], blank : 0..Events,
               written : 0..Events, lull : 0..(Pause + 1)]
ReaderType == [pc : {"idle", "sync", "wait", "pull", "handle", "ack", "look",
                     "drop", "ok", "failed"},
               pos : 0..Events, next : 1..(Events + 1), last : 0..Events,
               quiet : Nat, still : Nat, age : 0..Longest,
               cache : [Names -> 0..Events], good : BOOLEAN, leak : BOOLEAN]
StreamTypeOK == dump \in DumpType /\ reader \in ReaderType

NoCache    == [n \in Names |-> 0]
ReaderIdle == [pc |-> "idle", pos |-> 0, next |-> 1, last |-> 0, quiet |-> 0,
               still |-> 0, age |-> 0, cache |-> NoCache, good |-> FALSE, leak |-> FALSE]

NewDump == {[exists |-> FALSE, log |-> f, blank |-> b, written |-> 0, lull |-> 0] :
              f \in [1..Events -> Items],
              b \in IF "blank" \in StreamFaults THEN 0..Events ELSE {0}}

StreamInit == dump \in NewDump /\ reader = ReaderIdle

Fails(f) == f \in StreamFaults

-----------------------------------------------------------------------------
(* DSCO *)

Late == dump.lull > Pause

\* The sync operation writes its events one after the other ...
DumpWrite ==
    /\ dump.exists /\ reader.pc \notin {"idle", "sync"}
    /\ dump.written < Events
    /\ dump' = [dump EXCEPT !.written = @ + 1, !.lull = IF Late THEN @ ELSE 0]
    /\ UNCHANGED reader

\* ... at its own pace.
Round == dump' = [dump EXCEPT !.lull = IF dump.written = Events \/ Late THEN @ ELSE @ + 1]

-----------------------------------------------------------------------------
(* The reader *)

GiveUp == reader' = [reader EXCEPT !.pc = "drop", !.good = FALSE]

\* Mutant: the run has no time limit of its own.
TooOldNever == FALSE

\* A call of a run that is too old is refused by its context.
TooOld == reader.age = Longest

\* CreateStream.  Without a usable answer there is nothing to delete.
StreamStart ==
    /\ reader.pc = "idle"
    /\ \/ /\ dump' = [dump EXCEPT !.exists = TRUE]
          /\ reader' = [reader EXCEPT !.pc = "sync"]
       \/ /\ Fails("start")
          /\ \E made \in BOOLEAN :
                /\ dump' = [dump EXCEPT !.exists = made]
                /\ reader' = [reader EXCEPT !.pc = "failed", !.leak = made]

\* CreateStreamOperation
StreamSync ==
    /\ reader.pc = "sync"
    /\ \/ reader' = [reader EXCEPT !.pc = "wait"]
       \/ Fails("sync") /\ GiveUp
    /\ UNCHANGED dump

\* Mutant: the wait for the first events runs before the deferred delete is set.
StreamWaitUndeferred ==
    /\ reader.pc = "wait"
    /\ \/ /\ ~TooOld /\ dump.written > 0
          /\ reader' = [reader EXCEPT !.pc = "pull", !.quiet = 0]
          /\ UNCHANGED dump
       \/ /\ ~TooOld /\ dump.written = 0 /\ reader.quiet <= FirstWait
          /\ reader' = [reader EXCEPT !.quiet = @ + 1, !.age = @ + 1]
          /\ Round
       \/ /\ TooOld \/ Fails("read") \/ (dump.written = 0 /\ reader.quiet > FirstWait)
          /\ reader' = [reader EXCEPT !.pc = "failed"] /\ UNCHANGED dump

\* WaitUntilHasEvents: the events are read again by the loop.
StreamWait ==
    /\ reader.pc = "wait"
    /\ \/ /\ ~TooOld /\ dump.written > 0
          /\ reader' = [reader EXCEPT !.pc = "pull", !.quiet = 0]
          /\ UNCHANGED dump
       \/ /\ ~TooOld /\ dump.written = 0 /\ reader.quiet <= FirstWait
          /\ reader' = [reader EXCEPT !.quiet = @ + 1, !.age = @ + 1]
          /\ Round
       \/ /\ TooOld \/ Fails("read") \/ (dump.written = 0 /\ reader.quiet > FirstWait)
          /\ GiveUp /\ UNCHANGED dump

\* Reader.Pull
PullEvents ==
    LET n == IF dump.written - reader.pos < PullBatch THEN dump.written - reader.pos ELSE PullBatch
    IN reader' = IF n = 0 THEN [reader EXCEPT !.pc = "look"]
                 ELSE [reader EXCEPT !.pc = "handle", !.next = reader.pos + 1,
                                     !.last = reader.pos + n, !.quiet = 0, !.still = 0]

StreamPull ==
    /\ reader.pc = "pull"
    /\ \/ ~TooOld /\ PullEvents
       \/ (TooOld \/ Fails("read")) /\ GiveUp
    /\ UNCHANGED dump

\* Mutant: what came first stays.
StoreFirst(cache, e) ==
    LET i == dump.log[e]
        c == [cache EXCEPT ![i] = IF @ = 0 THEN e ELSE @]
    IN IF Partner[i] # "none" /\ c[Partner[i]] = 0 THEN [c EXCEPT ![Partner[i]] = e] ELSE c

\* The handler stores the quantities of one event under the item's SKU and,
\* if that name is free, under its partner's SKU.
Store(cache, e) ==
    LET i == dump.log[e]
        c == [cache EXCEPT ![i] = e]
    IN IF Partner[i] # "none" /\ c[Partner[i]] = 0 THEN [c EXCEPT ![Partner[i]] = e] ELSE c

\* An event without id is passed over.
StreamHandle ==
    /\ reader.pc = "handle"
    /\ LET e == reader.next
           after == [reader EXCEPT !.next = e + 1,
                                   !.pc = IF e = reader.last THEN "ack" ELSE "handle"]
       IN \/ e # dump.blank /\ reader' = [after EXCEPT !.cache = Store(@, e)]
          \/ e = dump.blank /\ reader' = after
          \/ e # dump.blank /\ Fails("payload") /\ GiveUp
    /\ UNCHANGED dump

\* The position behind the events handled, unless the last one has no id:
\* then the same events are pulled again.
PosAfter == IF reader.last = dump.blank THEN reader.pos ELSE reader.last

\* Reader.Ack
StreamAck ==
    /\ reader.pc = "ack"
    /\ \/ /\ ~TooOld /\ Round
          /\ reader' = [reader EXCEPT !.pc = "pull", !.quiet = @ + 1, !.age = @ + 1,
                                     !.pos = PosAfter]
       \/ (TooOld \/ Fails("read")) /\ GiveUp /\ UNCHANGED dump

\* No events: is the stream at its end?  maxPosition is the last event
\* written, or one before it; if it cannot be read, what it said before counts.
StillNow(top) == CASE top = "unknown"                    -> reader.still
                   [] top = "at" /\ reader.still = 0     -> 1
                   [] top = "at" /\ reader.still > 0     -> reader.still
                   [] top = "elsewhere"                  -> 0

Tops == {IF dump.written = reader.pos THEN "at" ELSE "elsewhere"}
          \cup (IF Fails("list") THEN {"unknown", "elsewhere"} ELSE {})

\* Mutant: the first look that finds the position at maxPosition is enough.
EnoughAtOnce(still) == still > 0 \/ reader.quiet >= IdleWait

\* A minute at maxPosition, or IdleTimeout without events.
Enough(still) == still > StableWait \/ reader.quiet >= IdleWait

StreamLook ==
    /\ reader.pc = "look"
    /\ \E top \in Tops :
          LET still == StillNow(top)
          IN IF Enough(still)
             THEN /\ reader' = [reader EXCEPT !.pc = "drop", !.good = TRUE]
                  /\ UNCHANGED dump
             ELSE IF TooOld
             THEN GiveUp /\ UNCHANGED dump
             ELSE /\ Round
                  /\ reader' = [reader EXCEPT !.pc = "pull", !.quiet = @ + 1,
                                  !.still = IF still = 0 THEN 0 ELSE still + 1,
                                  !.age = @ + 1]

\* The deferred DeleteStream; after a failure the stock task starts with an
\* empty cache and asks DSCO item by item.
StreamDrop ==
    /\ reader.pc = "drop"
    /\ \E gone \in (IF Fails("delete") THEN BOOLEAN ELSE {TRUE}) :
          /\ dump' = [dump EXCEPT !.exists = ~gone]
          /\ reader' = [reader EXCEPT
                          !.pc = IF reader.good THEN "ok" ELSE "failed",
                          !.cache = IF reader.good THEN @ ELSE NoCache,
                          !.leak = ~gone]

\* The next run of the stock task reads a stream of its own.
StreamAgain ==
    /\ reader.pc \in {"ok", "failed"}
    /\ dump' \in NewDump /\ reader' = ReaderIdle

StreamStep == \/ StreamStart \/ StreamSync \/ StreamWait \/ StreamPull \/ StreamHandle
              \/ StreamAck \/ StreamLook \/ StreamDrop

StreamNext == StreamStep \/ StreamAgain \/ DumpWrite

StreamVars == <<dump, reader>>

StreamSpec == StreamInit /\ [][StreamNext]_StreamVars

-----------------------------------------------------------------------------
(* Properties *)

Of(i) == {e \in 1..Events : dump.log[e] = i /\ e # dump.blank}

\* A read that ended well is complete and the last word: under the SKU of
\* every item the cache has the item's last event, although nothing marked
\* the end, events came in several pulls, an item came more than once or
\* its SKU is another item's partner SKU.  It takes a DSCO that did not
\* pause for as long as the reader waits.
StreamComplete ==
    Pause < StableWait /\ Pause < IdleWait /\ ~Late /\ reader.pc = "ok" =>
        \A i \in Items : \A e \in Of(i) : /\ reader.cache[i] >= e
                                         /\ reader.cache[i] \in Of(i)

\* Whatever fails on the way, the stream of a run that is over is deleted,
\* unless DSCO did not say that it created it or that it deleted it.
NoStreamLeft ==
    reader.pc \in {"ok", "failed"} => (dump.exists => reader.leak)

\* How far a run has to go within a round of its loop.
Place(pc) == CASE pc = "sync"            -> 6
               [] pc = "wait"            -> 5
               [] pc = "pull"            -> 4
               [] pc = "handle"          -> 3
               [] pc \in {"ack", "look"} -> 2
               [] pc = "drop"            -> 1
               [] OTHER                  -> 0

\* A run cannot go on for ever, also when an event without id makes it pull
\* the same events again and again: every step of it uses up some of its
\* time limit, or gets further within the round without giving time back, or
\* handles one more of the finitely many events of its pull.
StreamRunsOut ==
    [][reader' # reader /\ Place(reader.pc) > 0 =>
          \/ reader'.age \in (reader.age + 1)..Longest
          \/ reader'.age = reader.age /\ Place(reader'.pc) < Place(reader.pc)
          \/ /\ reader'.age = reader.age /\ reader.pc = "handle" /\ reader'.pc = "handle"
             /\ reader'.next = reader.next + 1 /\ reader'.next <= reader.last]_StreamVars
=============================================================================
