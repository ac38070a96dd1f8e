-------------------------------- MODULE Ide --------------------------------
(***************************************************************************)
(* The disk driver: ide_driver_thread and its interrupt handlers (ide.c),  *)
(* the direct-mapped write-back sector cache (cache.c) and the transfers   *)
(* that wait for the drive's interrupt (disk.c).                           *)
(*                                                                         *)
(* All messages come in one box: requests of clients, IDE_READY when the   *)
(* drive has finished a command, IDE_WRITEBACK every WRITEBACK_TIME        *)
(* seconds.  The thread runs with interrupts disabled until it blocks in   *)
(* receive(), so messages arrive only while it is blocked, or is ready and *)
(* others still run.                                                       *)
(*                                                                         *)
(* ideal is what the clients have written so far, byte by byte.            *)
(***************************************************************************)
EXTENDS Integers, Sequences, SequencesExt

CONSTANTS Clients,        \* threads that use the disk, one request at a time
          Intr,           \* MSG_HARD_INTR
          NSectors,       \* sectors of the disk
          SectorSize,     \* bytes of a sector
          NR_SEC_CACHE,   \* slots of the cache
          MaxLen,         \* bound: bytes of a request
          MaxBox,         \* bound: messages in the box
          Bytes           \* the values of a byte

ASSUME IdeAssumption ==
  /\ Intr \notin Clients
  /\ {NSectors, SectorSize, NR_SEC_CACHE, MaxLen, MaxBox} \subseteq Nat \ {0}
  /\ 0 \in Bytes

Sectors == 0..(NSectors - 1)
Offsets == 0..(NSectors * SectorSize - 1)
Slots   == 0..(NR_SEC_CACHE - 1)

Slot(sector)   == sector % NR_SEC_CACHE
SectorOf(byte) == byte \div SectorSize

Blank == [b \in 0..(SectorSize - 1) |-> 0]

VARIABLES
  cache,    \* per slot: sector, used, dirty and content
  disk,     \* per sector: what the drive holds
  command,  \* what the drive is doing: op and sector, op = "none" for nothing
  box,      \* the message box of the driver thread
  blocked,  \* the thread has gone to sleep in receive()
  pc,       \* where the thread is: see the steps
  wb,       \* cache_writeback(): the slot it has come to
  req,      \* the request in hand
  done,     \* bytes of it done
  data,     \* bytes read for it
  busy,     \* clients waiting for an answer
  ideal,    \* history: per offset the byte last written
  halted    \* a panic

thread == <<wb, req, done, data>>
ivars  == <<cache, disk, command, box, blocked, pc, thread, busy, ideal, halted>>

Requests == [src : Clients, type : {"DEV_READ"}, offset : Offsets, len : 1..MaxLen, byte : {0}]
            \cup [src : Clients, type : {"DEV_WRITE"}, offset : Offsets, len : 1..MaxLen, byte : Bytes]

InterruptMsg(type) == [src |-> Intr, type |-> type, offset |-> 0, len |-> 0, byte |-> 0]

NoCommand == [op |-> "none", sector |-> 0]
-----------------------------------------------------------------------------
(* receive() *)

\* The points at which the thread calls receive(): ANY in its loop, else Intr.
AtReceive == pc \in {"loop", "evict", "fill", "flush"}

Suits(m) == pc = "loop" \/ m.src = Intr

Ready == \E k \in 1..Len(box) : Suits(box[k])

First == CHOOSE k \in 1..Len(box) : Suits(box[k]) /\ \A j \in 1..(k - 1) : ~Suits(box[j])

Block ==
  /\ ~halted /\ AtReceive /\ ~blocked /\ ~Ready
  /\ blocked' = TRUE
  /\ UNCHANGED <<cache, disk, command, box, pc, thread, busy, ideal, halted>>

Got == box[First]

Receive ==
  /\ ~halted /\ AtReceive /\ Ready
  /\ box' = RemoveAt(box, First)
  /\ blocked' = FALSE
-----------------------------------------------------------------------------
(* ide_driver_thread *)

\* The top of the loop.  IDE_READY outside a transfer is a panic: "IDE interrupt
\* is leaking".
Dispatch ==
  /\ pc = "loop" /\ Receive
  /\ CASE Got.type = "IDE_READY" ->
            halted' = TRUE /\ UNCHANGED <<pc, thread>>
       [] Got.type = "IDE_WRITEBACK" ->
            pc' = "writeback" /\ wb' = 0 /\ UNCHANGED <<req, done, data, halted>>
       [] OTHER ->
            pc' = "serve" /\ req' = Got /\ done' = 0 /\ data' = <<>> /\ UNCHANGED <<wb, halted>>
  /\ UNCHANGED <<cache, disk, command, busy, ideal>>

\* The byte the request has come to, and where it is cached.
Offset == req.offset + done
Target == SectorOf(Offset)
Hit == cache[Slot(Target)].used /\ cache[Slot(Target)].sector = Target
NeedsWriteback == cache[Slot(Target)].used /\ cache[Slot(Target)].dirty

Serving == ~halted /\ pc = "serve" /\ done < req.len

\* Mutant: the slot is not marked.
WriteByteClean ==
  /\ cache' = [cache EXCEPT ![Slot(Target)].content[Offset % SectorSize] = req.byte]
  /\ ideal' = [ideal EXCEPT ![Offset] = req.byte]
  /\ UNCHANGED data

WriteByte ==
  /\ cache' = [cache EXCEPT ![Slot(Target)].content[Offset % SectorSize] = req.byte,
                            ![Slot(Target)].dirty = TRUE]
  /\ ideal' = [ideal EXCEPT ![Offset] = req.byte]
  /\ UNCHANGED data

ReadByte ==
  /\ data' = Append(data, cache[Slot(Target)].content[Offset % SectorSize])
  /\ UNCHANGED <<cache, ideal>>

\* read_byte() and write_byte() of a sector in the cache.
ServeByte ==
  /\ Serving /\ Hit
  /\ IF req.type = "DEV_READ" THEN ReadByte ELSE WriteByte
  /\ done' = done + 1
  /\ UNCHANGED <<disk, command, box, blocked, pc, wb, req, busy, halted>>

Issue(op, sector, next) ==
  /\ command' = [op |-> op, sector |-> sector]
  /\ pc' = next
  /\ UNCHANGED <<cache, disk, box, blocked, thread, busy, ideal, halted>>

\* Mutant: a dirty sector is overwritten.
MissForgets ==
  /\ Serving /\ ~Hit
  /\ Issue("read", Target, "fill")

\* cache_fetch() of another sector: the old one goes back first if dirty.
Miss ==
  /\ Serving /\ ~Hit
  /\ IF NeedsWriteback THEN Issue("write", cache[Slot(Target)].sector, "evict")
                       ELSE Issue("read", Target, "fill")

\* The answer: all bytes are done.
Answer ==
  /\ ~halted /\ pc = "serve" /\ done = req.len
  /\ busy' = busy \ {req.src}
  /\ pc' = "loop"
  /\ UNCHANGED <<cache, disk, command, box, blocked, thread, ideal, halted>>

\* Mutant: the last slot is left out.
WritebackShort ==
  /\ ~halted /\ pc = "writeback"
  /\ CASE wb >= NR_SEC_CACHE - 1 ->
            pc' = "loop" /\ UNCHANGED <<cache, disk, command, box, blocked, thread, busy, ideal, halted>>
       [] wb < NR_SEC_CACHE - 1 /\ cache[wb].dirty -> Issue("write", cache[wb].sector, "flush")
       [] OTHER -> /\ wb' = wb + 1
                   /\ UNCHANGED <<cache, disk, command, box, blocked, pc, req, done, data, busy, ideal, halted>>

\* cache_writeback(): the next slot, or the end of the loop.
Writeback ==
  /\ ~halted /\ pc = "writeback"
  /\ CASE wb = NR_SEC_CACHE ->
            pc' = "loop" /\ UNCHANGED <<cache, disk, command, box, blocked, thread, busy, ideal, halted>>
       [] wb < NR_SEC_CACHE /\ cache[wb].dirty -> Issue("write", cache[wb].sector, "flush")
       [] OTHER -> /\ wb' = wb + 1
                   /\ UNCHANGED <<cache, disk, command, box, blocked, pc, req, done, data, busy, ideal, halted>>
-----------------------------------------------------------------------------
(* disk_do_read() and disk_do_write(): wait until IDE_READY *)

\* do { receive(MSG_HARD_INTR, &m); } while (m.type != IDE_READY);
SkipMessage ==
  /\ pc # "loop" /\ Receive /\ Got.type # "IDE_READY"
  /\ UNCHANGED <<cache, disk, command, pc, thread, busy, ideal, halted>>

\* Mutant: the read is not issued.
EvictDoneNoRead ==
  /\ pc = "evict" /\ Receive /\ Got.type = "IDE_READY"
  /\ pc' = "fill"
  /\ UNCHANGED <<cache, disk, command, thread, busy, ideal, halted>>

\* The old sector of the slot is written: now the read.
EvictDone ==
  /\ pc = "evict" /\ Receive /\ Got.type = "IDE_READY"
  /\ command' = [op |-> "read", sector |-> Target]
  /\ pc' = "fill"
  /\ UNCHANGED <<cache, disk, thread, busy, ideal, halted>>

\* Mutant: any interrupt ends the wait.
FillDoneAny ==
  /\ pc = "fill" /\ Receive
  /\ cache' = [cache EXCEPT ![Slot(Target)] = [sector |-> Target, used |-> TRUE, dirty |-> FALSE,
                                               content |-> disk[Target]]]
  /\ pc' = "serve"
  /\ UNCHANGED <<disk, command, thread, busy, ideal, halted>>

FillDone ==
  /\ pc = "fill" /\ Receive /\ Got.type = "IDE_READY"
  /\ cache' = [cache EXCEPT ![Slot(Target)] = [sector |-> Target, used |-> TRUE, dirty |-> FALSE,
                                               content |-> disk[Target]]]
  /\ pc' = "serve"
  /\ UNCHANGED <<disk, command, thread, busy, ideal, halted>>

FlushDone ==
  /\ pc = "flush" /\ Receive /\ Got.type = "IDE_READY"
  /\ cache' = [cache EXCEPT ![wb].dirty = FALSE]
  /\ pc' = "writeback" /\ wb' = wb + 1
  /\ UNCHANGED <<disk, command, req, done, data, busy, ideal, halted>>
-----------------------------------------------------------------------------
(* Outside the thread. *)

Deliver(m) ==
  /\ ~halted /\ blocked /\ Len(box) < MaxBox
  /\ box' = Append(box, m)
  /\ UNCHANGED <<cache, disk, blocked, pc, thread, ideal, halted>>

\* A client calls dev_read() or dev_write().
Ask(m) ==
  /\ m.src \notin busy /\ m.offset + m.len <= NSectors * SectorSize
  /\ Deliver(m)
  /\ busy' = busy \cup {m.src}
  /\ UNCHANGED command

\* time_intr(), when its counter is zero again.
TimeIntr == Deliver(InterruptMsg("IDE_WRITEBACK")) /\ UNCHANGED <<command, busy>>

\* The drive finishes its command and interrupts: ide_intr().
IdeIntr ==
  /\ ~halted /\ blocked /\ command # NoCommand /\ Len(box) < MaxBox
  /\ disk' = IF command.op = "write"
             THEN [disk EXCEPT ![command.sector] = cache[Slot(command.sector)].content] ELSE disk
  /\ command' = NoCommand
  /\ box' = Append(box, InterruptMsg("IDE_READY"))
  /\ UNCHANGED <<cache, blocked, pc, thread, busy, ideal, halted>>
-----------------------------------------------------------------------------
IInit ==
  /\ disk = [s \in Sectors |-> Blank] /\ ideal = [o \in Offsets |-> 0]
  /\ cache = [s \in Slots |-> [sector |-> 0, used |-> FALSE, dirty |-> FALSE, content |-> Blank]]
  /\ command = NoCommand /\ box = <<>> /\ blocked = FALSE
  /\ pc = "loop" /\ wb = 0 /\ done = 0 /\ data = <<>>
  /\ req = InterruptMsg("IDE_READY")     \* none
  /\ busy = {} /\ halted = FALSE

Thread ==
  \/ Block \/ Dispatch \/ ServeByte \/ Miss \/ Answer
  \/ Writeback \/ SkipMessage \/ EvictDone \/ FillDone \/ FlushDone

INext == Thread \/ (\E m \in Requests : Ask(m)) \/ TimeIntr \/ IdeIntr

ISpec == IInit /\ [][INext]_ivars

\* The thread gets its turn, the drive finishes, and the clock ticks; the
\* interrupt controller keeps an interrupt until it can be taken.
FairISpec == ISpec /\ WF_ivars(Thread) /\ SF_ivars(IdeIntr) /\ SF_ivars(TimeIntr)
-----------------------------------------------------------------------------
(* Properties. *)

\* The disk as a client sees it: the cached copy of a sector, or the sector.
View(o) ==
  LET s == SectorOf(o)
  IN IF cache[Slot(s)].used /\ cache[Slot(s)].sector = s
     THEN cache[Slot(s)].content[o % SectorSize] ELSE disk[s][o % SectorSize]

(* Whatever is cached, evicted, filled or written back, in whatever order: the
   disk seen through the cache holds the byte last written at every offset, and
   a read collects those bytes. *)
ReadsSeeWrites ==
  /\ \A o \in Offsets : View(o) = ideal[o]
  /\ req.type = "DEV_READ" => \A k \in 1..Len(data) : data[k] = ideal[req.offset + k - 1]

(* A slot that is not dirty agrees with the disk, so dropping it loses nothing,
   and no two slots hold the same sector. *)
CleanSlotsAgree ==
  \A s \in Slots :
    /\ cache[s].used => Slot(cache[s].sector) = s
    /\ cache[s].used /\ ~cache[s].dirty => cache[s].content = disk[cache[s].sector]

(* The panic "IDE interrupt is leaking" cannot happen: IDE_READY is in the box
   only while a transfer waits for it, and then the drive is idle. *)
NoLeakingInterrupt ==
  /\ ~halted
  /\ \A k \in 1..Len(box) : box[k].type = "IDE_READY" =>
       /\ pc \in {"evict", "fill", "flush"} /\ command = NoCommand
       /\ \A j \in 1..Len(box) : box[j].type = "IDE_READY" => j = k

(* When cache_writeback() returns, no slot is dirty. *)
WritebackCleans ==
  [][pc = "writeback" /\ pc' = "loop" => \A s \in Slots : ~cache'[s].dirty]_ivars

(* Every request is answered, whatever interrupts come while it is served. *)
RequestsComplete == \A c \in Clients : c \in busy ~> c \notin busy

(* "the IDE driver needs to write back dirty cache slots periodically"
   (irq_handle.c), "writeback cache for every 1 second" (ide.c): with a clock
   that keeps ticking, a slot does not stay dirty for ever. *)
DirtySlotsWrittenBack == \A s \in Slots : cache[s].dirty ~> ~cache[s].dirty
=============================================================================
