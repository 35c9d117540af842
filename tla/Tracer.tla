------------------------------- MODULE Tracer -------------------------------
(***************************************************************************)
(* The kernel side (filetrace.bpf.c): the hooks that run in the context of *)
(* the traced tasks and the BPF ring buffer they publish events through.   *)
(*                                                                         *)
(* A hook first reserves a record, then fills it, then submits or discards *)
(* it; hooks of other tasks and the consumer run in between.  Reserving is *)
(* serialised by the ring buffer's spinlock.  recs holds every record ever *)
(* reserved, in reservation order; records 1..consumed have been given     *)
(* back by the consumer, so the ring holds records consumed+1..Len(recs).  *)
(* A hook that returns early (self filter, kernel thread, read-only mask,  *)
(* full ring) changes nothing and so has no action.                        *)
(***************************************************************************)
EXTENDS Paths, FiniteSets

CONSTANTS
  Tasks,       \* the threads that run hooks: records in TaskType
  Calls,       \* the system calls they may make: records in CallType
  SelfTgid,    \* self_tgid, written before the programs are loaded
  RingSlots,   \* how many events fit in the ring buffer
  NewKernel,   \* built for 6.6 or later: trace_write instead of write
  MaxRecords   \* bound of the model on the number of records reserved

FileOps   == {"write", "copy_file_range"}
RenameOps == {"rename", "renameat", "renameat2"}
PathOps   == {"openat", "unlinkat"} \cup RenameOps
Ops       == FileOps \cup PathOps

None == <<Root>>    \* a NULL file or dentry: no real one has an empty name

(* A thread: the process it belongs to, whether it is a kernel thread, its *)
(* comm, and whether the 15 bytes the kernel keeps of that name are valid  *)
(* UTF-8 (the cut may fall inside a character).                            *)
TaskType == [tid: Nat, tgid: Nat, kthread: BOOLEAN, comm: Names, utf8: BOOLEAN]

(* A call.  arg is the (new) path argument, base the dentry it is relative *)
(* to; file is the open file's dentry, mount where its file system is      *)
(* mounted; regular, maywrite: type of the file (the root of a file system *)
(* is a directory, so never regular), permission asked for;                *)
(* oldutf8: whether a rename's old path, and the directory names renameat2 *)
(* sends along, are valid UTF-8.                                           *)
CallType == [op: Ops, arg: Path, base: Path, file: Path, mount: Path,
             regular: BOOLEAN, maywrite: BOOLEAN, oldutf8: BOOLEAN]

(* struct event, reduced to what user space looks at. *)
EventType == [op: Ops, pid: Nat, comm: Names, name: Path, dirs: Path,
              cmdutf8: BOOLEAN, oldutf8: BOOLEAN]

(* A record: the state of its ring-buffer header, its event, and the task  *)
(* and call it is about (which the code does not store).                   *)
RecordType == [state: {"busy", "ready", "discarded"}, ev: EventType,
               task: Tasks, call: Calls]

ASSUME TracerAssumption ==
  /\ Tasks \subseteq TaskType
  /\ Calls \subseteq CallType
  /\ \A c \in Calls : c.op \in FileOps /\ c.regular => c.file # <<>>
  /\ SelfTgid \in Nat \ {0}
  /\ RingSlots \in Nat \ {0}
  /\ NewKernel \in BOOLEAN
  /\ MaxRecords \in Nat

VARIABLES
  recs,      \* every record reserved so far
  consumed,  \* the consumer position, counted in records
  hook       \* hook[t]: the record thread t's hook is filling, 0 if none

tracerVars == <<recs, consumed, hook>>

TracerInit ==
  /\ recs = <<>>
  /\ consumed = 0
  /\ hook = [t \in Tasks |-> 0]
-----------------------------------------------------------------------------
(* The tests a hook makes before it asks for a record: trace_write returns *)
(* unless MAY_WRITE is in the mask, the older write hook returns for a     *)
(* kernel thread.                                                          *)
Traced(t, c) ==
  c.op = "write" => IF NewKernel THEN c.maywrite ELSE ~t.kthread

(* bpf_create_ringbuf: not for the tracer's own process. *)
NotSelf(t) == t.tgid # SelfTgid

(* bpf_ringbuf_reserve fails when the ring is full. *)
RingHasRoom == Len(recs) - consumed < RingSlots

(* The memset event: nothing filled in yet but the syscall flag. *)
ZeroEvent(op) == [op |-> op, pid |-> 0, comm |-> Root, name |-> <<>>,
                  dirs |-> <<>>, cmdutf8 |-> TRUE, oldutf8 |-> TRUE]

(* A hook starts: thread t makes call c and gets a record for it. *)
Reserve(t, c) ==
  /\ hook[t] = 0
  /\ Len(recs) < MaxRecords
  /\ Traced(t, c)
  /\ NotSelf(t)
  /\ RingHasRoom
  /\ recs' = Append(recs, [state |-> "busy", ev |-> ZeroEvent(c.op),
                           task |-> t, call |-> c])
  /\ hook' = [hook EXCEPT ![t] = Len(recs) + 1]
  /\ UNCHANGED consumed

(* create_file_event and the write hooks give up on what is not an open    *)
(* regular file; for a NULL file the older write hook reads a zero mode.   *)
GivesUp(c) == c.op \in FileOps /\ (c.file = None \/ ~c.regular)

(* The directory fields each hook fills.  unlinkat looks at the name it    *)
(* read to decide; renameat2 walks up from the working directory, which it *)
(* thereby leaves out, only when newdfd is AT_FDCWD (base is None          *)
(* otherwise).                                                             *)
DirsOf(c, name) ==
  CASE c.op \in FileOps    -> FillParentDirs(c.file)
    [] c.op = "unlinkat"   -> IF IsAbsolute(name) \/ c.base = None
                                THEN <<>> ELSE FillDirChain(c.base)
    [] c.op = "renameat2"  -> IF c.base = None THEN <<>> ELSE FillParentDirs(c.base)
    [] OTHER               -> <<>>

(* The event a hook submits.  name is the basename of an open file, or the *)
(* path argument as the probe read it.                                     *)
Filled(t, c, name) ==
  [op |-> c.op, pid |-> t.tgid, comm |-> t.comm, name |-> name,
   dirs |-> DirsOf(c, name), cmdutf8 |-> t.utf8, oldutf8 |-> c.oldutf8]

(* What the probe may read as the name: an argument whose page is not      *)
(* resident cannot be read in the hook and leaves the field empty.         *)
NameReads(c) == IF c.op \in FileOps THEN {DName(c.file)} ELSE {c.arg, <<>>}

(* bpf_ringbuf_submit. *)
Submit(t) ==
  /\ hook[t] # 0
  /\ ~GivesUp(recs[hook[t]].call)
  /\ \E name \in NameReads(recs[hook[t]].call) :
       recs' = [recs EXCEPT ![hook[t]].state = "ready",
                            ![hook[t]].ev = Filled(t, recs[hook[t]].call, name)]
  /\ hook' = [hook EXCEPT ![t] = 0]
  /\ UNCHANGED consumed

(* Faulty versions, named Bad..., stand before what they replace: no action *)
(* uses them; they are there to show that the properties would notice.      *)
BadDiscardForgotten(t) ==
  /\ hook[t] # 0
  /\ GivesUp(recs[hook[t]].call)
  /\ hook' = [hook EXCEPT ![t] = 0]
  /\ UNCHANGED <<recs, consumed>>

(* No return after bpf_ringbuf_discard: the hook goes on and submits. *)
BadDiscardGoesOn(t) ==
  /\ hook[t] # 0
  /\ GivesUp(recs[hook[t]].call)
  /\ \/ /\ recs[hook[t]].state = "busy"
        /\ recs' = [recs EXCEPT ![hook[t]].state = "discarded"]
        /\ UNCHANGED hook
     \/ /\ recs[hook[t]].state = "discarded"
        /\ recs' = [recs EXCEPT ![hook[t]].state = "ready"]
        /\ hook' = [hook EXCEPT ![t] = 0]
  /\ UNCHANGED consumed

(* bpf_ringbuf_discard. *)
Discard(t) ==
  /\ hook[t] # 0
  /\ GivesUp(recs[hook[t]].call)
  /\ recs' = [recs EXCEPT ![hook[t]].state = "discarded"]
  /\ hook' = [hook EXCEPT ![t] = 0]
  /\ UNCHANGED consumed
-----------------------------------------------------------------------------
(* The consumer end, as ring_buffer__poll drives it: the record at the     *)
(* consumer position is looked at only once it is no longer busy, and its  *)
(* space is given back after the callback returned.                        *)
HeadIs(state) == consumed < Len(recs) /\ recs[consumed + 1].state = state

HeadEvent == recs[consumed + 1].ev

Release == consumed' = consumed + 1 /\ UNCHANGED <<recs, hook>>

(* A discarded record is stepped over without a callback. *)
SkipDiscarded == HeadIs("discarded") /\ Release
=============================================================================
