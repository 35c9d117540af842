----------------------------- MODULE MCPipeline -----------------------------
(***************************************************************************)
(* A small instance of the pipeline for TLC.  Events carry two directory   *)
(* names instead of four, so that a path of four components is already     *)
(* deeper than what an event can hold.                                     *)
(***************************************************************************)
EXTENDS Pipeline

Task(tid, tgid, comm, utf8) ==
  [tid |-> tid, tgid |-> tgid, kthread |-> FALSE, comm |-> comm, utf8 |-> utf8]

Editor == Task(11, 10, "vim", TRUE)
Copier == Task(20, 20, "cp", TRUE)
Cut    == Task(30, 30, "cut", FALSE)
Rotate == Task(31, 31, "logrotate", TRUE)
Own    == Task(41, 40, "gala-filetrace", TRUE)
Kernel == [Task(2, 2, "kworker", TRUE) EXCEPT !.kthread = TRUE]

Call(op) == [op |-> op, arg |-> <<>>, base |-> None, file |-> None, mount |-> <<>>,
             regular |-> TRUE, maywrite |-> TRUE, oldutf8 |-> TRUE]
Write(file)        == [Call("write") EXCEPT !.file = file]
Copy(file)         == [Call("copy_file_range") EXCEPT !.file = file]
Unlink(base, arg)  == [Call("unlinkat") EXCEPT !.base = base, !.arg = arg]
Rename(op, arg)    == [Call(op) EXCEPT !.arg = arg]

AllNames == {"", "etc", "hosts", "fstab", "srv", "a", "x", ".hosts", "vim", "cut",
             "gala-filetrace", "logrotate", "kworker"}

Hosts   == <<"etc", "hosts">>
Deep    == <<"srv", "etc", "hosts">>
Deeper  == <<"a", "srv", "etc", "hosts">>
Path1   == <<Root>> \o Hosts
Path2   == <<"", "etc", "fstab">>

(* Everything on: an ordinary process, one whose command name is cut inside *)
(* a character, and the tracer itself; the list changes under the events.   *)
SafeTasks == {Editor, Cut, Own}
SafeCalls == {Write(Hosts), Write(Deep), Copy(None),
              Unlink(<<"etc">>, <<"hosts">>), Unlink(<<"srv", "etc">>, <<"hosts">>),
              [Rename("rename", Path1) EXCEPT !.oldutf8 = FALSE]}
OneList   == {Path1}
FstabList == {Path2}
NoPaths   == {}
OneCount  == {0}
Dots      == {".", "..", ".hosts"}
Skipped   == {"logrotate"}

(* Verbose mode on an older kernel, with every kind of call: the outputs    *)
(* are off, so there is room for more of them.                              *)
VerboseTasks == {Editor, Rotate, Kernel}
VerboseCalls == {Write(Hosts), Write(Deeper), Write(<<"etc", ".hosts">>),
                 Write(<<"etc", "fstab">>), Copy(Deep), Copy(None),
                 [Write(Hosts) EXCEPT !.regular = FALSE],
                 Unlink(<<"etc">>, <<"hosts">>), Unlink(<<"etc", "x">>, <<"hosts">>),
                 Unlink(None, <<"hosts">>), Unlink(None, Path1),
                 Rename("rename", Path1), Rename("renameat", <<"hosts">>),
                 [Rename("renameat2", <<"hosts">>) EXCEPT !.base = <<"etc">>],
                 Rename("renameat2", Path1), Rename("openat", Path1)}

(* Liveness, and the cache behind the polling thread: two threads that      *)
(* overlap in the ring; records that are discarded, accepted, rejected (a   *)
(* rename whose path cannot be read) or cannot be dumped; and as many of    *)
(* them that the queue overflows while two requests are being answered.     *)
LiveTasks  == {Editor, Cut}
LiveCalls  == {Write(Hosts), Copy(None), [Rename("rename", Path1) EXCEPT !.oldutf8 = FALSE]}
BothCounts == {0, 2}

(* One thread, for the statements that fail. *)
OneTask   == {Editor}
WriteOnly == {Write(Hosts), Write(Deep)}
MoveOnly  == {[Rename("renameat2", <<"hosts">>) EXCEPT !.base = <<"etc">>]}
=============================================================================
