---------------------------- MODULE ConfigStore ----------------------------
(***************************************************************************)
(* The monitored list in memory and in the configuration file (post.cpp):  *)
(* the HTTP worker threads that run update_config for POST /filetrace,     *)
(* load_config when the process starts, and the end of the process at any  *)
(* moment.  Requests that are refused with 400 change nothing.             *)
(*                                                                         *)
(* A list is the set of its paths: update_config removes every copy of a   *)
(* path, and readers ask only whether a path is in the list or whether the *)
(* list is empty.  The parsed object config_json_obj holds the same list   *)
(* whenever config_mutex is free, and the other keys never change.         *)
(***************************************************************************)
EXTENDS Paths

CONSTANTS
  Workers,       \* HTTP worker threads
  NoWorker,      \*   and what is none of them
  Confs,         \* the paths clients send in "conf"
  InitialList,   \* the list in the configuration file at first
  MaxDirLevel,   \* max_dir_level
  MaxUpdates     \* bound of the model on the number of updates

(* A file holds a whole configuration with this list, or one cut short. *)
Whole(list) == [whole |-> TRUE, list |-> list]
Broken      == [whole |-> FALSE, list |-> {}]
FileType    == [whole : BOOLEAN, list : SUBSET Path]

(* load_config's checks that depend on the list. *)
Loads(file) ==
  /\ file.whole
  /\ file.list # {}
  /\ \A path \in file.list : GetDirLevel(path) \in 0..MaxDirLevel

ASSUME ConfigStoreAssumption ==
  /\ NoWorker \notin Workers
  /\ Confs \subseteq Path
  /\ InitialList \subseteq Path
  /\ MaxDirLevel \in Nat \ {0}
  /\ MaxUpdates \in Nat
  /\ Loads(Whole(InitialList))

VARIABLES
  up,          \* the process is running
  conf_list,   \* the list in memory
  mutex,       \* the worker that holds config_mutex, or NoWorker
  at,          \* at[w]: what worker w does next inside update_config
  tmp,         \* the file beside the configuration file
  disk,        \* the configuration file
  updates,     \* the updates made, in the order they took the mutex, with
               \*   what became of them
  lost_write   \* a write to the tmp file has failed, which no one checks

vars == <<up, conf_list, mutex, at, tmp, disk, updates, lost_write>>

Actions  == {"add", "remove"}
Outcomes == {"pending", "ok", "failed", "lost"}
UpdateType == [conf : Confs, action : Actions, outcome : Outcomes]

Init ==
  /\ up = TRUE
  /\ conf_list = InitialList
  /\ mutex = NoWorker
  /\ at = [w \in Workers |-> "idle"]
  /\ tmp = Broken
  /\ disk = Whole(InitialList)
  /\ updates = <<>>
  /\ lost_write = FALSE
-----------------------------------------------------------------------------
Changed(list, action, conf) ==
  IF action = "add" THEN list \cup {conf} ELSE list \ {conf}

(* Faulty versions, named Bad..., stand before what they replace: no action *)
(* uses them; they are there to show that the properties would notice.      *)
BadUpdateUnlocked(w, action, conf) ==
  /\ up
  /\ at[w] = "idle"
  /\ Len(updates) < MaxUpdates
  /\ mutex' = w
  /\ conf_list' = Changed(conf_list, action, conf)
  /\ updates' = Append(updates, [conf |-> conf, action |-> action, outcome |-> "pending"])
  /\ at' = [at EXCEPT ![w] = "open"]
  /\ UNCHANGED <<up, tmp, disk, lost_write>>

(* update_config takes the mutex and changes the list in memory. *)
Update(w, action, conf) ==
  /\ up
  /\ at[w] = "idle"
  /\ Len(updates) < MaxUpdates
  /\ mutex = NoWorker
  /\ mutex' = w
  /\ conf_list' = Changed(conf_list, action, conf)
  /\ updates' = Append(updates, [conf |-> conf, action |-> action, outcome |-> "pending"])
  /\ at' = [at EXCEPT ![w] = "open"]
  /\ UNCHANGED <<up, tmp, disk, lost_write>>

(* The last update taken ends: 200 for "ok", 500 for "failed". *)
Settle(outcome) == updates' = [updates EXCEPT ![Len(updates)].outcome = outcome]

(* update_config returns, which gives the mutex back. *)
Return(w, outcome) ==
  /\ Settle(outcome)
  /\ mutex' = NoWorker
  /\ at' = [at EXCEPT ![w] = "idle"]

(* The tmp file is opened and truncated. *)
OpenTmp(w) ==
  /\ at[w] = "open"
  /\ tmp' = Broken
  /\ at' = [at EXCEPT ![w] = "write"]
  /\ UNCHANGED <<up, conf_list, mutex, disk, updates, lost_write>>

BadOpenKeepsLock(w) ==
  /\ at[w] = "open"
  /\ Settle("failed")
  /\ at' = [at EXCEPT ![w] = "idle"]
  /\ UNCHANGED <<up, conf_list, mutex, tmp, disk, lost_write>>

(* It cannot be opened: the change made in memory stays. *)
OpenFails(w) ==
  /\ at[w] = "open"
  /\ Return(w, "failed")
  /\ UNCHANGED <<up, conf_list, tmp, disk, lost_write>>

(* The whole object is written and the file closed; neither is checked.    *)
WriteTmp(w) ==
  /\ at[w] = "write"
  /\ \/ tmp' = Whole(conf_list) /\ UNCHANGED lost_write
     \/ tmp' = Broken /\ lost_write' = TRUE
  /\ at' = [at EXCEPT ![w] = "rename"]
  /\ UNCHANGED <<up, conf_list, mutex, disk, updates>>

(* The tmp file replaces the configuration file, atomically. *)
RenameTmp(w) ==
  /\ at[w] = "rename"
  /\ disk' = tmp
  /\ tmp' = Broken
  /\ Return(w, "ok")
  /\ UNCHANGED <<up, conf_list, lost_write>>

(* The result of rename is not looked at. *)
BadRenameIgnored(w) ==
  /\ at[w] = "rename"
  /\ Return(w, "ok")
  /\ UNCHANGED <<up, conf_list, tmp, disk, lost_write>>

RenameFails(w) ==
  /\ at[w] = "rename"
  /\ Return(w, "failed")
  /\ UNCHANGED <<up, conf_list, tmp, disk, lost_write>>

(* The process ends, by a signal or an exception, at any point; an update  *)
(* under way is never answered.                                            *)
Crash ==
  /\ up
  /\ up' = FALSE
  /\ conf_list' = {}
  /\ IF mutex = NoWorker THEN UNCHANGED updates ELSE Settle("lost")
  /\ mutex' = NoWorker
  /\ at' = [w \in Workers |-> "idle"]
  /\ UNCHANGED <<tmp, disk, lost_write>>

(* The service manager starts it again; a file that load_config refuses    *)
(* ends the new process before it does anything else.                      *)
Start ==
  /\ ~up
  /\ Loads(disk)
  /\ up' = TRUE
  /\ conf_list' = disk.list
  /\ UNCHANGED <<mutex, at, tmp, disk, updates, lost_write>>

Persist(w) ==
  OpenTmp(w) \/ OpenFails(w) \/ WriteTmp(w) \/ RenameTmp(w) \/ RenameFails(w)

Next ==
  \/ \E w \in Workers :
       Persist(w) \/ \E action \in Actions, conf \in Confs : Update(w, action, conf)
  \/ Crash
  \/ Start

(* A worker inside update_config only makes system calls that return. *)
Fairness == \A w \in Workers : WF_vars(Persist(w))

Spec     == Init /\ [][Next]_vars
LiveSpec == Spec /\ Fairness
-----------------------------------------------------------------------------
TypeOK ==
  /\ up \in BOOLEAN
  /\ conf_list \subseteq Path
  /\ mutex \in Workers \cup {NoWorker}
  /\ at \in [Workers -> {"idle", "open", "write", "rename"}]
  /\ \A w \in Workers : at[w] # "idle" <=> mutex = w
  /\ tmp \in FileType
  /\ disk \in FileType
  /\ updates \in Seq(UpdateType)
  /\ lost_write \in BOOLEAN

(* The configuration file is whole after every step of every worker and    *)
(* after the process ended anywhere inside update_config, unless a write   *)
(* failed: a file cut short is never put in its place because two updates  *)
(* overlap or a process died between two steps (the mutex and the rename   *)
(* of update_config).                                                      *)
FileIsWhole == disk.whole \/ lost_write

(* The last update of a path k that nothing later named again. *)
Latest(k) == \A l \in k+1..Len(updates) : updates[l].conf # updates[k].conf

InForce(u, list) == u.conf \in list <=> u.action = "add"

(* An update answered with 200 is in force, in memory and in the file,     *)
(* until another request names the same path: neither the updates of other *)
(* workers, nor one that fails, nor the end of the process and a restart   *)
(* undo it (update_config, load_config).  The exception is a file cut      *)
(* short: the write is not checked, so a 200 may be given for a change     *)
(* that no file holds.  Of such a file nothing is said; but the first whole *)
(* file that replaces it, written for a later update, holds that change    *)
(* too.                                                                    *)
AckedInForce ==
  \A k \in 1..Len(updates) :
    updates[k].outcome = "ok" /\ Latest(k) =>
      /\ up => InForce(updates[k], conf_list)
      /\ disk.whole => InForce(updates[k], disk.list)

(* The store keeps the promise of DurableList: although workers overlap,   *)
(* steps fail and the process may end anywhere, each request is one change *)
(* of one list, a 200 is given when the file holds it or was lost whole,   *)
(* and a restart goes on from the file (update_config, load_config).       *)
Acked == {k \in 1..Len(updates) : updates[k].outcome = "ok"}

Durable == INSTANCE DurableList WITH
  Items <- Confs, running <- up, list <- conf_list, stored <- disk.list,
  readable <- disk.whole, requests <- Len(updates), acked <- Acked

KeepsDurableList == Durable!DurableSpec

(* config_mutex is given back whichever step of update_config fails, so    *)
(* that the polling thread, which takes it for every event, goes on        *)
(* (update_config, compare_config_file).                                   *)
MutexIsFreed == []<>(mutex = NoWorker)
-----------------------------------------------------------------------------
(* What comments and tests of the repository say, and the code does not do. *)

(* tests/test_postdata.cpp:230: the list in memory stays in sync with the  *)
(* file.  It is changed before the file can be opened, and the change stays *)
(* when a step fails and the answer is 500.  Writes that fail unnoticed are *)
(* left out: they are another matter.                                      *)
InSync == up /\ mutex = NoWorker => lost_write \/ disk = Whole(conf_list)

(* tests/test_postdata.cpp:346-362, post.cpp:147-173: an empty list and a  *)
(* path too deep or relative are not lists to run with, so no update that  *)
(* was written whole leaves one behind (update_config checks none of it).  *)
FileLoads == lost_write \/ Loads(disk)
=============================================================================
