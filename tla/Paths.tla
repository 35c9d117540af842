------------------------------- MODULE Paths -------------------------------
(***************************************************************************)
(* How gala-filetrace turns the kernel's view of a file into the string    *)
(* it compares with its monitored list (filetrace.bpf.c, post.cpp).        *)
(*                                                                         *)
(* A path string is the sequence of its components between slashes:        *)
(* "/etc/hosts" is <<"", "etc", "hosts">>, "sub/hosts" is                  *)
(* <<"sub", "hosts">> and the empty string is <<>>; a slash at the end is  *)
(* an empty component.  A dentry is the sequence of the names from the     *)
(* root of its file system down to it; the root dentry is <<>>, is its own *)
(* parent, and is named "/".                                               *)
(***************************************************************************)
EXTENDS Integers, Sequences

CONSTANTS
  MaxDepth,   \* MAX_DEPTH: how many directory names an event carries
  Names       \* the components of paths, and the names of commands

Root == ""    \* the component before the slash an absolute path begins with

ASSUME PathsAssumption == MaxDepth \in Nat \ {0} /\ Root \in Names

Path == Seq(Names)

(* The last n elements of s, all of s when it has no more than n. *)
LastN(s, n) == SubSeq(s, IF Len(s) > n THEN Len(s) - n + 1 ELSE 1, Len(s))

(* d_parent of a dentry: the root dentry is its own parent. *)
DParent(dentry) == SubSeq(dentry, 1, Len(dentry) - 1)

(* d_name of a dentry that is not the root of its file system. *)
DName(dentry) == <<dentry[Len(dentry)]>>

(* Faulty versions, named Bad..., stand before what they replace: nothing   *)
(* uses them; they are there to show that the properties would notice.      *)
BadFillParentDirs(dentry) == LastN(DParent(dentry), MaxDepth - 1)
BadFillDirChain(dentry)   == LastN(DParent(dentry), MaxDepth)

(***************************************************************************)
(* The directory fields dir4, ..., dir1 of an event, outermost first.      *)
(* Empty fields and fields holding "/" are left out: every reader of the   *)
(* fields skips both.  fill_parent_dirs starts at the parent of the        *)
(* dentry, fill_dir_chain at the dentry itself.                            *)
(***************************************************************************)
FillParentDirs(dentry) == LastN(DParent(dentry), MaxDepth)
FillDirChain(dentry)   == LastN(dentry, MaxDepth)

IsAbsolute(path) == path # <<>> /\ path[1] = Root

Slash == <<Root, Root>>   \* the string "/"

(* get_full_path: join the directory fields and the file name, of which    *)
(* "/" is left out.  Only a hook that leaves the directory fields empty    *)
(* stores an absolute name where this is called, so that "/" alone yields  *)
(* the empty string.                                                       *)
GetFullPath(dirs, name) ==
  IF name = Slash THEN <<>>
  ELSE IF IsAbsolute(name) THEN name
  ELSE <<Root>> \o dirs \o name

(* get_dir_level: the number of slashes but one that ends the path,        *)
(* negative for a relative path.                                           *)
GetDirLevel(path) ==
  IF ~IsAbsolute(path) THEN -1
  ELSE Len(path) - (IF path[Len(path)] = Root THEN 2 ELSE 1)

(* The path of a dentry seen from the root of the machine, when its file   *)
(* system is mounted at the directory mount.                               *)
RealPath(mount, dentry) == <<Root>> \o mount \o dentry
=============================================================================
