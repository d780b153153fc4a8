-------------------------- MODULE WorkingDirectory -------------------------
(***************************************************************************)
(* Paths, and the working directories of processes, over the directories   *)
(* of FatTree (src/fs/fs.rs, the path functions of src/scheduling/mod.rs,  *)
(* the system calls cd, mkdir, rmdir, create and unlink), with the shell,  *)
(* which keeps a path of its own for its prompt (userspace/shell/main.rs). *)
(*                                                                         *)
(* A path is how it begins ("/", "~/", "~" or anything else) and what is   *)
(* between its slashes.  A working directory is held by its first cluster. *)
(***************************************************************************)
EXTENDS FatTree

CONSTANTS Shell,                \* the first process
          Programs,             \* processes it may start
          CdPaths, Paths,       \* paths given to cd, and to the other calls
          LookupPaths,          \* paths whose lookup is compared with a walk
          PromptRoom,           \* components that fit the prompt's buffer
          MaxCalls              \* bound: calls that may change a directory

WorkingDirectoryAssumption ==
    /\ FatTreeAssumption
    /\ Shell \notin Programs
    /\ \A path \in Paths : path.from # "~"
    /\ PromptRoom \in Nat
    /\ MaxCalls \in Nat

VARIABLES cwd,                  \* process -> curr_working_dir
          prompt,               \* Cwd of the shell, as components
          calls,                \* calls so far
          lost,                 \* history: processes whose cwd was removed
          drifted,              \* history: the prompt went its own way
          strayed               \* history: a call was made from a lost cwd

vars == <<tree_vars, cwd, prompt, calls, lost, drifted, strayed>>

None == 0
----------------------------------------------------------------------------
RECURSIVE NormalizeOnto(_, _)
NormalizeOnto(path, components) ==
    IF components = <<>> THEN path
    ELSE LET c == Head(components)
         IN  NormalizeOnto(CASE c \in {"", "."} -> path
                             [] c = ".." /\ path # <<>> /\ Last(path) # ".." -> Front(path)
                             [] OTHER -> Append(path, c),
                           Tail(components))

(* A slip: ".." removes whatever comes before it. *)
NormalizeRemoving(components) ==
    LET path == NormalizeOnto(<<>>, components)
    IN  IF Len(path) >= 2 /\ path[1] = ".." /\ path[2] = ".." THEN Tail(Tail(path)) ELSE path

NormalizePathComponents(components) == NormalizeOnto(<<>>, components)

(* find_directory: the first directory of the name *)
FindDirectory(d, name) ==
    LET slots == LoadDirectorySlots(fat, data, d)
        at    == {i \in LiveSlots(slots) : slots[i].dir /\ slots[i].name = name}
    IN  IF at = {} THEN None ELSE DirectoryCluster(slots[Min(at)])

RECURSIVE FindDirectoryComponents(_, _)
FindDirectoryComponents(d, components) ==
    IF components = <<>> \/ d = None THEN d
    ELSE FindDirectoryComponents(FindDirectory(d, Head(components)), Tail(components))

Base(p, path) == IF path.from = "" THEN cwd[p] ELSE Root

(* find_directory_from_path *)
FindDirectoryFromPath(p, path) ==
    FindDirectoryComponents(Base(p, path), NormalizePathComponents(path.components))

(* find_file: the slot of the first file of the name *)
FindFile(d, name) ==
    LET slots == LoadDirectorySlots(fat, data, d)
        at    == {i \in LiveSlots(slots) : ~ slots[i].dir /\ slots[i].name = name}
    IN  IF at = {} THEN <<>> ELSE <<d, Min(at)>>

FindFileComponents(d, components) ==
    LET parent == FindDirectoryComponents(d, Front(components))
    IN  IF parent = None THEN <<>> ELSE FindFile(parent, Last(components))

(* find_file_from_path, for open and execute *)
FindFileFromPath(p, path) ==
    LET components == NormalizePathComponents(path.components)
    IN  IF components = <<>> THEN <<>>
                             ELSE FindFileComponents(Base(p, path), components)

(* resolve_parent_directory_and_name *)
ResolveParentDirectoryAndName(p, path) ==
    LET components == NormalizePathComponents(path.components)
        refused    == [parent |-> None, name |-> ""]
    IN  IF \/ path.components = <<>>
           \/ Last(path.components) = ""
           \/ components = <<>>
           \/ Last(components) = ".."
          THEN refused
          ELSE [parent |-> FindDirectoryComponents(Base(p, path), Front(components)),
                name   |-> Last(components)]
----------------------------------------------------------------------------
(* The components applied to the shell's path: push_component, which drops *)
(* what does not fit, and pop_component.                                   *)
RECURSIVE ApplyComponents(_, _, _)
ApplyComponents(room, path, components) ==
    IF components = <<>> THEN path
    ELSE LET c == Head(components)
         IN  ApplyComponents(room,
               CASE c \in {"", "."} -> path
                 [] c = ".." -> IF path = <<>> THEN path ELSE Front(path)
                 [] OTHER -> IF Len(path) < room THEN Append(path, c) ELSE path,
               Tail(components))

(* A slip: a path from the root is added to the old one. *)
UpdateKeeping(room, path) ==
    IF path.from = "~" THEN <<>>
    ELSE ApplyComponents(room, prompt,
           (IF path.from = "~/" THEN <<"~">> ELSE <<>>) \o path.components)

(* Cwd::update: "~/" is not special to it, its "~" is a component. *)
Update(room, path) ==
    IF path.from = "~" THEN <<>>
    ELSE ApplyComponents(room, IF path.from = "/" THEN <<>> ELSE prompt,
           (IF path.from = "~/" THEN <<"~">> ELSE <<>>) \o path.components)

Drops(path) == Update(PromptRoom, path) # Update(PromptRoom + Len(path.components), path)

(* The shell is the first process, and starts in the root. *)
AtRoot == [p \in {Shell} |-> Root]

Init ==
    /\ TreeInit
    /\ cwd = AtRoot /\ prompt = <<>> /\ lost = {} /\ drifted = FALSE
    /\ calls = 0
    /\ strayed = FALSE

(* cd and change_cwd; the shell's prompt follows when cd has succeeded. *)
Cd(p, path) ==
    LET dir == FindDirectoryFromPath(p, path)
    IN  /\ dir # None
        /\ cwd' = [cwd EXCEPT ![p] = dir]
        /\ lost' = IF dir \in Directories THEN lost \ {p} ELSE lost \union {p}
        /\ IF p = Shell
             THEN /\ prompt' = Update(PromptRoom, path)
                  /\ drifted' = \/ drifted /\ path.from \notin {"/", "~"}
                                \/ path.from = "~/"
                                \/ Base(p, path) \notin Directories
                                \/ Drops(path)
             ELSE UNCHANGED <<prompt, drifted>>
        /\ UNCHANGED <<tree_vars, calls, strayed>>

(* deploy: a program starts in the working directory of its parent. *)
Deploy(p) ==
    /\ p \notin DOMAIN cwd
    /\ cwd' = [q \in DOMAIN cwd \union {p} |-> IF q = p THEN cwd[Shell] ELSE cwd[q]]
    /\ lost' = IF Shell \in lost THEN lost \union {p} ELSE lost
    /\ UNCHANGED <<tree_vars, prompt, calls, drifted, strayed>>

Exit(p) ==
    /\ p # Shell
    /\ cwd' = [q \in DOMAIN cwd \ {p} |-> cwd[q]]
    /\ lost' = lost \ {p}
    /\ UNCHANGED <<tree_vars, prompt, calls, drifted, strayed>>

(* A call that resolves a path and changes a directory; `removes` is the   *)
(* directory that is gone once a cluster is written.                       *)
Call(p, path, op, removes) ==
    /\ op # Refused
    /\ calls < MaxCalls
    /\ calls' = calls + 1
    /\ strayed' = (Base(p, path) \notin Directories)
    /\ \/ /\ Completes(op) \/ WriteFails(op)
          /\ lost' = IF data' = data THEN lost
                     ELSE lost \union {q \in DOMAIN cwd : cwd[q] = removes}
          /\ drifted' = (drifted \/ Shell \in lost')
          /\ UNCHANGED <<cwd, prompt>>
       \/ /\ Stops(op)
          /\ cwd' = AtRoot /\ prompt' = <<>> /\ lost' = {} /\ drifted' = FALSE

Mkdir(p, path) ==
    LET at == ResolveParentDirectoryAndName(p, path)
    IN  at.parent # None /\ Call(p, path, CreateDirectory(at.parent, at.name), None)

Rmdir(p, path) ==
    LET at == ResolveParentDirectoryAndName(p, path)
    IN  /\ at.parent # None
        /\ Call(p, path, RemoveDirectory(at.parent, at.name),
                FindDirectory(at.parent, at.name))

Create(p, path) ==
    LET at == ResolveParentDirectoryAndName(p, path)
    IN  at.parent # None /\ Call(p, path, CreateFile(at.parent, at.name), None)

Unlink(p, path) ==
    LET at == ResolveParentDirectoryAndName(p, path)
    IN  at.parent # None /\ Call(p, path, UnlinkFile(at.parent, at.name), None)

AllZeroed == Zeroed(fat, data) /\ Zeroed(disk_fat, data)

(* Nothing is explored behind a stray call or a cluster not cleared. *)
Next ==
    /\ ~ strayed /\ AllZeroed
    /\ \/ \E p \in DOMAIN cwd :
            \/ \E path \in CdPaths : Cd(p, path)
            \/ \E path \in Paths : Mkdir(p, path)
            \/ \E path \in Paths : Rmdir(p, path)
            \/ \E path \in Paths : Create(p, path)
            \/ \E path \in Paths : Unlink(p, path)
            \/ Exit(p)
       \/ \E p \in Programs : Deploy(p)

Spec == Init /\ [][Next]_vars
----------------------------------------------------------------------------
(* Types: working directories are clusters, the prompt fits its buffer.    *)
TypeOK ==
    /\ TreeTypeOK
    /\ Shell \in DOMAIN cwd
    /\ DOMAIN cwd \subseteq {Shell} \union Programs
    /\ \A p \in DOMAIN cwd : cwd[p] \in Clusters
    /\ Len(prompt) <= PromptRoom
    /\ lost \subseteq DOMAIN cwd

(* The tree stays sound, in memory and on disk, through every order of     *)
(* calls, failed writes and stops, with two exceptions: a cluster that was *)
(* linked to a directory and not cleared (append_directory_cluster), and   *)
(* what a process does from a working directory that was removed.          *)
TreeSound ==
    ~ strayed /\ AllZeroed => Sound

(* A process's working directory is in the tree, unless that very          *)
(* directory was removed: remove_directory does not ask who works in it,   *)
(* and a directory with a directory in it is never removed.                *)
CwdLostOnlyByRmdir ==
    ~ strayed /\ AllZeroed =>
        \A p \in DOMAIN cwd \ lost : cwd[p] \in Directories

(* A path walked one component after the other, as it is written           *)
Walk(d, components) ==
    FindDirectoryComponents(d, SelectSeq(components, LAMBDA c : c \notin {"", "."}))

(* find_directory_from_path, which shortens a path before it looks at the  *)
(* disk, finds the directory that the path leads to if it is walked.       *)
LookupIsWalk ==
    ~ strayed /\ AllZeroed =>
        \A p \in DOMAIN cwd \ lost : \A path \in LookupPaths :
            LET end == Walk(Base(p, path), path.components)
            IN  end # None => FindDirectoryFromPath(p, path) = end

(* The file that unlink takes for a path: where its entry is *)
Unlinked(p, path) ==
    LET at == ResolveParentDirectoryAndName(p, path)
        i  == FindParsedEntry(LoadDirectorySlots(fat, data, at.parent), at.name)
    IN  IF at.parent = None \/ UnlinkFile(at.parent, at.name) = Refused
          THEN <<>> ELSE <<at.parent, i>>

(* open, execute and unlink mean the same file by a path, though they look *)
(* it up by different code, unless the path ends in a slash: that is not a *)
(* path to unlink.  (Names are 8.3 names here.  A long name's alias is a   *)
(* name to unlink, by find_parsed_entry, and not to open, by find_file.)   *)
OneFileOfPath ==
    ~ strayed /\ AllZeroed =>
        \A p \in DOMAIN cwd \ lost : \A path \in LookupPaths :
            Last(path.components) # "" => FindFileFromPath(p, path) = Unlinked(p, path)

(* The prompt of the shell, which follows cd by text alone, leads to the   *)
(* shell's working directory until a "~/" path is used, a component does   *)
(* not fit, or the directory is removed.                                   *)
PromptFollows ==
    ~ drifted /\ ~ strayed /\ AllZeroed =>
        FindDirectoryComponents(Root, prompt) = cwd[Shell]

(* A directory that create_directory made is "directly inside" the one it  *)
(* was made in: without faults every allocated cluster is in the tree.     *)
CreatedIsInside == NothingLost
=============================================================================
