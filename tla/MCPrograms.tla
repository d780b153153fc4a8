---------------------------- MODULE MCPrograms -----------------------------
(***************************************************************************)
(* What programs meet, for TLC: their files, the loading of their image    *)
(* and arguments, and the editor.  They share no state, so one of them     *)
(* runs in a behaviour and the others stay as they began.                  *)
(***************************************************************************)
EXTENDS Integers, Sequences, FiniteSets, TLC

CONSTANTS Pids, Files, MaxSize, MaxOpen, MaxOpened, MaxCall,
          PageSize, Pages, MaxHeaders, MaxLoads, MemorySizes, StackSize,
          ArgLengths,
          FILE_CAPACITY, VIEW_ROWS

VARIABLES active,
          fd_table, contents, opened, sent, cut, most_open,
          headers, stage, step, next_region, start_region, last_region,
          mapping, free_frames, memory, argv, rsp,
          text, cursor, first_visible_line, preferred_column, escape_state,
          dirty, file, save_failed, quit

Descriptors == INSTANCE FileDescriptors
Image       == INSTANCE ElfImage
TextEditor  == INSTANCE Editor

ASSUME ProgramsAssumption ==
    Image!ElfImageAssumption /\ TextEditor!EditorAssumption

descriptor_vars == <<fd_table, contents, opened, sent, cut, most_open>>
image_vars == <<headers, stage, step, next_region, start_region, last_region,
                mapping, free_frames, memory, argv, rsp>>
editor_vars == <<text, cursor, first_visible_line, preferred_column,
                 escape_state, dirty, file, save_failed, quit>>
vars == <<active, descriptor_vars, image_vars, editor_vars>>

Symmetry == Permutations(Pids)

(* One of the initial states, for a part that does not run *)
Init ==
    /\ active \in {"descriptors", "image", "editor"}
    /\ active # "image" =>
         headers = <<Image!NotLoad>> /\ argv = <<CHOOSE n \in ArgLengths : TRUE>>
    /\ active # "editor" => text = <<>>
    /\ Descriptors!Init
    /\ Image!Init
    /\ TextEditor!Init

Next ==
    \/ active = "descriptors" /\ Descriptors!Next
       /\ UNCHANGED <<active, image_vars, editor_vars>>
    \/ active = "image" /\ Image!Next
       /\ UNCHANGED <<active, descriptor_vars, editor_vars>>
    \/ active = "editor" /\ TextEditor!Next
       /\ UNCHANGED <<active, descriptor_vars, image_vars>>

Spec == Init /\ [][Next]_vars
----------------------------------------------------------------------------
(* Descriptors: types; what one descriptor sends with write_fd stands in   *)
(* the file in order, without a gap or a repeat; no offset lies beyond the *)
(* end but by another descriptor's truncate_fd; open_file uses numbers     *)
(* again.                                                                  *)
DescriptorsSound ==
    active = "descriptors" =>
        /\ Descriptors!TypeOK
        /\ Descriptors!StreamIntact
        /\ Descriptors!OffsetWithinFile
        /\ Descriptors!NumbersReused

(* elf::load and elf::unmap: types; a program starts with every byte of    *)
(* its segments in memory and with an argument frame that is aligned and   *)
(* fits below the strings; only mapped pages are touched, and after unmap  *)
(* every frame is free and zeroed.                                         *)
ImageSound ==
    active = "image" =>
        /\ Image!TypeOK
        /\ Image!ImageComplete
        /\ Image!ArgsFrameSound
        /\ Image!NoFault
        /\ Image!FramesReturned

=============================================================================
