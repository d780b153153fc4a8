------------------------------- MODULE Editor ------------------------------
(***************************************************************************)
(* The text editor (userspace/edit/main.rs): a text, a cursor in it, the   *)
(* first line shown, and the file it is saved to.  A step is one key: the  *)
(* key is handled and the screen is drawn again.  The text is letters and  *)
(* newlines; positions count from 0, so cell i is text[i + 1].             *)
(***************************************************************************)
EXTENDS Integers, Sequences, FiniteSets, FiniteSetsExt, SequencesExt

CONSTANTS FILE_CAPACITY, VIEW_ROWS

EditorAssumption ==
    FILE_CAPACITY \in Nat /\ VIEW_ROWS \in Nat \ {0}

VARIABLES text,                 \* buffer[..len]
          cursor,
          first_visible_line,
          preferred_column,     \* a column, or NoColumn
          escape_state,
          dirty,
          file,                 \* what the file holds
          save_failed,          \* a save of this session did not finish
          quit

vars == <<text, cursor, first_visible_line, preferred_column, escape_state,
          dirty, file, save_failed, quit>>

NoColumn == -1
Newline == "nl"
Chars == {"a", Newline}
Texts == UNION {[1 .. n -> Chars] : n \in 0 .. FILE_CAPACITY}
Length == Len(text)
----------------------------------------------------------------------------
LineStart(t, index) ==
    Max({0} \union {i \in 1 .. index : t[i] = Newline})

LineEnd(t, index) ==
    Min({Len(t)} \union {i \in index .. Len(t) - 1 : t[i + 1] = Newline})

CursorLine(t, at) == Cardinality({i \in 1 .. at : t[i] = Newline})

(* Slips below: the view follows one line too late, a deletion leaves the  *)
(* text unmarked, the preferred column is forgotten.                       *)
FollowTooLate(t, at, first) ==
    LET line == CursorLine(t, at)
    IN  IF line < first THEN line
        ELSE IF line > first + VIEW_ROWS THEN line - VIEW_ROWS + 1
        ELSE first

(* keep_cursor_visible, with which every drawing starts *)
KeepCursorVisible(t, at, first) ==
    LET line == CursorLine(t, at)
    IN  IF line < first THEN line
        ELSE IF line >= first + VIEW_ROWS THEN line - VIEW_ROWS + 1
        ELSE first

(* render: where the text of each row starts, skipping the lines above *)
NextLine(t, index) ==
    LET end == LineEnd(t, index) IN IF end < Len(t) THEN end + 1 ELSE end

RowStart(t, line) ==
    LET start[n \in 0 .. FILE_CAPACITY + VIEW_ROWS] ==
          IF n = 0 THEN 0
          ELSE IF start[n - 1] < Len(t) THEN NextLine(t, start[n - 1])
          ELSE start[n - 1]
    IN  start[line]

(* A key leaves this text, cursor and column; the screen is drawn again. *)
Show(t, at, column) ==
    /\ text' = t
    /\ cursor' = at
    /\ preferred_column' = column
    /\ first_visible_line' = KeepCursorVisible(t, at, first_visible_line)

Stay == Show(text, cursor, preferred_column)

(* The file is read into the buffer and drawn. *)
Init ==
    /\ text \in Texts
    /\ file = text
    /\ cursor = 0
    /\ first_visible_line = 0
    /\ preferred_column = NoColumn
    /\ escape_state = 0
    /\ dirty = FALSE
    /\ save_failed = FALSE
    /\ quit = FALSE
----------------------------------------------------------------------------
Plain == ~ quit /\ escape_state = 0
Arrow == ~ quit /\ escape_state = 2

Escape ==
    /\ ~ quit
    /\ escape_state = 0
    /\ escape_state' = 1
    /\ Stay
    /\ UNCHANGED <<dirty, file, save_failed, quit>>

Bracket ==
    /\ ~ quit
    /\ escape_state = 1
    /\ escape_state' = 2
    /\ Stay
    /\ UNCHANGED <<dirty, file, save_failed, quit>>

(* Escape and a key that means nothing *)
OtherKey ==
    /\ ~ quit
    /\ escape_state # 0
    /\ escape_state' = 0
    /\ Stay
    /\ UNCHANGED <<dirty, file, save_failed, quit>>

InsertByte(char) ==
    /\ Plain
    /\ IF Length = FILE_CAPACITY
         THEN Stay /\ UNCHANGED dirty
         ELSE /\ Show(SubSeq(text, 1, cursor) \o <<char>>
                        \o SubSeq(text, cursor + 1, Length), cursor + 1, NoColumn)
              /\ dirty' = TRUE
    /\ UNCHANGED <<escape_state, file, save_failed, quit>>


Backspace ==
    /\ Plain
    /\ IF cursor = 0
         THEN Stay /\ UNCHANGED dirty
         ELSE /\ Show(RemoveAt(text, cursor), cursor - 1, NoColumn)
              /\ dirty' = TRUE
    /\ UNCHANGED <<escape_state, file, save_failed, quit>>

Right ==
    /\ Arrow
    /\ Show(text, Min({cursor + 1, Length}), NoColumn)
    /\ escape_state' = 0
    /\ UNCHANGED <<dirty, file, save_failed, quit>>

Left ==
    /\ Arrow
    /\ Show(text, Max({cursor - 1, 0}), NoColumn)
    /\ escape_state' = 0
    /\ UNCHANGED <<dirty, file, save_failed, quit>>

ColumnHere(t, at, preferred) == at - LineStart(t, at)

Column(t, at, preferred) ==
    IF preferred = NoColumn THEN at - LineStart(t, at) ELSE preferred

(* Where move_up and move_down put the cursor; at the edge, where it is. *)
Up(t, at, preferred) ==
    LET end == LineStart(t, at) - 1
    IN  IF end < 0 THEN at
        ELSE Min({LineStart(t, end) + Column(t, at, preferred), end})

Down(t, at, preferred) ==
    LET end == LineEnd(t, at)
    IN  IF end = Len(t) THEN at
        ELSE Min({end + 1 + Column(t, at, preferred), LineEnd(t, end + 1)})

MoveUp ==
    /\ Arrow
    /\ Show(text, Up(text, cursor, preferred_column),
            IF LineStart(text, cursor) = 0 THEN preferred_column
            ELSE Column(text, cursor, preferred_column))
    /\ escape_state' = 0
    /\ UNCHANGED <<dirty, file, save_failed, quit>>

MoveDown ==
    /\ Arrow
    /\ Show(text, Down(text, cursor, preferred_column),
            IF LineEnd(text, cursor) = Length THEN preferred_column
            ELSE Column(text, cursor, preferred_column))
    /\ escape_state' = 0
    /\ UNCHANGED <<dirty, file, save_failed, quit>>

(***************************************************************************)
(* save: the file is cut to nothing, then written.  The cut may fail, and  *)
(* so may the write, after `written` cells; the file has grown to its full *)
(* size before the first of them (write_fd), or has not grown at all.      *)
(***************************************************************************)
Save ==
    /\ ~ quit
    /\ escape_state = 1
    /\ file' = text
    /\ dirty' = FALSE
    /\ save_failed' = FALSE
    /\ escape_state' = 0
    /\ Stay
    /\ UNCHANGED quit

SaveFails(written) ==
    /\ ~ quit
    /\ escape_state = 1
    /\ \/ UNCHANGED file
       \/ file' = <<>>
       \/ written < Length /\ file' = [i \in 1 .. Length |->
                                  IF i <= written THEN text[i] ELSE "zero"]
    /\ save_failed' = TRUE
    /\ escape_state' = 0
    /\ Stay
    /\ UNCHANGED <<dirty, quit>>

Quit ==
    /\ ~ quit
    /\ escape_state = 1
    /\ quit' = TRUE
    /\ escape_state' = 0
    /\ UNCHANGED <<text, cursor, first_visible_line, preferred_column, dirty,
                   file, save_failed>>

Next ==
    \/ Escape \/ Bracket \/ OtherKey
    \/ \E char \in Chars : InsertByte(char)
    \/ Backspace
    \/ Right \/ Left \/ MoveUp \/ MoveDown
    \/ Save \/ Quit
    \/ \E written \in 0 .. FILE_CAPACITY : SaveFails(written)

Spec == Init /\ [][Next]_vars
----------------------------------------------------------------------------
(* The cursor is in the text or right behind it. *)
TypeOK ==
    /\ text \in Texts
    /\ cursor \in 0 .. Length
    /\ first_visible_line \in 0 .. FILE_CAPACITY
    /\ preferred_column \in {NoColumn} \union 0 .. FILE_CAPACITY
    /\ escape_state \in 0 .. 2
    /\ {dirty, save_failed, quit} \subseteq BOOLEAN
    /\ file \in Texts \/ save_failed

(* The line the cursor is in is on the screen, in the row the terminal's   *)
(* cursor is put on: render's walk over the lines above and                *)
(* keep_cursor_visible agree on what a line is, also after deletions.      *)
CursorOnScreen ==
    LET line == CursorLine(text, cursor)
    IN  /\ line \in first_visible_line .. first_visible_line + VIEW_ROWS - 1
        /\ RowStart(text, line) = LineStart(text, cursor)

(* Up and down undo each other: over a shorter line and back, the cursor   *)
(* returns to its column (move_up, move_down, preferred_column).           *)
UpUndoesDown ==
    LET column == Column(text, cursor, preferred_column)
        down   == Down(text, cursor, preferred_column)
        up     == Up(text, cursor, preferred_column)
    IN  /\ LineEnd(text, cursor) < Length => Up(text, down, column) = cursor
        /\ LineStart(text, cursor) > 0 => Down(text, up, column) = cursor

(* When the editor does not show "modified", the file holds the text,      *)
(* unless a save did not finish since the last one that did.               *)
CleanIsSaved == ~ dirty /\ ~ save_failed => file = text
=============================================================================
