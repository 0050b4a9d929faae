------------------------------ MODULE Console ------------------------------
(***************************************************************************)
(* The framebuffer console: user/fb_console, the text grid it draws with    *)
(* (lib/gfxconsole), the input devices that feed it and the display driver  *)
(* (user/virtio_gpu) that shows what it drew.                               *)
(*                                                                          *)
(* The grid keeps a character for every cell, and pixels: drawing a glyph   *)
(* sets its foreground pixels and clears none, so what a cell shows is the  *)
(* set of marks drawn in it since it was last filled, glyphs and the mouse  *)
(* pointer, which is drawn on top and never removed.  Cells are numbered    *)
(* row by row from 0.  The arithmetic is that of a release build, which is  *)
(* what Poplar.toml asks for: a cursor column below 0 wraps.                *)
(***************************************************************************)
EXTENDS Integers, Sequences

CONSTANTS Width, Height,      \* of the grid, in cells of 8 pixels
          InputEvents,        \* what the input devices may report
          MaxInput,           \* bound: reports of the input devices
          MaxPending,         \* bound: reports waiting in the channel from a device
          EventCapacity,      \* thingbuf::mpsc::channel(16)
          Framebuffers,       \* framebuffer devices handed to the console
          MouseStart          \* where the mouse pointer starts, in pixels

ASSUME GridAssumption == Width \in Nat \ {0} /\ Height \in Nat \ {0}

VARIABLES cells, shown, cursor, current_line,
          mouse,        \* the mouse pointer, in pixels
          console,      \* where the console's task is: off, drawn, wait, dead
          handed,       \* framebuffers handed over so far
          reports,      \* reports made so far
          hid,          \* the channel from the input driver
          input_events, \* the queue of InputEvents between the console's tasks
          control,      \* messages in the channel to the display driver
          gpu,          \* the display driver: poll or flush
          display,      \* what the display shows
          crossed       \* history: a DEL moved the cursor left of column 0

cvars == <<cells, shown, cursor, current_line, mouse, console, handed, reports, hid, input_events,
           control, gpu, display, crossed>>

grid == <<cells, shown, cursor>>

Cells == 0..(Width * Height - 1)

Blank == {" ", "\t"}

Prompt == <<">", " ">>

-----------------------------------------------------------------------------
(* lib/gfxconsole.  A grid g has fields cells, shown, x, y, panic.           *)

Ink(c) == IF c \in Blank THEN {} ELSE {c}

GfxConsole_new == [cells |-> [i \in Cells |-> " "], shown |-> [i \in Cells |-> {}],
                   x |-> 0, y |-> 0, panic |-> FALSE]

draw_glyph(g, i, c) == [g EXCEPT !.shown[i] = @ \cup Ink(c)]

put_cell(g, i, c) ==
    IF i \notin Cells THEN [g EXCEPT !.panic = TRUE]
    ELSE draw_glyph([g EXCEPT !.cells[i] = c], i, c)

(* DEL: left of column 0 the cell is still the one before, but the rectangle *)
(* is empty the first time and outside the screen from then on.              *)
Delete(g) ==
    LET x == g.x - 1
        i == g.y * Width + x
    IN IF i \notin Cells \/ x < -1 THEN [g EXCEPT !.panic = TRUE]
       ELSE [g EXCEPT !.x = x, !.cells[i] = " ",
                      !.shown[i] = IF x < 0 THEN @ ELSE {}]

Scroll(g) ==
    IF g.y # Height THEN g
    ELSE LET up == [i \in Cells |-> IF i + Width \in Cells THEN g.cells[i + Width] ELSE " "]
         IN [g EXCEPT !.cells = up, !.shown = [i \in Cells |-> Ink(up[i])], !.x = 0, !.y = Height - 1]

EndOfLine(g) == IF g.x = Width THEN [g EXCEPT !.x = 0, !.y = @ + 1] ELSE g

write_char(g, c) ==
    IF g.panic THEN g
    ELSE Scroll(EndOfLine(
           CASE c = "\n"  -> [g EXCEPT !.x = 0, !.y = @ + 1]
             [] c = "DEL" -> Delete(g)
             [] OTHER     -> LET p == put_cell(g, g.y * Width + g.x, c)
                             IN [p EXCEPT !.x = @ + 1]))

write_str(g, s) ==
    LET after[n \in 0 .. Len(s)] == IF n = 0 THEN g ELSE write_char(after[n - 1], s[n])
    IN after[Len(s)]

Grid == [cells |-> cells, shown |-> shown, x |-> cursor.x, y |-> cursor.y, panic |-> FALSE]

SetGrid(g) == cells' = g.cells /\ shown' = g.shown /\ cursor' = [x |-> g.x, y |-> g.y]

(* Framebuffer::draw_rect's assertions, for the 4 by 4 mouse pointer.        *)
PointerFits == mouse.x + 4 <= 8 * Width /\ mouse.y + 4 <= 8 * Height

(* The mark that the pointer leaves, and the cells its rectangle reaches.    *)
Pointer == "pointer"

UnderPointer ==
    { (y \div 8) * Width + (x \div 8) : x \in mouse.x .. mouse.x + 3, y \in mouse.y .. mouse.y + 3 }

draw_pointer == [i \in Cells |-> IF i \in UnderPointer THEN shown[i] \cup {Pointer} ELSE shown[i]]

-----------------------------------------------------------------------------
(* Handing devices to the console.                                           *)

ConsoleInit ==
    /\ cells = [i \in Cells |-> " "] /\ shown = [i \in Cells |-> {}] /\ cursor = [x |-> 0, y |-> 0]
    /\ current_line = <<>> /\ mouse = MouseStart
    /\ console = "off" /\ handed = 0 /\ reports = 0
    /\ hid = <<>> /\ input_events = <<>> /\ control = 0
    /\ gpu = "poll" /\ display = shown /\ crossed = FALSE

(* The first framebuffer takes the receiving end of the event queue, and the *)
(* console greets; for a second one the receiver is gone and unwrap panics.  *)
HandoffFramebuffer ==
    /\ handed < Framebuffers /\ console # "dead"
    /\ handed' = handed + 1
    /\ IF handed = 0
       THEN \E g \in {write_str(GfxConsole_new, <<"W", "\n">> \o Prompt)} :
              SetGrid(g) /\ console' = "greeted"
       ELSE console' = "dead" /\ UNCHANGED grid
    /\ UNCHANGED <<current_line, mouse, reports, hid, input_events, control, gpu, display, crossed>>

DeviceReports(e) ==
    /\ reports < MaxInput /\ Len(hid) < MaxPending /\ console # "dead"
    /\ reports' = reports + 1
    /\ hid' = Append(hid, e)
    /\ UNCHANGED <<cells, shown, cursor, current_line, mouse, console, handed, input_events, control, gpu, display, crossed>>

-----------------------------------------------------------------------------
(* The input task, one per device.                                           *)

NoChar == "none"

(* Most keys give a character with and without shift.  Z with shift, Escape  *)
(* and the keys that are not listed give none.                               *)
map_key(key, shift) ==
    CASE key = "KeyA"      -> IF shift THEN "A" ELSE "a"
      [] key = "KeyZ"      -> IF shift THEN NoChar ELSE "z"
      [] key = "KeyReturn" -> "\n"
      [] key = "KeyDelete" -> "DEL"
      [] key = "KeySpace"  -> " "
      [] OTHER             -> NoChar

InputTask ==
    /\ console # "dead" /\ hid # <<>>
    /\ LET e == Head(hid)
           c == IF e.t = "key" THEN map_key(e.key, e.shift) ELSE NoChar
       IN \/ /\ e.t \in {"button", "wheel"}
             /\ hid' = Tail(hid) /\ UNCHANGED <<input_events, console>>
          \/ /\ e.t = "key" /\ c = NoChar
             /\ hid' = Tail(hid) /\ console' = "dead" /\ UNCHANGED input_events
          \/ /\ e.t = "key" /\ c # NoChar /\ Len(input_events) < EventCapacity
             /\ hid' = Tail(hid) /\ input_events' = Append(input_events, [t |-> "key", c |-> c]) /\ UNCHANGED console
          \/ /\ e.t = "move" /\ Len(input_events) < EventCapacity
             /\ hid' = Tail(hid) /\ input_events' = Append(input_events, e) /\ UNCHANGED console
    /\ UNCHANGED <<cells, shown, cursor, current_line, mouse, handed, reports, control, gpu, display, crossed>>

-----------------------------------------------------------------------------
(* The console's task: take an event and draw, then tell the display driver. *)

Draw(s) ==
    \E g \in {write_str(Grid, s)} :
      SetGrid(g) /\ console' = IF g.panic THEN "dead" ELSE "drawn"

(* The interpreter prints one line, or nothing when the stack is empty.      *)
Outputs == {<<>>, <<"R", "\n">>}

Key_return ==
    /\ \E out \in Outputs : Draw(<<"\n">> \o out \o <<"\n">> \o Prompt)
    /\ current_line' = <<>>
    /\ UNCHANGED <<mouse, crossed>>

(* String::pop.                                                              *)
Popped(s) == SubSeq(s, 1, Len(s) - 1)

Key_delete_any ==
    /\ current_line' = IF current_line = <<>> THEN <<>> ELSE Popped(current_line)
    /\ Draw(<<"DEL">>)
    /\ crossed' = (crossed \/ cursor.x <= 0)
    /\ UNCHANGED mouse

Key_delete_quiet ==
    IF current_line = <<>> THEN UNCHANGED <<cells, shown, cursor, current_line, mouse, console, crossed>>
    ELSE /\ current_line' = Popped(current_line)
         /\ \E g \in {write_str(Grid, <<"DEL">>)} : SetGrid(g)
         /\ crossed' = (crossed \/ cursor.x <= 0)
         /\ UNCHANGED <<mouse, console>>

Key_delete ==
    IF current_line = <<>> THEN UNCHANGED <<cells, shown, cursor, current_line, mouse, console, crossed>>
    ELSE /\ current_line' = Popped(current_line)
         /\ Draw(<<"DEL">>)
         /\ crossed' = (crossed \/ cursor.x <= 0)
         /\ UNCHANGED mouse

Key_other(c) ==
    /\ Draw(<<c>>)
    /\ current_line' = Append(current_line, c)
    /\ UNCHANGED <<mouse, crossed>>

Saturate(n) == IF n < 0 THEN 0 ELSE n

MoveMouse(e) ==
    /\ mouse' = [x |-> Saturate(mouse.x + e.dx), y |-> Saturate(mouse.y + e.dy)]
    /\ console' = "drawn"
    /\ UNCHANGED <<cells, shown, cursor, current_line, crossed>>

ConsoleTask ==
    /\ console = "wait" /\ input_events # <<>>
    /\ input_events' = Tail(input_events)
    /\ LET e == Head(input_events)
       IN \/ e.t = "move" /\ MoveMouse(e)
          \/ e.t = "key" /\ e.c = "\n" /\ Key_return
          \/ e.t = "key" /\ e.c = "DEL" /\ Key_delete
          \/ e.t = "key" /\ e.c \notin {"\n", "DEL"} /\ Key_other(e.c)
    /\ UNCHANGED <<handed, reports, hid, control, gpu, display>>

(* Nothing takes the pointer away from where it was drawn before ("this obvs *)
(* won't remove the old cursor").                                            *)
Notify ==
    /\ \/ console = "greeted" /\ console' = "wait" /\ control' = control + 1 /\ UNCHANGED shown
       \/ /\ console = "drawn" /\ PointerFits
          /\ shown' = draw_pointer
          /\ console' = "wait" /\ control' = control + 1
       \/ console = "drawn" /\ ~PointerFits /\ console' = "dead" /\ UNCHANGED <<control, shown>>
    /\ UNCHANGED <<cells, cursor, current_line, mouse, handed, reports, hid, input_events, gpu, display, crossed>>

-----------------------------------------------------------------------------
(* The display driver: one flush for each message.                           *)

GpuReceives ==
    /\ gpu = "poll" /\ control > 0
    /\ control' = control - 1 /\ gpu' = "flush"
    /\ UNCHANGED <<cells, shown, cursor, current_line, mouse, console, handed, reports, hid, input_events, display, crossed>>

GpuFlushes ==
    /\ gpu = "flush"
    /\ display' = shown /\ gpu' = "poll"
    /\ UNCHANGED <<cells, shown, cursor, current_line, mouse, console, handed, reports, hid, input_events, control, crossed>>

ConsoleNext ==
    \/ HandoffFramebuffer \/ \E e \in InputEvents : DeviceReports(e)
    \/ InputTask \/ ConsoleTask \/ Notify
    \/ GpuReceives \/ GpuFlushes

ConsoleSpec == ConsoleInit /\ [][ConsoleNext]_cvars

-----------------------------------------------------------------------------
(* The cells up to the cursor spell the prompt and the line that Return will *)
(* hand to the interpreter, the only character a cell shows is its own, and  *)
(* the cells from the cursor on are blank: whatever was typed, deleted,      *)
(* wrapped or scrolled, as long as no deletion goes back over the start of a *)
(* row.  What a cell may show besides its character is the mouse pointer,    *)
(* drawn there now or earlier and never removed.                             *)
TypedLineShown ==
    console \in {"wait", "drawn", "greeted"} /\ ~crossed =>
      LET text == Prompt \o current_line
          end == cursor.y * Width + cursor.x
      IN /\ \A i \in Cells : shown[i] \ {Pointer} = Ink(cells[i])
         /\ \A i \in Cells : i >= end => cells[i] = " "
         /\ \A k \in DOMAIN text : LET i == end - Len(text) + k - 1
                                   IN i \in Cells => cells[i] = text[k]

(* Once the display driver has answered every message, the display shows     *)
(* what the console drew: a message is sent after the drawing it announces,  *)
(* and a flush that is already running is followed by another.               *)
DisplayUpToDate ==
    console \in {"wait", "off"} /\ control = 0 /\ gpu = "poll" => display = shown

(* The rectangle drawn for the mouse pointer is inside the framebuffer, as   *)
(* draw_rect asserts.                                                        *)
PointerOnScreen == console = "drawn" => PointerFits
=============================================================================
