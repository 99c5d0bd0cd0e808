------------------------------- MODULE Terminal -------------------------------
(***************************************************************************)
(* The framebuffer terminal: the parser of dev/fbterm/term.c and the grid  *)
(* of dev/fbterm/gterm.c.                                                  *)
(*                                                                         *)
(* A character written changes the grid only through a queue; a flush      *)
(* draws what is queued and the cursor.  A cell on the screen is what was  *)
(* drawn there last, and not its pixels.  There is no callback (FBTerminal *)
(* passes NULL), so that the sequences that only report do nothing.        *)
(* Characters are strings of length one, and ESC, CSI, DEL, TAB, BS, CR,   *)
(* LF, SO, SI, GRAVE.                                                      *)
(*                                                                         *)
(* The terminal is a value t; its functions are operators from t to t.     *)
(***************************************************************************)
EXTENDS Integers, Sequences, SequencesExt, FiniteSets

CONSTANTS
    cols, rows,      \* the size of the grid
    TERM_TABSIZE,    \* 8
    MAX_ESC_VALUES   \* 16

ASSUME TerminalAssumption ==
    /\ cols \in Nat \ {0} /\ rows \in Nat \ {0, 1}
    /\ TERM_TABSIZE \in Nat \ {0} /\ MAX_ESC_VALUES \in Nat \ {0, 1}

Cells == 0 .. rows * cols - 1
Cell(x, y) == x + y * cols

\* Colours: 0 .. 7, the same 8 brighter; the default foreground is black, the
\* default background transparent.
Bright(n)   == n + 8
DefaultFg   == 0
Transparent == 16
NoPrimary   == -1

Char(c, fg, bg) == [c |-> c, fg |-> fg, bg |-> bg]
Blank == Char(" ", DefaultFg, Transparent)
Reversed(ch) == Char(ch.c, ch.bg, ch.fg)
Mixed == Char("mixed", 0, 0)  \* pixels of two characters

------------------------------------------------------------------------------
\* The grid.  map[i] is the index of cell i's item in the queue, or 0.
Text(t) == [i \in Cells |-> IF t.map[i] # 0 THEN t.queue[t.map[i]].c ELSE t.grid[i]]

push_to_queue_Again(t, ch, x, y) ==  \* mutant: a queued cell is queued again
    LET i == Cell(x, y)
    IN  IF x >= cols \/ y >= rows \/ t.grid[i] = ch THEN t
        ELSE [t EXCEPT !.queue = Append(@, [cell |-> i, c |-> ch]), !.map[i] = Len(t.queue) + 1]
push_to_queue(t, ch, x, y) ==
    LET i == Cell(x, y)
    IN  IF x >= cols \/ y >= rows THEN t
        ELSE IF t.map[i] # 0 THEN [t EXCEPT !.queue[t.map[i]].c = ch]
        ELSE IF t.grid[i] = ch THEN t
        ELSE [t EXCEPT !.queue = Append(@, [cell |-> i, c |-> ch]), !.map[i] = Len(t.queue) + 1]

Fill(t, first, last) ==  \* the cells first .. last are emptied
    FoldLeft(LAMBDA s, i : push_to_queue(s, Char(" ", t.fg, t.bg), i % cols, i \div cols),
             t, [k \in 1 .. last - first + 1 |-> first + k - 1])
Move(t, from, to) == push_to_queue(t, Text(t)[from], to % cols, to \div cols)

gterm_scroll_All(t) ==  \* mutant: the top margin is ignored
    LET n == (t.bottom - 1) * cols
    IN  Fill(FoldLeft(LAMBDA s, i : Move(s, i, i - cols), t, [k \in 1 .. n |-> cols + k - 1]),
             (t.bottom - 1) * cols, t.bottom * cols - 1)
gterm_scroll(t) ==
    LET first == (t.top + 1) * cols
        n     == t.bottom * cols - first
    IN  Fill(FoldLeft(LAMBDA s, i : Move(s, i, i - cols), t, [k \in 1 .. n |-> first + k - 1]),
             (t.bottom - 1) * cols, t.bottom * cols - 1)
gterm_revscroll(t) ==
    LET last == (t.bottom - 1) * cols - 1
        n    == last - t.top * cols + 1
    IN  Fill(FoldLeft(LAMBDA s, i : Move(s, i, i + cols), t, [k \in 1 .. n |-> last - k + 1]),
             t.top * cols, (t.top + 1) * cols - 1)

gterm_clear(t, move) ==
    LET s == Fill(t, 0, rows * cols - 1)
    IN  IF move THEN [s EXCEPT !.x = 0, !.y = 0] ELSE s

Clamp(n, size) == IF n < 0 THEN 0 ELSE IF n >= size THEN size - 1 ELSE n
gterm_set_cursor_pos(t, x, y) == [t EXCEPT !.x = Clamp(x, cols), !.y = Clamp(y, rows)]

gterm_move_character(t, new_x, old_x, y) ==
    IF old_x >= cols \/ new_x >= cols \/ y >= rows THEN t
    ELSE Move(t, Cell(old_x, y), Cell(new_x, y))

\* gterm_putchar: at the end of a line the cursor stays beyond it if it is on
\* the region's last line, or below, and scrolling is disabled.
gterm_putchar_NoScroll(t, c) ==  \* mutant: the cursor may leave the region
    LET t1 == push_to_queue([t EXCEPT !.x = @ + 1], Char(c, t.fg, t.bg), t.x, t.y)
    IN  IF t1.x = cols /\ (t1.y < t.bottom - 1 \/ t.scroll)
        THEN [t1 EXCEPT !.x = 0, !.y = @ + 1] ELSE t1
gterm_putchar(t, c) ==
    LET t1 == push_to_queue([t EXCEPT !.x = @ + 1], Char(c, t.fg, t.bg), t.x, t.y)
        t2 == IF t1.x = cols /\ (t1.y < t.bottom - 1 \/ t.scroll)
              THEN [t1 EXCEPT !.x = 0, !.y = @ + 1] ELSE t1
    IN  IF t2.y = t.bottom THEN gterm_scroll([t2 EXCEPT !.y = @ - 1]) ELSE t2
Spaces(t, n) == FoldLeft(LAMBDA s, i : gterm_putchar(s, " "), t, [i \in 1 .. n |-> i])

\* gterm_double_buffer_flush.  draw_cursor draws the cell under the cursor, and
\* takes it off the queue.
draw_cursor(t) ==
    LET i  == Cell(t.x, t.y)
        ch == Text(t)[i]
    IN  [t EXCEPT !.screen[i] = Reversed(ch), !.grid[i] = ch, !.map[i] = 0]

\* plot_char_fast changes only the pixels in which the old and the new character
\* differ, plot_char all.
Plotted(shown, old, new) ==
    IF <<old.fg, old.bg>> # <<new.fg, new.bg>> THEN new
    ELSE IF shown = old THEN new ELSE IF old.c = new.c THEN shown ELSE Mixed
FlushItem(t, q) ==
    IF t.map[q.cell] = 0 THEN t
    ELSE [t EXCEPT !.screen[q.cell] = Plotted(@, t.grid[q.cell], q.c),
                   !.grid[q.cell] = q.c, !.map[q.cell] = 0]
gterm_double_buffer_flush(t) ==
    LET t1  == IF t.cursor THEN draw_cursor(t) ELSE t
        t2  == FoldLeft(FlushItem, t1, t.queue)
        old == Cell(t.oldx, t.oldy)
        t3  == IF <<t.oldx, t.oldy>> # <<t.x, t.y>> \/ ~t.cursor
               THEN [t2 EXCEPT !.screen[old] = t2.grid[old]] ELSE t2
    IN  [t3 EXCEPT !.oldx = t.x, !.oldy = t.y, !.queue = <<>>]

------------------------------------------------------------------------------
\* The context of the parser after term_reinit, which keeps what is not named.
Idle == [escape |-> FALSE, csi |-> FALSE, control |-> FALSE, rrr |-> FALSE, discard |-> FALSE,
         dec |-> FALSE, offset |-> 0, vals |-> <<>>, gsel |-> 0]
term_reinit(t) ==
    [t EXCEPT !.parser = Idle, !.bold = FALSE, !.reverse = FALSE,
              !.primary = NoPrimary, !.insert = FALSE, !.top = 0, !.bottom = rows,
              !.charset = 0, !.charsets = <<"default", "special">>, !.savedcursor = <<0, 0>>]

\* term_init and term_vbe: the grid has been cleared and drawn.
NewTerminal == term_reinit(
    [parser |-> Idle, bold |-> FALSE, reverse |-> FALSE, primary |-> NoPrimary,
     insert |-> FALSE, top |-> 0, bottom |-> rows, charset |-> 0, charsets |-> <<>>,
     savedcursor |-> <<0, 0>>,
     saved |-> [bold |-> FALSE, reverse |-> FALSE, charset |-> 0, primary |-> 0,
                fg |-> 0, bg |-> 0, x |-> 0, y |-> 0],
     fg |-> DefaultFg, bg |-> Transparent, cursor |-> TRUE, scroll |-> TRUE, x |-> 0, y |-> 0,
     oldx |-> 0, oldy |-> 0, grid |-> [i \in Cells |-> Blank], map |-> [i \in Cells |-> 0],
     queue |-> <<>>, screen |-> [[i \in Cells |-> Blank] EXCEPT ![0] = Reversed(Blank)]])

\* term_save_state and term_restore_state.
term_save_state(t) ==
    [t EXCEPT !.saved = [bold |-> t.bold, reverse |-> t.reverse, charset |-> t.charset,
                         primary |-> t.primary, fg |-> t.fg, bg |-> t.bg, x |-> t.x, y |-> t.y]]
term_restore_state(t) ==
    LET s == t.saved
    IN  [t EXCEPT !.bold = s.bold, !.reverse = s.reverse, !.charset = s.charset,
                  !.primary = s.primary, !.fg = s.fg, !.bg = s.bg, !.x = s.x, !.y = s.y]

\* term_sgr: one value.  In reverse video the colours have changed places.
Ink(t)   == IF t.reverse THEN "bg" ELSE "fg"
Paper(t) == IF t.reverse THEN "fg" ELSE "bg"
Swapped(t, r) == IF t.reverse = r THEN t ELSE [t EXCEPT !.reverse = r, !.fg = t.bg, !.bg = t.fg]
Shade(n, bright) == IF bright THEN Bright(n) ELSE n
Embolden(t, b) ==
    LET s == [t EXCEPT !.bold = b]
    IN  IF t.primary = NoPrimary THEN s ELSE [s EXCEPT ![Ink(t)] = Shade(t.primary, b)]
Sgr(t, v) ==
    CASE v = 0 -> [Swapped(t, FALSE) EXCEPT !.bold = FALSE, !.primary = NoPrimary,
                                            !.bg = Transparent, !.fg = DefaultFg]
      [] v \in {1, 22}     -> Embolden(t, v = 1)
      [] v \in {7, 27}     -> Swapped(t, v = 7)
      [] v \in 30 .. 37    -> [t EXCEPT !.primary = v - 30, ![Ink(t)] = Shade(v - 30, t.bold)]
      [] v \in 40 .. 47    -> [t EXCEPT ![Paper(t)] = v - 40]
      [] v \in 90 .. 97    -> [t EXCEPT !.primary = v - 90, ![Ink(t)] = Bright(v - 90)]
      [] v \in 100 .. 107  -> [t EXCEPT ![Paper(t)] = Bright(v - 100)]
      [] v = 39            -> [t EXCEPT !.primary = NoPrimary, ![Ink(t)] = DefaultFg]
      [] v = 49            -> [t EXCEPT ![Paper(t)] = Transparent]
      [] OTHER             -> t
term_sgr(t) ==
    FoldLeft(Sgr, t, IF t.parser.vals = <<>> THEN <<0>> ELSE t.parser.vals)

------------------------------------------------------------------------------
\* Control sequences.  v is the first value, or its default.
AtMost(n, m) == IF n > m THEN m ELSE n

\* Cursor up and down, which stop at the region's margin if they pass it.
Crosses(t, a, b) == t.top \in a .. b \/ t.bottom \in a .. b
Up(t, x, v) ==
    LET dest == t.y - AtMost(v, t.y)
    IN  gterm_set_cursor_pos(t, x, IF Crosses(t, dest, t.y) /\ dest < t.top THEN t.top ELSE dest)
Down(t, x, v) ==
    LET dest == AtMost(t.y + v, rows - 1)
    IN  gterm_set_cursor_pos(t, x, IF Crosses(t, t.y, dest) /\ dest >= t.bottom
                                   THEN t.bottom - 1 ELSE dest)

\* A position counted from 1; 0 wraps around and is the last one.
Position(v, size) == IF v = 0 \/ v > size THEN size - 1 ELSE v - 1

BackTo(s, t) == gterm_set_cursor_pos(s, t.x, t.y)

EraseDisplay(t, v) ==
    CASE v = 0 -> BackTo(Spaces(t, (rows - (t.y + 1)) * cols + (cols - (t.x + 1))), t)
      [] v = 1 -> BackTo(Spaces(gterm_set_cursor_pos(t, 0, 0), Cell(t.x, t.y) + 1), t)
      [] v \in {2, 3} -> gterm_clear(t, FALSE)
      [] OTHER -> t
EraseLine(t, v) ==
    CASE v = 0 -> BackTo(Spaces(t, cols - t.x), t)
      [] v = 1 -> Spaces(gterm_set_cursor_pos(t, 0, t.y), t.x)
      [] v = 2 -> BackTo(Spaces(gterm_set_cursor_pos(t, 0, t.y), cols), t)
      [] OTHER -> t
InsertBlanks(t, v) ==
    LET step(s, i) == Spaces(gterm_set_cursor_pos(gterm_move_character(s, i + v, i, t.y), i, t.y), 1)
    IN  BackTo(FoldLeft(step, t, [k \in 1 .. cols - t.x |-> cols - k]), t)
EraseChars(s, t, v) == BackTo(Spaces(s, v), t)
DeleteChars(t, v) ==
    LET step(s, i) == gterm_move_character(s, i - v, i, t.y)
        n == cols - (t.x + v)
    IN  EraseChars(gterm_set_cursor_pos(FoldLeft(step, t, [k \in 1 .. n |-> t.x + v + k - 1]),
                                        cols - v, t.y), t, v)

\* The scrolling region has at least two lines and lies on the screen; or it ends
\* at line 0, where the unsigned subtraction wraps (no run writes that).
SetMargins(t) ==
    LET vals == t.parser.vals
        top  == IF Len(vals) > 0 THEN vals[1] - 1 ELSE 0
        bot  == IF Len(vals) > 1 THEN vals[2] ELSE rows
        bad  == top < 0 \/ top >= rows \/ bot > rows
                \/ (bot # 0 /\ top >= bot - 1)
    IN  gterm_set_cursor_pos([t EXCEPT !.top = IF bad THEN 0 ELSE top,
                                       !.bottom = IF bad THEN rows ELSE bot], 0, 0)

\* term_dec_private_parse and term_mode_toggle; without a value they do nothing.
term_dec_private_parse(t, c) ==
    IF t.parser.vals # <<>> /\ t.parser.vals[1] = 25 /\ c \in {"h", "l"}
    THEN [t EXCEPT !.cursor = (c = "h")] ELSE t
term_mode_toggle(t, c) ==
    IF t.parser.vals # <<>> /\ t.parser.vals[1] = 4 THEN [t EXCEPT !.insert = (c = "h")] ELSE t

\* The last character of a control sequence.
ControlFinal(t, c) ==
    LET vals == t.parser.vals
        def  == IF c \in {"J", "K", "q"} THEN 0 ELSE 1
        v    == IF Len(vals) > 0 THEN vals[1] ELSE def
        w    == IF Len(vals) > 1 THEN vals[2] ELSE def
    IN  CASE c = "F"              -> Up(t, 0, v)
          [] c = "A"              -> Up(t, t.x, v)
          [] c = "E"              -> Down(t, 0, v)
          [] c \in {"e", "B"}     -> Down(t, t.x, v)
          [] c \in {"a", "C"}     -> gterm_set_cursor_pos(t, AtMost(t.x + v, cols - 1), t.y)
          [] c = "D"              -> gterm_set_cursor_pos(t, t.x - AtMost(v, t.x), t.y)
          [] c = "d"              -> gterm_set_cursor_pos(t, t.x, Position(v, rows))
          [] c \in {"G", "GRAVE"} -> gterm_set_cursor_pos(t, Position(v, cols), t.y)
          [] c \in {"H", "f"}     -> gterm_set_cursor_pos(t, Position(w, cols), Position(v, rows))
          [] c = "J"              -> EraseDisplay(t, v)
          [] c = "K"              -> EraseLine(t, v)
          [] c = "@"              -> InsertBlanks(t, v)
          [] c = "P"              -> DeleteChars(t, v)
          [] c = "X"              -> EraseChars(t, t, v)
          [] c = "m"              -> term_sgr(t)
          [] c = "s"              -> [t EXCEPT !.savedcursor = <<t.x, t.y>>]
          [] c = "u"              -> gterm_set_cursor_pos(t, t.savedcursor[1], t.savedcursor[2])
          [] c = "r"              -> SetMargins(t)
          [] c \in {"h", "l"}     -> term_mode_toggle(t, c)
          [] OTHER                -> t  \* reports, and sequences it does not know

------------------------------------------------------------------------------
\* The parser.  vals are the values read so far; while rrr the last one may grow.
Digits == <<"0", "1", "2", "3", "4", "5", "6", "7", "8", "9">>
Digit(c) == SelectInSeq(Digits, LAMBDA d : d = c) - 1

Done(t) == [t EXCEPT !.parser.control = FALSE, !.parser.escape = FALSE]

term_control_sequence_parse(t, c) ==
    LET p    == t.parser
        full == Len(p.vals) = MAX_ESC_VALUES
        grown == IF p.rrr THEN [p.vals EXCEPT ![Len(p.vals)] = @ * 10 + Digit(c)]
                 ELSE Append(p.vals, Digit(c))
        run  == ControlFinal([t EXCEPT !.parser.rrr = FALSE, !.scroll = FALSE], c)
    IN  CASE p.offset = 2 /\ c = "[" -> Done([t EXCEPT !.parser.discard = TRUE])
          [] p.offset = 2 /\ c = "?" -> [t EXCEPT !.parser.dec = TRUE]
          [] Digit(c) >= 0 ->
                 IF full /\ ~p.rrr THEN t
                 ELSE [t EXCEPT !.parser.rrr = TRUE, !.parser.vals = grown]
          [] c = ";" ->
                 IF p.rrr THEN [t EXCEPT !.parser.rrr = FALSE]
                 ELSE IF full THEN t ELSE [t EXCEPT !.parser.vals = Append(@, 0)]
          [] p.dec -> Done([term_dec_private_parse(t, c) EXCEPT !.parser.dec = FALSE,
                                                                !.parser.rrr = FALSE])
          [] OTHER -> Done([run EXCEPT !.scroll = t.scroll])

\* A line feed at column x; index and reverse index.
Feed(t, x) ==
    IF t.y = t.bottom - 1 THEN gterm_set_cursor_pos(gterm_scroll(t), x, t.y)
    ELSE gterm_set_cursor_pos(t, x, t.y + 1)
RevFeed(t) ==
    IF t.y = t.top THEN gterm_set_cursor_pos(gterm_revscroll(t), 0, t.y)
    ELSE gterm_set_cursor_pos(t, 0, t.y - 1)

term_escape_parse(t, c) ==
    LET u == [t EXCEPT !.parser.offset = AtMost(@ + 1, 3)]  \* only whether it is 2 matters
        begin == [u EXCEPT !.parser.csi = FALSE, !.parser.vals = <<>>, !.parser.rrr = FALSE,
                           !.parser.control = TRUE]
        end(s) == [s EXCEPT !.parser.escape = FALSE]
    IN  CASE t.parser.control          -> term_control_sequence_parse(u, c)
          [] ~t.parser.control /\ (t.parser.csi \/ c = "[") -> begin
          [] OTHER -> end(CASE c = "7" -> term_save_state(u)
                            [] c = "8" -> term_restore_state(u)
                            [] c = "c" -> gterm_clear(term_reinit(u), TRUE)
                            [] c = "D" -> Feed(u, u.x)
                            [] c = "E" -> Feed(u, 0)
                            [] c = "M" -> RevFeed(u)
                            [] c \in {"(", ")"} ->
                                   [u EXCEPT !.parser.gsel = IF c = "(" THEN 1 ELSE 2]
                            [] c = "ESC" -> gterm_putchar(u, "ESC")
                            [] OTHER -> u)

\* An ordinary character, in insert mode and through the character set.
term_dec_special_to_cp437(c) == IF c = "q" THEN "line" ELSE c
Ordinary(t, c) ==
    LET shifted == FoldLeft(LAMBDA s, i : gterm_move_character(s, i + 1, i, t.y),
                            t, [k \in 1 .. cols - t.x |-> cols - k])
    IN  gterm_putchar(IF t.insert THEN shifted ELSE t,
                      IF t.charsets[t.charset + 1] = "special"
                      THEN term_dec_special_to_cp437(c) ELSE c)

\* term_putchar.  (Outside of the "runtime" no character cancels a sequence.)
term_putchar(t, c) ==
    LET p == t.parser
        named == IF c = "B" THEN "default" ELSE "special"
        tab == t.x \div TERM_TABSIZE + 1
    IN  CASE p.discard -> [t EXCEPT !.parser = [Idle EXCEPT !.vals = p.vals, !.rrr = p.rrr,
                                                            !.dec = p.dec, !.offset = p.offset]]
          [] ~p.discard /\ p.escape -> term_escape_parse(t, c)
          [] ~p.discard /\ ~p.escape /\ p.gsel # 0 ->
                 LET s == [t EXCEPT !.parser.gsel = 0]
                 IN  IF c \in {"B", "0"} THEN [s EXCEPT !.charsets[p.gsel] = named] ELSE s
          [] OTHER ->
             CASE c = "DEL" -> t
               [] c \in {"ESC", "CSI"} -> [t EXCEPT !.parser.offset = 0, !.parser.escape = TRUE,
                                                    !.parser.csi = @ \/ c = "CSI"]
               [] c = "TAB" -> gterm_set_cursor_pos(t, IF tab >= cols THEN cols - 1
                                                       ELSE tab * TERM_TABSIZE, t.y)
               [] c = "LF"  -> Feed(t, 0)
               [] c = "BS"  -> gterm_set_cursor_pos(t, t.x - 1, t.y)
               [] c = "CR"  -> gterm_set_cursor_pos(t, 0, t.y)
               [] c \in {"SO", "SI"} -> [t EXCEPT !.charset = IF c = "SO" THEN 1 ELSE 0]
               [] OTHER -> Ordinary(t, c)
===============================================================================
