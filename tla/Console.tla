-------------------------------- MODULE Console --------------------------------
(***************************************************************************)
(* The kernel's messages: the ring buffer of md_kputc (x86_64/kmain.c) and *)
(* the terminal, which shows what the ring holds when it is attached       *)
(* (dev/fbterm/FBTerminal.m) and every message from then on.               *)
(*                                                                         *)
(* kprintf holds a lock for a whole message.  The ring is read only when   *)
(* the terminal is attached, and is left out from then on.                 *)
(***************************************************************************)
EXTENDS Terminal

CONSTANTS
    BufSize,     \* sizeof(msgbuf.buf): 4096
    EarlyMsgs,   \* messages printed before the terminal is attached,
    Messages,    \*   and after that
    MaxEarly, MaxPrints   \* bounds: how many of these

ASSUME ConsoleAssumption ==
    BufSize \in Nat \ {0, 1} /\ MaxEarly \in Nat /\ MaxPrints \in Nat

VARIABLES
    msgbuf,   \* buf, read, write
    syscon,   \* whether the terminal is attached
    term,
    log,      \* the characters printed before that, until the next message
    prints    \* the messages printed since the start, or since attaching

console_vars == <<msgbuf, syscon, term, log, prints>>

ConsoleInit ==
    /\ msgbuf = [buf |-> [i \in 0 .. BufSize - 1 |-> "NUL"], read |-> 0, write |-> 0]
    /\ syscon = FALSE
    /\ term = NewTerminal
    /\ log = <<>>
    /\ prints = 0

\* The ring's part of md_kputc: a reader that has been overtaken moves on by one.
RingPut_Keep(b, c) ==  \* mutant: the overtaken reader stays
    LET w == IF b.write + 1 >= BufSize THEN 0 ELSE b.write + 1
    IN  [b EXCEPT !.buf[b.write] = c, !.write = w]
RingPut(b, c) ==
    LET w == IF b.write + 1 >= BufSize THEN 0 ELSE b.write + 1
        r == IF b.read # w THEN b.read ELSE IF b.read + 1 = w THEN 0 ELSE b.read + 1
    IN  [buf |-> [b.buf EXCEPT ![b.write] = c], read |-> r, write |-> w]

\* FBTerminal's putc.
putc(t, c) ==
    IF c = "LF" THEN gterm_double_buffer_flush(term_putchar(t, c)) ELSE term_putchar(t, c)

\* On a cursor outside of the screen a flush reads and writes beyond the grid; a
\* behaviour ends there.
OnScreen(t) == t.x < cols /\ t.y < rows

kprintf_early(msg) ==
    /\ ~syscon
    /\ prints < MaxEarly
    /\ msgbuf' = FoldLeft(RingPut, msgbuf, msg)
    /\ log' = log \o msg
    /\ prints' = prints + 1
    /\ UNCHANGED <<syscon, term>>

\* What initWithFB finds in the ring.  When write has come back to 0 its loop
\* misses the end and never stops.
ReplayEnds == msgbuf.write # 0 \/ msgbuf.read = 0
Replayed ==
    LET first == IF msgbuf.read >= BufSize THEN 0 ELSE msgbuf.read
        n == (msgbuf.write - first + BufSize) % BufSize
    IN  [i \in 1 .. n |-> msgbuf.buf[(first + i - 1) % BufSize]]
initWithFB ==
    /\ ~syscon
    /\ ReplayEnds
    /\ syscon' = TRUE
    /\ term' = gterm_double_buffer_flush(FoldLeft(term_putchar, NewTerminal, Replayed))
    /\ prints' = 0
    /\ UNCHANGED <<msgbuf, log>>

Late ==
    /\ syscon /\ OnScreen(term)
    /\ prints < MaxPrints /\ prints' = prints + 1
    /\ log' = <<>>

kprintf(msg) ==
    /\ Late
    /\ term' = FoldLeft(putc, term, msg)
    /\ UNCHANGED <<msgbuf, syscon>>

\* term_write, called by write:len:.
term_write(msg) ==
    /\ Late
    /\ LET t == FoldLeft(term_putchar, term, msg)
       IN  OnScreen(t) /\ term' = gterm_double_buffer_flush(t)
    /\ UNCHANGED <<msgbuf, syscon>>

sysconflush ==
    /\ syscon /\ OnScreen(term)
    /\ term.queue # <<>> \/ <<term.oldx, term.oldy>> # <<term.x, term.y>>
    /\ term' = gterm_double_buffer_flush(term)
    /\ UNCHANGED <<msgbuf, syscon, log, prints>>

ConsoleNext ==
    \/ \E msg \in EarlyMsgs : kprintf_early(msg)
    \/ initWithFB
    \/ \E msg \in Messages : kprintf(msg) \/ term_write(msg)
    \/ sysconflush

------------------------------------------------------------------------------
\* Messages are kept: what the ring holds is the end of what was printed, however
\* often the ring has wrapped, and the terminal shows it when it is attached.
MessagesKept ==
    /\ ~syscon /\ ReplayEnds => IsSuffix(Replayed, log) /\ (log # <<>> => Replayed # <<>>)
    /\ syscon /\ prints = 0 /\ Len(log) < BufSize => Text(term) = Text(FoldLeft(term_putchar, NewTerminal, log))

\* The screen shows the grid, although a flush draws only the cells that are
\* queued, and of those only the pixels that change - but for the cursor, which
\* is drawn over the cell it was in at the last flush.  A cell is
\* queued once, so that the queue never outgrows its array.
ScreenShowsGrid ==
    LET old == Cell(term.oldx, term.oldy)
    IN  /\ \A i \in Cells \ {old} : term.screen[i] = term.grid[i]
        /\ term.screen[old] \in {term.grid[old], Reversed(term.grid[old])}
        /\ \A i, j \in DOMAIN term.queue : i # j => term.queue[i].cell # term.queue[j].cell
        /\ \A i \in Cells : term.map[i] # 0 =>
               term.map[i] \in DOMAIN term.queue /\ term.queue[term.map[i]].cell = i

\* The cursor never leaves the screen, whatever is written, as long as the
\* scrolling region reaches the last line.
CursorOnScreen == OnScreen(term) \/ (term.x < cols /\ term.bottom < rows)

\* A line feed on the last line of the scrolling region moves the region's lines
\* up by one and no other line, and a flush changes no text.
Row(text, y) == [x \in 0 .. cols - 1 |-> text[Cell(x, y)]]
Scrolled(t, s) ==
    \A y \in 0 .. rows - 1 :
        IF y \in t.top .. t.bottom - 2 THEN Row(Text(s), y) = Row(Text(t), y + 1)
        ELSE y # t.bottom - 1 => Row(Text(s), y) = Row(Text(t), y)
ScrollKeepsRest ==
    [][/\ kprintf(<<"LF">>) /\ term.y = term.bottom - 1
          /\ ~term.parser.escape /\ ~term.parser.discard /\ term.parser.gsel = 0
            => Scrolled(term, term')
       /\ sysconflush => Text(term') = Text(term)]_term
===============================================================================
