------------------------------- MODULE Screen -------------------------------
(***************************************************************************)
(* The screen (drivers/screen.c): a buffer of characters that all          *)
(* processes share, a cursor and a scrolling region for each of them, and  *)
(* a terminal that is sent only what has changed.  Calls run under the     *)
(* kernel lock; a write may be cut short when the page of the buffer       *)
(* cannot be had and the process is ended.  The terminal is external.      *)
(* A region is any two integers, since nothing checks it: a new line may   *)
(* scroll past the end of the buffer.  What that overwrites is not         *)
(* modelled: the model stops there.                                        *)
(***************************************************************************)
EXTENDS Integers, Sequences, SequencesExt, FiniteSets

CONSTANTS
  Writer,                        \* processes
  SCREEN_WIDTH, SCREEN_HEIGHT,
  SCR_WRITE_MAX,                 \* characters of one write
  Glyph,                         \* printable characters other than a space
  Regions,                       \* scrolling regions that processes ask for, <<l, h>>
  MaxTorn                        \* bound on writes cut short between two reflushes

ASSUME ScreenAssumption ==
  /\ {SCREEN_WIDTH, SCREEN_HEIGHT, SCR_WRITE_MAX, MaxTorn} \subseteq Nat \ {0}
  /\ Regions \subseteq Int \X Int

VARIABLES
  new_screen, old_screen,        \* by SCREEN_LOC
  cursor,                        \* <<cursor_x, cursor_y>> of each process
  cylim,                         \* <<cylim_l, cylim_h>> of each process
  terminal,                      \* .shows and .at, where it prints next
  torn,                          \* ghost: writes cut short since the last reflush
  overrun                        \* a scroll has gone past the buffer

screenvars == <<new_screen, old_screen, cursor, cylim, terminal, torn, overrun>>

SCREEN_LOC(x, y) == y * SCREEN_WIDTH + x
Cell == 0 .. SCREEN_WIDTH * SCREEN_HEIGHT - 1
X(c) == c % SCREEN_WIDTH
Y(c) == c \div SCREEN_WIDTH
Space == " "
Blank == [c \in Cell |-> Space]
NoRegion == <<0 - 1, 0 - 1>>
Character == Glyph \cup {"LF", "BS"}
-----------------------------------------------------------------------------
(* Characters; s has the screen .scr, the writer's cursor .x, .y, and .over *)
(* once a scroll has gone past the buffer                                  *)

\* A new line, which scrolls region r when the cursor leaves it or cannot go down
LineFeed(s, r) ==
  LET limited == s.y = SCREEN_HEIGHT - 1
      y == IF limited THEN s.y ELSE s.y + 1
      l == r[1]  h == r[2]
      scrolls == l >= 0 /\ h >= l /\ (y > h \/ limited) IN
  CASE scrolls /\ h >= SCREEN_HEIGHT -> [s EXCEPT !.over = TRUE]
    [] scrolls /\ h < SCREEN_HEIGHT ->
         [scr |-> [c \in Cell |-> CASE Y(c) = h -> Space
                                    [] Y(c) \in l .. h - 1 -> s.scr[c + SCREEN_WIDTH]
                                    [] OTHER -> s.scr[c]],
          x |-> 0, y |-> h, over |-> s.over]
    [] OTHER -> [s EXCEPT !.x = 0, !.y = y]

Backspace(s) ==
  CASE s.x > 0 -> [s EXCEPT !.x = @ - 1]
    [] s.x = 0 /\ s.y > 0 -> [s EXCEPT !.x = SCREEN_WIDTH - 1, !.y = @ - 1]
    [] OTHER -> s

screen_write_ch(s, ch, r) ==
  CASE s.over -> s
    [] ~s.over /\ ch = "LF" -> LineFeed(s, r)
    [] ~s.over /\ ch = "BS" -> Backspace(s)
    [] OTHER -> LET t == [s EXCEPT !.scr[SCREEN_LOC(s.x, s.y)] = ch, !.x = @ + 1] IN
                IF t.x >= SCREEN_WIDTH THEN LineFeed(t, r) ELSE t
-----------------------------------------------------------------------------
(* The terminal                                                            *)

\* Mutant of Consecutive: the column need not be the next one.
SameLine(c, last) == Y(c) = Y(last)
\* No cursor movement is sent for cell c after cell last.
Consecutive(c, last) == Y(c) = Y(last) /\ c = last + 1

\* One step of the loop of screen_reflush(): cell c is sent if it has changed.
SendCell(t, c, scr, old) ==
  IF scr[c] = old[c] THEN t
  ELSE LET at == IF t.last # 0 - 2 /\ Consecutive(c, t.last) THEN t.at ELSE c IN
       [shows |-> [t.shows EXCEPT ![at] = scr[c]], at |-> at + 1, last |-> c]
\* screen_reflush() for a process with its cursor at x, y
Reflush(scr, old, shows, x, y) ==
  LET sent == FoldLeft(LAMBDA t, c : SendCell(t, c - 1, scr, old),
                       [shows |-> shows, at |-> 0, last |-> 0 - 2],
                       [i \in 1 .. SCREEN_WIDTH * SCREEN_HEIGHT |-> i]) IN
  /\ new_screen' = scr /\ old_screen' = scr /\ torn' = 0 /\ UNCHANGED overrun
  /\ terminal' = [shows |-> sent.shows, at |-> SCREEN_LOC(x, y)]

screen_reflush(p) ==
  /\ Reflush(new_screen, old_screen, terminal.shows, cursor[p][1], cursor[p][2])
  /\ UNCHANGED <<cursor, cylim>>
-----------------------------------------------------------------------------
(* Operations of process p                                                 *)

Written(p, buff) ==
  FoldLeft(LAMBDA s, ch : screen_write_ch(s, ch, cylim[p]),
           [scr |-> new_screen, x |-> cursor[p][1], y |-> cursor[p][2], over |-> FALSE], buff)

\* screen_write(), from printk() and from do_screen_write()
screen_write(p, buff) ==
  LET s == Written(p, buff) IN
  /\ ~s.over
  /\ Reflush(s.scr, old_screen, terminal.shows, s.x, s.y)
  /\ cursor' = [cursor EXCEPT ![p] = <<s.x, s.y>>] /\ UNCHANGED cylim

\* A page fault after the characters of buff ends p; a new process follows it.
WriteCutShort(p, buff) ==
  /\ ~Written(p, buff).over /\ torn < MaxTorn /\ torn' = torn + 1
  /\ new_screen' = Written(p, buff).scr
  /\ cursor' = [cursor EXCEPT ![p] = <<0, 0>>] /\ cylim' = [cylim EXCEPT ![p] = NoRegion]
  /\ UNCHANGED <<old_screen, terminal, overrun>>

\* A new line among the characters of buff scrolls past the buffer.
WriteOverruns(p, buff) ==
  /\ Written(p, buff).over /\ overrun' = TRUE
  /\ UNCHANGED <<new_screen, old_screen, cursor, cylim, terminal, torn>>

screen_clear(p) ==
  /\ Reflush(Blank, Blank, Blank, 0, 0)
  /\ cursor' = [cursor EXCEPT ![p] = <<0, 0>>] /\ UNCHANGED cylim

screen_rclear(p, ybegin, yend) ==
  LET scr == [c \in Cell |-> IF Y(c) \in ybegin .. yend - 1 THEN Space ELSE new_screen[c]] IN
  /\ Reflush(IF {ybegin, yend} \subseteq 0 .. SCREEN_HEIGHT - 1 THEN scr ELSE new_screen,
             old_screen, terminal.shows, cursor[p][1], cursor[p][2])
  /\ UNCHANGED <<cursor, cylim>>

Clamp(v, n) == IF v >= n THEN n - 1 ELSE IF v < 0 THEN 0 ELSE v
screen_move_cursor(p, x, y) ==
  LET cx == Clamp(x, SCREEN_WIDTH)  cy == Clamp(y, SCREEN_HEIGHT) IN
  /\ cursor' = [cursor EXCEPT ![p] = <<cx, cy>>]
  /\ terminal' = [terminal EXCEPT !.at = SCREEN_LOC(cx, cy)]
  /\ UNCHANGED <<new_screen, old_screen, cylim, torn, overrun>>

screen_set_cylim(p, r) ==
  /\ cylim' = [cylim EXCEPT ![p] = r]
  /\ UNCHANGED <<new_screen, old_screen, cursor, terminal, torn, overrun>>
-----------------------------------------------------------------------------
\* init_screen()
ScreenInit ==
  /\ new_screen = Blank /\ old_screen = Blank /\ torn = 0 /\ overrun = FALSE
  /\ cursor = [p \in Writer |-> <<0, 0>>] /\ cylim = [p \in Writer |-> NoRegion]
  /\ terminal = [shows |-> Blank, at |-> 0]
ScreenNext ==
  /\ ~overrun
  /\ \E p \in Writer :
      \/ screen_reflush(p) \/ screen_clear(p)
      \/ \E n \in 1 .. SCR_WRITE_MAX : \E buff \in [1 .. n -> Character] :
           screen_write(p, buff) \/ WriteCutShort(p, buff) \/ WriteOverruns(p, buff)
      \/ \E a, b \in 0 .. SCREEN_HEIGHT : screen_rclear(p, a, b)
      \/ \E x \in 0 - 1 .. SCREEN_WIDTH, y \in 0 - 1 .. SCREEN_HEIGHT : screen_move_cursor(p, x, y)
      \/ \E r \in Regions : screen_set_cylim(p, r)
ScreenSpec == ScreenInit /\ [][ScreenNext]_screenvars
-----------------------------------------------------------------------------
\* A region that takes in lines the screen does not have
BelowScreen(r) == r[1] >= 0 /\ r[2] >= r[1] /\ r[2] >= SCREEN_HEIGHT

\* Although only changes are sent, and cursor movements are left out, the terminal
\* shows what the kernel believes it shows, and that is the whole screen unless a
\* write was cut short since; and no sequence of wrapped lines, scrolling, backspaces
\* and cursor movements takes a cursor off the screen, where the next character would
\* be written past the buffer.  The one way past the buffer is a region that ends
\* below the screen, which screen_set_cylim() does not check.
ScreenSound ==
  \/ overrun /\ \E p \in Writer : BelowScreen(cylim[p])
  \/ /\ ~overrun
     /\ terminal.shows = old_screen
     /\ torn > 0 \/ new_screen = old_screen
     /\ \A p \in Writer : /\ cursor[p][1] \in 0 .. SCREEN_WIDTH - 1
                          /\ cursor[p][2] \in 0 .. SCREEN_HEIGHT - 1
=============================================================================
