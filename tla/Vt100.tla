------------------------------- MODULE Vt100 --------------------------------
(***************************************************************************)
(* The serial terminal of the KIM-1, Apple 1 and 1802 machines             *)
(* (vt100.c, built with SDL_ttf): a guest writes bytes, the machine's loop *)
(* polls the window.  `term' is the part of Vt100State the bytes change,   *)
(* `window' what the SDL window shows in each cell.                        *)
(*                                                                         *)
(* A cell is its character, its character set and the pen (colours and     *)
(* style together; only blinking is told apart, since it makes a cell look *)
(* different with time); the underline drawn at the cursor is left out.    *)
(* A byte is named by its character or by its                              *)
(* control code; text bytes stand for the characters that behave alike.    *)
(***************************************************************************)
EXTENDS Integers, Sequences

CONSTANTS
    TermLines,    \* VT100_LINES (24)
    TermCols,     \* VT100_COLS (80)
    TabStop,      \* 8
    Strings,      \* what the guest writes, a string at a time
    KeyRing,      \* KEY_BUF_SIZE and the size of the forward ring (256)
    TermInputs    \* bound: strings written and keys pressed

ASSUME TermAssumption ==
    /\ TermLines \in Nat \ {0} /\ TermCols \in Nat \ {0}
    /\ TabStop \in Nat \ {0} /\ KeyRing \in Nat \ {0} /\ TermInputs \in Nat
    /\ \A s \in Strings : s \in Seq(STRING) /\ s # <<>>

VARIABLES
    term,      \* text, cursor, region, modes, parser and what is to be redrawn
    window,    \* what each cell of the window shows
    cursor_on, \* the blink phase the window was last drawn in
    key_buf, fwd_buf,   \* the rings, oldest byte first
    term_quit, \* should_quit
    coming,    \* what the guest has not yet written of a string
    inputs     \* bounded by TermInputs

termVars == <<term, window, cursor_on, key_buf, fwd_buf, term_quit, coming, inputs>>

Cell == (0..TermLines - 1) \X (0..TermCols - 1)
LastLine == TermLines - 1
LastCol == TermCols - 1

Clamped(n, low, high) == IF n < low THEN low ELSE IF n > high THEN high ELSE n

-----------------------------------------------------------------------------
\* What the bytes do to the screen.

Blank(pen) == [ch |-> " ", cs |-> "ascii", pen |-> pen]

clear_line_range(t, line, c0, c1) ==
  LET R == {p \in Cell : p[1] = line /\ p[2] \in c0..c1}
  IN  [t EXCEPT !.text = [p \in Cell |-> IF p \in R THEN Blank(t.pen) ELSE t.text[p]],
                !.dirty = @ \cup R]

clear_screen_range(t, l0, l1) ==
  LET R == {p \in Cell : p[1] \in l0..l1}
  IN  [t EXCEPT !.text = [p \in Cell |-> IF p \in R THEN Blank(t.pen) ELSE t.text[p]],
                !.dirty = @ \cup R]

\* The lines of R take the text of the line d further down; those that would
\* take it from outside R are cleared.  n line operations in a row move by n.
MMoved(t, R, d, cleared) ==
  [t EXCEPT !.text = [p \in Cell |-> IF p[1] \notin R THEN t.text[p]
                                     ELSE IF p[1] + d \in R THEN t.text[<<p[1] + d, p[2]>>]
                                     ELSE Blank(t.pen)],
            !.dirty = @ \cup {p \in Cell : p[1] = cleared}]
Moved(t, R, d, cleared) ==
  [t EXCEPT !.text = [p \in Cell |-> IF p[1] \notin R THEN t.text[p]
                                     ELSE IF p[1] + d \in R THEN t.text[<<p[1] + d, p[2]>>]
                                     ELSE Blank(t.pen)],
            !.dirty = @ \cup {p \in Cell : p[1] = cleared},
            !.full_redraw = TRUE]

scroll_up_region(t) == Moved(t, t.top..t.bottom, 1, t.bottom)
scroll_down_region(t) == Moved(t, t.top..t.bottom, -1, t.top)
\* Below the region only the cursor's line, and for deletion only the last
\* line of the region, is cleared.
insert_line(t, n) ==
  Moved(t, IF t.line <= t.bottom THEN t.line..t.bottom ELSE {t.line}, -n, t.line)
delete_line(t, n) ==
  Moved(t, IF t.line <= t.bottom THEN t.line..t.bottom ELSE {t.bottom}, n, t.bottom)

Placed(t, l, c) ==
  [t EXCEPT !.line = Clamped(l, 0, LastLine), !.col = Clamped(c, 0, LastCol)]

cursor_home(t) == [t EXCEPT !.line = IF t.origin THEN t.top ELSE 0, !.col = 0]

linefeed(t) ==
  IF t.line = t.bottom /\ t.line >= t.top THEN scroll_up_region(t)
  ELSE IF t.line < LastLine THEN [t EXCEPT !.line = @ + 1] ELSE t

erase_to_eol(t) == clear_line_range(t, t.line, t.col, LastCol)
erase_to_bol(t) == clear_line_range(t, t.line, 0, t.col - 1)
erase_line(t) == clear_line_range(t, t.line, 0, LastCol)
erase_to_eos(t) == clear_screen_range(erase_to_eol(t), t.line + 1, t.bottom)
erase_to_bos(t) == clear_screen_range(erase_to_bol(t), t.top, t.line - 1)

clear_screen(t) ==
  [clear_screen_range(t, 0, LastLine) EXCEPT !.line = 0, !.col = 0, !.full_redraw = TRUE]

\* The characters from the cursor on move n places left or right; the places
\* left over get blanks in the plain style.
RestOfLine(t) == {p \in Cell : p[1] = t.line /\ p[2] >= t.col}

delete_char(t, n) ==
  [t EXCEPT
     !.text = [p \in Cell |-> IF p \notin RestOfLine(t) THEN t.text[p]
                              ELSE IF p[2] + n <= LastCol THEN t.text[<<p[1], p[2] + n>>]
                              ELSE Blank("plain")],
     !.dirty = @ \cup RestOfLine(t)]

insert_char(t, n) ==
  [t EXCEPT
     !.text = [p \in Cell |-> IF p \notin RestOfLine(t) THEN t.text[p]
                              ELSE IF p[2] - n >= t.col THEN t.text[<<p[1], p[2] - n>>]
                              ELSE Blank("plain")],
     !.dirty = @ \cup RestOfLine(t)]

\* Bytes go into a ring while it has room; one slot stays empty.
Room(ring) == KeyRing - 1 - Len(ring)
Pushed(ring, s) == ring \o SubSeq(s, 1, IF Len(s) <= Room(ring) THEN Len(s) ELSE Room(ring))

-----------------------------------------------------------------------------
\* The escape parser.

back_to_normal(t) ==
  [t EXCEPT !.state = "normal", !.params = <<>>, !.private = FALSE, !.designating_g0 = FALSE]

DigitNames == <<"0", "1", "2", "3", "4", "5", "6", "7", "8", "9">>
DigitOf(b) == CHOOSE n \in 0..9 : DigitNames[n + 1] = b
IsDigit(b) == \E n \in 1..10 : DigitNames[n] = b

\* SGR: only blinking is told apart from the other styles and colours.
apply_sgr(t) ==
  LET S == {i \in 1..Len(t.params) : t.params[i] \in {0, 5, 25}}
      last == CHOOSE i \in S : \A j \in S : j <= i
  IN  [t EXCEPT !.pen = IF S = {} THEN @ ELSE IF t.params[last] = 5 THEN "blink" ELSE "plain"]

\* DECSTBM with its two limits, and without.
SetRegion(t, p1, p2) ==
  LET given == Len(t.params) >= 2 /\ p1 > 0 /\ p2 > 0 /\ p1 < p2
      bottom == IF given THEN Clamped(p2 - 1, 0, LastLine) ELSE LastLine
      fits == given /\ p1 - 1 <= bottom
  IN  cursor_home([t EXCEPT !.top = IF fits THEN p1 - 1 ELSE 0,
                            !.bottom = IF fits THEN bottom ELSE LastLine])

\* The bytes a position or status report puts into the key ring.
Report(t, p1) ==
  CASE t.private -> <<>>
    [] p1 = 5 -> <<"ESC", "[", "0", "n">>
    [] p1 = 6 -> <<"ESC", "[", "line", ";", "col", "R">>
    [] OTHER -> <<>>

do_csi_final(t0, ch) ==
  LET t == IF t0.params = <<>> THEN [t0 EXCEPT !.params = <<0>>] ELSE t0
      p1 == t.params[1]
      p2 == IF Len(t.params) >= 2 THEN t.params[2] ELSE 0
      n == IF p1 < 1 THEN 1 ELSE p1
  IN  back_to_normal(
        CASE ch \in {"H", "f"} ->
               Placed(t, n - 1 + (IF t.origin THEN t.top ELSE 0), IF p2 < 1 THEN 0 ELSE p2 - 1)
          [] ch = "A" -> Placed(t, t.line - n, t.col)
          [] ch = "B" -> Placed(t, t.line + n, t.col)
          [] ch = "C" -> Placed(t, t.line, t.col + n)
          [] ch = "D" -> Placed(t, t.line, t.col - n)
          [] ch = "J" -> (CASE p1 = 0 -> erase_to_eos(t) [] p1 = 1 -> erase_to_bos(t)
                            [] p1 = 2 -> cursor_home(clear_screen(t)) [] OTHER -> t)
          [] ch = "K" -> (CASE p1 = 0 -> erase_to_eol(t) [] p1 = 1 -> erase_to_bol(t)
                            [] p1 = 2 -> erase_line(t) [] OTHER -> t)
          [] ch = "m" -> apply_sgr(t)
          [] ch = "r" -> SetRegion(t, p1, p2)
          [] ch = "L" -> insert_line(t, n)
          [] ch = "M" -> delete_line(t, n)
          [] ch = "P" -> delete_char(t, n)
          [] ch = "@" -> insert_char(t, n)
          [] ch = "n" -> [t EXCEPT !.out = @ \o Report(t, p1)]
          [] ch = "c" -> [t EXCEPT !.out = @ \o <<"ESC", "[", "?", "1", ";", "0", "c">>]
          [] ch = "s" -> [t EXCEPT !.saved = <<t.line, t.col>>]
          [] ch = "u" -> Placed(t, t.saved[1], t.saved[2])
          [] ch = "h" /\ t.private /\ p1 = 6 -> [t EXCEPT !.origin = TRUE]
          [] ch = "l" /\ t.private /\ p1 = 6 -> [t EXCEPT !.origin = FALSE]
          [] ch = "h" /\ t.private /\ p1 = 25 -> [t EXCEPT !.visible = TRUE]
          [] ch = "l" /\ t.private /\ p1 = 25 -> [t EXCEPT !.visible = FALSE]
          [] OTHER -> t)

\* A sequence that ends right after ESC [ : no parameter was given.
CsiWithout(t, ch) ==
  back_to_normal(
    CASE ch \in {"H", "f"} -> cursor_home(t)
      [] ch = "J" -> erase_to_eos(t)
      [] ch = "K" -> erase_to_eol(t)
      [] ch = "M" -> delete_line(t, 1)
      [] ch = "m" -> [t EXCEPT !.pen = "plain"]
      [] ch = "r" -> cursor_home([t EXCEPT !.top = 0, !.bottom = LastLine])
      [] ch = "s" -> [t EXCEPT !.saved = <<t.line, t.col>>]
      [] ch = "u" -> Placed(t, t.saved[1], t.saved[2])
      [] ch = "c" -> [t EXCEPT !.out = @ \o <<"ESC", "[", "?", "1", ";", "0", "c">>]
      [] OTHER -> t)

Reset(t) ==
  cursor_home(clear_screen(
    [back_to_normal(t) EXCEPT !.pen = "plain", !.top = 0, !.bottom = LastLine,
        !.origin = FALSE, !.visible = TRUE, !.g0 = "ascii", !.g1 = "ascii",
        !.invoking_g1 = FALSE, !.use_graphics = FALSE]))

\* IND and NEL scroll at the bottom of the region only, as RI does at its top.
Index(t) ==
  IF t.line = t.bottom THEN scroll_up_region(t)
  ELSE IF t.line < LastLine THEN [t EXCEPT !.line = @ + 1] ELSE t
ReverseIndex(t) ==
  IF t.line = t.top THEN scroll_down_region(t)
  ELSE IF t.line > 0 THEN [t EXCEPT !.line = @ - 1] ELSE t

Graphic(t, inv, g0, g1) == (IF inv THEN g1 ELSE g0) = "graphics"

\* A character is stored under the cursor; past the last column it wraps.
Printed(t, ch) ==
  LET p == <<t.line, t.col>>
      w == [t EXCEPT
              !.text[p] = [ch |-> ch, cs |-> IF t.use_graphics THEN "graphics" ELSE "ascii",
                           pen |-> t.pen],
              !.dirty = @ \cup {p}]
  IN  IF t.col = LastCol THEN linefeed([w EXCEPT !.col = 0]) ELSE [w EXCEPT !.col = @ + 1]

BackSpaced(t) ==
  IF t.col = 0 THEN t
  ELSE [t EXCEPT !.col = @ - 1, !.dirty = @ \cup {<<t.line, t.col - 1>>}]

Normal(t, ch) ==
  CASE ch = "^A" -> cursor_home(t)
    [] ch = "^D" -> Placed(t, t.line, t.col + 1)
    [] ch = "^E" -> Placed(t, t.line - 1, t.col)
    [] ch = "^S" -> Placed(t, t.line, t.col - 1)
    [] ch = "^X" -> Placed(t, t.line + 1, t.col)
    [] ch \in {"BS", "DEL"} -> BackSpaced(t)
    [] ch = "HT" -> Placed(t, t.line, TabStop * ((t.col \div TabStop) + 1))
    [] ch \in {"LF", "VT"} -> linefeed(t)
    [] ch = "FF" -> clear_screen(t)
    [] ch = "CR" -> [t EXCEPT !.col = 0]
    [] ch = "SO" -> [t EXCEPT !.invoking_g1 = TRUE, !.use_graphics = t.g1 = "graphics"]
    [] ch = "SI" -> [t EXCEPT !.invoking_g1 = FALSE, !.use_graphics = t.g0 = "graphics"]
    [] ch = "^V" -> erase_to_eol(t)
    [] ch = "ESC" -> [t EXCEPT !.state = "escape", !.params = <<>>, !.private = FALSE]
    [] OTHER -> Printed(t, ch)

Escape(t, ch) ==
  CASE ch = "[" -> [t EXCEPT !.state = "csi"]
    [] ch \in {"(", ")"} -> [t EXCEPT !.designating_g0 = (ch = "("), !.state = "designate"]
    [] ch = "D" -> back_to_normal(Index(t))
    [] ch = "E" -> back_to_normal([Index(t) EXCEPT !.col = 0])
    [] ch = "M" -> back_to_normal(ReverseIndex(t))
    [] ch = "c" -> Reset(t)
    [] OTHER -> back_to_normal(t)

Csi(t, ch) ==
  IF IsDigit(ch) THEN [t EXCEPT !.params = <<DigitOf(ch)>>, !.state = "param"]
  ELSE IF ch = "?" THEN [t EXCEPT !.params = <<0>>, !.private = TRUE, !.state = "param"]
  ELSE CsiWithout(t, ch)

MaxParams == 16
MaxValue == 9999
CsiParam(t, ch) ==
  LET i == Len(t.params)
      v == t.params[i] * 10 + DigitOf(ch)
  IN  IF IsDigit(ch) THEN IF v > MaxValue THEN back_to_normal(t)
                                          ELSE [t EXCEPT !.params[i] = v]
      ELSE IF ch = ";" THEN IF i = MaxParams THEN back_to_normal(t)
                                             ELSE [t EXCEPT !.params = Append(@, 0)]
      ELSE do_csi_final(t, ch)

Designate(t, ch) ==
  LET set == CASE ch = "B" -> "ascii" [] ch = "0" -> "graphics" [] ch = "A" -> "uk"
               [] OTHER -> IF t.designating_g0 THEN t.g0 ELSE t.g1
      g0 == IF t.designating_g0 THEN set ELSE t.g0
      g1 == IF t.designating_g0 THEN t.g1 ELSE set
  IN  back_to_normal([t EXCEPT !.g0 = g0, !.g1 = g1,
                               !.use_graphics = Graphic(t, t.invoking_g1, g0, g1)])

vt100_write(t, ch) ==
  CASE t.state = "normal" -> Normal(t, ch)
    [] t.state = "escape" -> Escape(t, ch)
    [] t.state = "csi" -> Csi(t, ch)
    [] t.state = "param" -> CsiParam(t, ch)
    [] t.state = "designate" -> Designate(t, ch)

-----------------------------------------------------------------------------
\* The machine passes the guest's output on, byte by byte; what the terminal
\* answers goes into the ring of its keys.  `coming' is what is left of the
\* string the guest is writing.
Feed(b) ==
  LET t == vt100_write(term, b) IN
  /\ term' = [t EXCEPT !.out = <<>>]
  /\ key_buf' = Pushed(key_buf, t.out)
  /\ UNCHANGED <<window, cursor_on, fwd_buf, term_quit>>

SerialWrite ==
  \/ /\ coming # <<>>
     /\ Feed(Head(coming))
     /\ coming' = Tail(coming)
     /\ UNCHANGED inputs
  \/ /\ coming = <<>> /\ inputs < TermInputs
     /\ inputs' = inputs + 1
     /\ \E s \in Strings : Feed(Head(s)) /\ coming' = Tail(s)

\* What the events of the terminal's own window put into the key ring
\* (process_keydown and text input).
EventBytes == [Up |-> <<"^E">>, F1 |-> <<"ESC", "O", "P">>, Shift |-> <<>>, Text |-> <<"k">>]

\* A cell as it is drawn: blinking text is not there in half of the time.
Look(c, on) ==
  [c EXCEPT !.ch = IF c.pen = "blink" /\ ~on THEN " " ELSE @]

vt100_render(t, w, on) ==
  [p \in Cell |-> IF t.full_redraw \/ p \in t.dirty THEN Look(t.text[p], on) ELSE w[p]]

\* One poll: an event of the window, text typed into the machine's own window,
\* or none; the blink timer; and the drawing.
Events == DOMAIN EventBytes \cup {"HostText", "Close", "Expose", "None"}

Poll(event, ticks) ==
  LET on == IF ticks THEN ~cursor_on ELSE cursor_on
      t == [term EXCEPT !.full_redraw = @ \/ event = "Expose" \/ ticks]
      typed == event \in DOMAIN EventBytes \cup {"HostText"}
  IN  /\ typed => inputs < TermInputs
      /\ inputs' = IF typed THEN inputs + 1 ELSE inputs
      /\ key_buf' = IF event \in DOMAIN EventBytes THEN Pushed(key_buf, EventBytes[event])
                    ELSE key_buf
      /\ fwd_buf' = IF event = "HostText" THEN Pushed(fwd_buf, <<"k">>) ELSE fwd_buf
      /\ term_quit' = (term_quit \/ event = "Close")
      /\ cursor_on' = on
      /\ window' = vt100_render(t, window, on)
      /\ term' = [t EXCEPT !.full_redraw = FALSE, !.dirty = {}]
      /\ UNCHANGED coming

Read ==
  /\ key_buf # <<>>
  /\ key_buf' = Tail(key_buf)
  /\ UNCHANGED <<term, window, cursor_on, fwd_buf, term_quit, coming, inputs>>

PopForwarded ==
  /\ fwd_buf # <<>>
  /\ fwd_buf' = Tail(fwd_buf)
  /\ UNCHANGED <<term, window, cursor_on, key_buf, term_quit, coming, inputs>>

\* The terminal after the guest has filled its screen with different
\* characters: a cell can be told from the ones around it.
Alphabet == <<"a", "b", "c", "d", "e", "f", "g", "h", "i", "j", "k", "l">>
Filled == [p \in Cell |-> [ch |-> Alphabet[((p[1] * TermCols + p[2]) % Len(Alphabet)) + 1],
                           cs |-> "ascii", pen |-> "plain"]]

TermInit ==
  /\ term = [text |-> Filled, dirty |-> {}, full_redraw |-> FALSE,
             line |-> 0, col |-> 0, top |-> 0, bottom |-> LastLine, origin |-> FALSE,
             saved |-> <<0, 0>>, visible |-> TRUE, pen |-> "plain",
             state |-> "normal", params |-> <<>>, private |-> FALSE,
             designating_g0 |-> FALSE, g0 |-> "ascii", g1 |-> "ascii",
             invoking_g1 |-> FALSE, use_graphics |-> FALSE, out |-> <<>>]
  /\ window = Filled
  /\ cursor_on = TRUE
  /\ key_buf = <<>> /\ fwd_buf = <<>>
  /\ term_quit = FALSE
  /\ coming = <<>>
  /\ inputs = 0

TermNext ==
  \/ SerialWrite
  \/ \E event \in Events, ticks \in BOOLEAN : Poll(event, ticks)
  \/ Read \/ PopForwarded

-----------------------------------------------------------------------------
\* Whatever a guest writes, the cursor and the scrolling region stay inside
\* the screen, and so does every access of the buffers: parameters are many or
\* large, the region is set while the cursor is elsewhere, a position is
\* restored after the region or the origin changed (do_csi_final's clamps).
InsideScreen ==
  /\ term.line \in 0..LastLine /\ term.col \in 0..LastCol
  /\ 0 <= term.top /\ term.top <= term.bottom /\ term.bottom <= LastLine
  /\ Len(term.params) <= MaxParams
  /\ \A i \in 1..Len(term.params) : term.params[i] <= MaxValue
  /\ term.state = "param" => term.params # <<>>

\* A cell that is not going to be redrawn looks as it should: no operation
\* that moves or changes text forgets to mark it, and blinking text is redrawn
\* when the phase changes.
NothingStale ==
  \A p \in Cell : \/ term.full_redraw \/ p \in term.dirty
                  \/ window[p] = Look(term.text[p], cursor_on)

\* Text outside the scrolling region stays where it is, whatever scrolls:
\* line feeds, IND, NEL and RI, wherever the cursor is.
OutsideStays ==
  \A b \in {"LF", "D", "E", "M"} : \A p \in Cell :
     (b = "LF" <=> term.state = "normal") /\ term.state \in {"normal", "escape"}
       /\ p[1] \notin term.top..term.bottom
         => vt100_write(term, b).text[p] = term.text[p]

TerminalSound == InsideScreen /\ NothingStale /\ OutsideStays
=============================================================================
