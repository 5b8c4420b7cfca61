------------------------------ MODULE Console ------------------------------
(***************************************************************************)
(* The text screen (drivers/vga.c), its Lua binding (kernel/lua_kernel.c)  *)
(* and the parts of scripts/os.lua that draw on it or that take a command  *)
(* line from it.                                                           *)
(*                                                                         *)
(* vga_putchar runs in the mainline, one access to csr_x, csr_y or the     *)
(* screen after the other as gcc without -O compiles it, and, whole, in    *)
(* the keyboard handler, which echoes a key between any two of them.       *)
(* cells is the memory from vgaptr on, with a margin; a cell is [ch, at],  *)
(* at = <<background, foreground>>.  Of a character only its kind is kept. *)
(***************************************************************************)
EXTENDS Integers, Sequences, FiniteSets, SequencesExt, FiniteSetsExt

CONSTANTS
  SCREEN_WIDTH, SCREEN_HEIGHT,   \* 80, 25
  TabStop,                       \* 8
  Printable,                     \* characters of 0x21 .. 0x7F
  Texts,                         \* what kernel_start may print before a key
  Colors,                        \* numbers that Lua passes as a color
  LastColor,                     \* 15: colors are 0 .. LastColor
  Margin,                        \* bound: cells around the screen
  MaxEvents                      \* bound: characters, echoes and operations

ASSUME ScreenAssumption ==
  /\ SCREEN_WIDTH \in Nat \ {0} /\ SCREEN_HEIGHT \in Nat \ {0, 1}
  /\ TabStop \in Nat \ {0} /\ SCREEN_WIDTH % TabStop = 0 /\ Margin \in Nat \ {0}
  /\ Printable # {} /\ Printable \cap {" ", "bs", "tab", "cr", "nl", "nul", "high"} = {}
  /\ \A t \in Texts : t \in Seq(Printable \cup {" ", "bs", "tab", "cr", "nl"})
  /\ LastColor \in Nat \ {0} /\ Colors \subseteq Int /\ MaxEvents \in Nat

VARIABLES
  cells, attrib, csr_x, csr_y,
  crtc,      \* the cursor of the controller: [index, hi, lo]
  put,       \* vga_putchar of the mainline: [pc, c, att, at, temp]
  greeting,  \* what kernel_start has yet to print
  paper,     \* history: what was written since the screen was cleared, on a
             \* roll of paper that never ends, and where the next one goes
  races,     \* history: "echo", one came inside vga_putchar; "slip", one came
             \* between the test of a backspace and its store; "mixed", either
             \* that or a drawing since the screen was cleared
  prompt,    \* where the line begins: <<>>, or its column in a sequence
  line,      \* characters in stdin since the prompt
  before,    \* history: cells when temp_screen looked, and what it then drew
  events     \* history: number of characters, echoes and operations

conVars == <<cells, attrib, csr_x, csr_y, crtc, put, greeting, paper, races,
             prompt, line, before, events>>
cursor  == <<csr_x, csr_y>>

W == SCREEN_WIDTH
H == SCREEN_HEIGHT
ScreenCells == 0 .. W * H - 1
Memory == -Margin .. W * (H + 1) + Margin
BLANK == " "
Controls == {"bs", "tab", "cr", "nl"}
\* Dropped by vga_putchar: control characters, and bytes from 128 on, as char
\* is signed.
Silent == {"nul", "high"}
Bytes == Printable \cup {BLANK} \cup Controls \cup Silent
DARK_GREY == LastColor \div 2 + 1
WHITE == LastColor

-----------------------------------------------------------------------------
(* vga_putchar as one step: the screen s = [cells, x, y] after c.          *)

scroll_OneShort(s) ==
  IF s.y < H THEN s
  ELSE [s EXCEPT !.y = H - 1,
         !.cells = [i \in Memory |-> IF i \in 0 .. W * (H - 1) - 1 THEN s.cells[i + W]
                                     ELSE s.cells[i]]]
scroll(s) ==
  LET temp == s.y - H + 1 IN
  IF s.y < H THEN s
  ELSE [s EXCEPT !.y = H - 1,
         !.cells = [i \in Memory |->
            IF i \in 0 .. W * (H - temp) - 1 THEN s.cells[i + temp * W]
            ELSE IF i \in W * (H - temp) .. W * (H - temp) + W - 1
            THEN [ch |-> BLANK, at |-> attrib] ELSE s.cells[i]]]

Moved(s, c) ==
  CASE c = "bs" -> [s EXCEPT !.x = IF @ # 0 THEN @ - 1 ELSE @]
    [] c = "tab" -> [s EXCEPT !.x = (@ \div TabStop + 1) * TabStop]
    [] c = "cr" -> [s EXCEPT !.x = 0]
    [] c = "nl" -> [s EXCEPT !.x = 0, !.y = @ + 1]
    [] c \in Silent -> s
    [] OTHER -> [s EXCEPT !.cells[s.y * W + s.x] = [ch |-> c, at |-> attrib],
                          !.x = @ + 1]
Wrapped(s) == IF s.x >= W THEN [s EXCEPT !.x = 0, !.y = @ + 1] ELSE s
vga_putchar(s, c) == scroll(Wrapped(Moved(s, c)))

\* The echo of a key.  A backspace also wipes the cell that it goes back to.
Echo_NoWipe(c) == <<c>>
Echo(c) == IF c = "bs" THEN <<"bs", BLANK, "bs">> ELSE <<c>>

\* move_csr, to where the cursor is.
CrtcAt(x, y) == [index |-> 15, hi |-> (y * W + x) \div W, lo |-> (y * W + x) % W]

\* A reference for the screen: typing on a roll of paper, from its top left
\* corner.
NoPaper == [x |-> 0, y |-> 0, sheet |-> [q \in {} |-> BLANK]]
Type(p, c) ==
  LET next == CASE c = "bs" -> IF p.x > 0 THEN p.x - 1 ELSE 0
                [] c = "tab" -> p.x + TabStop - (p.x % TabStop)
                [] c \in {"cr", "nl"} -> 0
                [] c \in Silent -> p.x
                [] OTHER -> p.x + 1
  IN  [y |-> IF c = "nl" \/ next >= W THEN p.y + 1 ELSE p.y,
       x |-> IF next >= W THEN 0 ELSE next,
       sheet |-> IF c \in Controls \cup Silent THEN p.sheet
                 ELSE [q \in DOMAIN p.sheet \cup {<<p.y, p.x>>} |->
                         IF q = <<p.y, p.x>> THEN c ELSE p.sheet[q]]]

\* The characters of e, one after the other: an echo has one or three.
Each(Put(_, _), s, e) ==
  IF Len(e) = 1 THEN Put(s, e[1]) ELSE Put(Put(Put(s, e[1]), e[2]), e[3])

Screen == [cells |-> cells, x |-> csr_x, y |-> csr_y]
Show(s) == cells' = s.cells /\ csr_x' = s.x /\ csr_y' = s.y
Event == events < MaxEvents /\ events' = events + 1

\* keyboard_interrupt displays a key and puts it into stdin.
keyboard_interrupt(c) ==
  /\ Event
  /\ Show(Each(vga_putchar, Screen, Echo(c)))
  /\ crtc' = CrtcAt(csr_x', csr_y')
  /\ paper' = Each(Type, paper, Echo(c))
  /\ races' = races \cup (IF put.pc = "idle" THEN {} ELSE {"echo", "mixed"})
                      \cup (IF put.pc \in {"back", "back store"} THEN {"slip"} ELSE {})
  /\ line' = IF prompt = <<>> THEN line ELSE Append(line, c)
  /\ UNCHANGED <<attrib, put, prompt, before>>

\* kernel_start prints the next character, as a whole: no key is pressed. Its
\* colors are left out.
Greet ==
  /\ greeting # <<>> /\ greeting' = Tail(greeting)
  /\ Show(vga_putchar(Screen, Head(greeting)))
  /\ crtc' = CrtcAt(csr_x', csr_y')
  /\ paper' = Type(paper, Head(greeting))
  /\ UNCHANGED <<attrib, put, races, prompt, line, before, events>>

-----------------------------------------------------------------------------
(* vga_putchar in the mainline, step by step.                              *)

NoPut == [pc |-> "idle", c |-> BLANK, att |-> <<0, 0>>, at |-> 0, temp |-> 0]
History == <<races, prompt, line, before, events>>

Go(pc) == put' = [put EXCEPT !.pc = pc]
GoWith(pc, temp) == put' = [put EXCEPT !.pc = pc, !.temp = temp]

BeginPut(c) ==
  /\ put.pc = "idle" /\ Event
  /\ put' = [NoPut EXCEPT !.c = c, !.att = attrib,
               !.pc = CASE c = "bs" -> "back test" [] c = "tab" -> "tab"
                        [] c = "cr" -> "return" [] c = "nl" -> "newline"
                        [] c \in Silent -> "edge" [] OTHER -> "row"]
  /\ prompt' = <<>> /\ line' = <<>>
  /\ UNCHANGED <<cells, attrib, cursor, crtc, paper, races, before>>

\* if (csr_x != 0) csr_x--;
BackTest  == put.pc = "back test" /\ Go(IF csr_x # 0 THEN "back" ELSE "edge")
             /\ UNCHANGED cursor
Back      == put.pc = "back" /\ GoWith("back store", csr_x - 1) /\ UNCHANGED cursor
BackStore == put.pc = "back store" /\ Go("edge") /\ csr_x' = put.temp /\ UNCHANGED csr_y
Tab       == put.pc = "tab" /\ GoWith("x store", (csr_x \div TabStop + 1) * TabStop)
             /\ UNCHANGED cursor
XStore    == put.pc = "x store" /\ Go("edge") /\ csr_x' = put.temp /\ UNCHANGED csr_y
CarriageReturn == put.pc = "return" /\ Go("edge") /\ csr_x' = 0 /\ UNCHANGED csr_y
Newline   == put.pc = "newline" /\ Go("down") /\ csr_x' = 0 /\ UNCHANGED csr_y
\* csr_y++
Down      == put.pc = "down" /\ GoWith("y store", csr_y + 1) /\ UNCHANGED cursor
YStore    == put.pc = "y store" /\ Go("scroll") /\ csr_y' = put.temp /\ UNCHANGED csr_x
\* where = vgaptr + (csr_y * 80 + csr_x)
Row       == put.pc = "row" /\ put' = [put EXCEPT !.pc = "column", !.at = csr_y * W]
             /\ UNCHANGED cursor
Column    == put.pc = "column" /\ put' = [put EXCEPT !.pc = "cell", !.at = @ + csr_x]
             /\ UNCHANGED cursor
\* csr_x++
Right     == put.pc = "right" /\ GoWith("x store", csr_x + 1) /\ UNCHANGED cursor
\* if (csr_x >= 80) { csr_x = 0; csr_y++; }
Edge      == put.pc = "edge" /\ Go(IF csr_x >= W THEN "newline" ELSE "scroll")
             /\ UNCHANGED cursor
\* unsigned temp = csr_y * 80 + csr_x, then four bytes to the controller.
Move      == put.pc = "move" /\ GoWith("14", csr_y * W + csr_x) /\ UNCHANGED cursor

CursorStep ==
  /\ \/ BackTest \/ Back \/ BackStore \/ Tab \/ XStore \/ CarriageReturn \/ Newline
     \/ Down \/ YStore \/ Row \/ Column \/ Right \/ Edge \/ Move
  /\ UNCHANGED <<cells, attrib, crtc, paper, History>>

Write ==
  /\ put.pc = "cell" /\ Go("right")
  /\ cells' = [cells EXCEPT ![put.at] = [ch |-> put.c, at |-> put.att]]
  /\ UNCHANGED <<attrib, cursor, crtc, paper, History>>

\* The copying of scroll is one step.
Scroll ==
  /\ put.pc = "scroll" /\ Go("move")
  /\ Show(scroll(Screen))
  /\ UNCHANGED <<attrib, crtc, paper, History>>

\* A byte goes to the register that was selected last.
Select(pc, index, next) ==
  /\ put.pc = pc /\ Go(next) /\ crtc' = [crtc EXCEPT !.index = index]
  /\ UNCHANGED paper
PortData(pc, byte, next) ==
  /\ put.pc = pc
  /\ put' = IF next = "idle" THEN NoPut ELSE [put EXCEPT !.pc = next]
  /\ paper' = IF next = "idle" THEN Type(paper, put.c) ELSE paper
  /\ crtc' = IF crtc.index = 14 THEN [crtc EXCEPT !.hi = byte] ELSE [crtc EXCEPT !.lo = byte]
move_csr ==
  /\ \/ Select("14", 14, "hi") \/ PortData("hi", put.temp \div W, "15")
     \/ Select("15", 15, "lo") \/ PortData("lo", put.temp % W, "idle")
  /\ UNCHANGED <<cells, attrib, cursor, History>>

-----------------------------------------------------------------------------
(* Colors and the drawing of os.lua, between two characters.               *)

vga_setfg(a, fg) == <<a[1], fg>>
vga_setbg(a, bg) == <<bg, a[2]>>
\* The bindings leave the color alone when there is no such color.
lua_vga_setfg(a, color) == IF color \in 0 .. LastColor THEN vga_setfg(a, color) ELSE a
lua_vga_setbg(a, color) == IF color \in 0 .. LastColor THEN vga_setbg(a, color) ELSE a

SetColors(bg, fg) ==
  /\ put.pc = "idle" /\ Event
  /\ attrib' = lua_vga_setfg(lua_vga_setbg(attrib, bg), fg)
  /\ UNCHANGED <<cells, cursor, crtc, put, paper, races, prompt, line, before>>

vga_cls ==
  /\ put.pc = "idle" /\ Event
  /\ cells' = [i \in Memory |-> IF i \in ScreenCells THEN [ch |-> BLANK, at |-> attrib]
                                ELSE cells[i]]
  /\ csr_x' = 0 /\ csr_y' = 0 /\ crtc' = CrtcAt(0, 0)
  /\ paper' = NoPaper /\ races' = races \ {"mixed"} /\ prompt' = <<>> /\ line' = <<>>
  /\ UNCHANGED <<attrib, put, before>>

\* lua_vga_getdata: the characters form a C string, for which the end of the
\* screen is no end: it goes on with what malloc left behind the buffer.  The
\* colors are tables from 1 to W * H.
lua_vga_getdata(junk) ==
  LET all == [i \in 1 .. W * H |-> cells[i - 1].ch] \o junk \o <<"nul">>
  IN  [chars |-> SubSeq(all, 1, SelectInSeq(all, LAMBDA c : c = "nul") - 1),
       color |-> [i \in 1 .. W * H |-> cells[i - 1].at]]

\* What temp_screen puts back into cell k: entry y * W + x of the data, with y
\* from 1.  An empty string yields its terminator, a missing color counts as 0.
RestoreIndex(k) == (k \div W + 1) * W + (k % W) + 1
Restored(d, k) ==
  LET i == RestoreIndex(k) IN
  [ch |-> IF i <= Len(d.chars) THEN d.chars[i] ELSE "nul",
   at |-> IF i <= W * H THEN d.color[i] ELSE <<0, 0>>]

\* The callback may draw what it likes on the screen: all of it is restored.
temp_screen ==
  /\ put.pc = "idle" /\ Event
  /\ \E junk \in {<<>>, [i \in 1 .. 2 * W |-> CHOOSE c \in Printable : TRUE]} :
     LET d == lua_vga_getdata(junk) IN
       cells' = [i \in Memory |-> IF i \in ScreenCells THEN Restored(d, i) ELSE cells[i]]
  /\ attrib' = <<DARK_GREY, WHITE>>
  /\ before' = <<[i \in ScreenCells |-> cells[i]], [i \in ScreenCells |-> cells'[i]]>>
  /\ races' = races \cup {"mixed"} /\ prompt' = <<>> /\ line' = <<>>
  /\ UNCHANGED <<cursor, crtc, put, paper>>

-----------------------------------------------------------------------------
(* The command line.  cli prompts, waits in io.read and gets, on a return,  *)
(* what is in stdin; here the line so far is looked at instead.            *)

\* The prompt is at hand when the row is blank from the cursor on.
cli_prompt ==
  /\ put.pc = "idle" /\ prompt = <<>> /\ csr_x >= 0
  /\ \A x \in csr_x .. W - 1 : cells[csr_y * W + x].ch = BLANK
  /\ prompt' = <<csr_x>> /\ line' = <<>>
  /\ UNCHANGED <<cells, attrib, cursor, crtc, put, paper, races, before, events>>

\* io.read stops at a NUL (module Vfs).
CLine(s) == SubSeq(s, 1, SelectInSeq(s \o <<"nul">>, LAMBDA c : c = "nul") - 1)

IsSpace(c) == c \in {BLANK, "tab", "cr", "nl"}
lua_trim(s) ==
  LET kept == {i \in DOMAIN s : ~IsSpace(s[i])}
  IN  IF kept = {} THEN <<>> ELSE SubSeq(s, Min(kept), Max(kept))

\* gsub(".\b", "", 1), again and again: . also stands for a backspace.
Pairs(s) == {i \in 1 .. Len(s) - 1 : s[i + 1] = "bs"}
Cut(s, i) == SubSeq(s, 1, i - 1) \o SubSeq(s, i + 2, Len(s))
removebackspace(s) ==
  LET left[n \in 0 .. Len(s)] ==
        IF n = 0 THEN s
        ELSE LET t == left[n - 1] IN IF Pairs(t) = {} THEN t ELSE Cut(t, Min(Pairs(t)))
  IN  left[Len(s)]
Command(s) == removebackspace(lua_trim(CLine(s)))

-----------------------------------------------------------------------------
ConInit ==
  /\ attrib = <<DARK_GREY, WHITE>>
  /\ cells = [i \in Memory |-> [ch |-> IF i \in ScreenCells THEN BLANK ELSE "out",
                               at |-> attrib]]
  /\ csr_x = 0 /\ csr_y = 0 /\ crtc = CrtcAt(0, 0)
  /\ put = NoPut /\ greeting \in Texts /\ paper = NoPaper /\ races = {}
  /\ prompt = <<>> /\ line = <<>> /\ before = <<>> /\ events = 0

\* A program runs, and keys are pressed.
Session ==
  \/ \E c \in Bytes : BeginPut(c)
  \/ CursorStep \/ Write \/ Scroll \/ move_csr
  \/ \E c \in Printable \cup {BLANK, "bs", "tab", "nl", "nul"} : keyboard_interrupt(c)
  \/ \E bg, fg \in Colors : SetColors(bg, fg)
  \/ vga_cls \/ temp_screen \/ cli_prompt

ConNext == Greet \/ (greeting = <<>> /\ Session /\ UNCHANGED greeting)

ConSpec == ConInit /\ [][ConNext]_conVars

-----------------------------------------------------------------------------
(* What the screen promises.                                               *)

\* However echoes and the mainline's own characters interleave: between two
\* characters the cursor is on the screen, except that it may be left of its
\* row once an echo came inside the backspace of the mainline, which then
\* takes a step back from column 0.  The row is at most one below the last,
\* and nothing is written outside the screen except, by an echo before the
\* mainline has scrolled, in the row below or the cell behind it, and in
\* front of the screen once the cursor has slipped.
CursorBounded ==
  /\ csr_y \in 0 .. H
  /\ put.pc = "idle" => csr_y < H /\ csr_x < W
  /\ csr_x < 0 => "slip" \in races
  /\ \A i \in Memory \ ScreenCells :
       cells[i].ch # "out" => /\ "echo" \in races
                              /\ i < 0 => "slip" \in races
                              /\ i <= W * (H + 1)

\* What the paper shows in a column of a row.
OnPaper(p, y, x) ==
  IF <<y, x>> \in DOMAIN p.sheet THEN p.sheet[<<y, x>>] ELSE BLANK
TopRow(p) == IF p.y < H THEN 0 ELSE p.y - H + 1

\* The screen is a window on the last rows of the paper, and the blinking
\* cursor is where the next character goes.
ShowsText ==
  put.pc = "idle" /\ "mixed" \notin races =>
    /\ \A i \in ScreenCells :
         cells[i].ch = OnPaper(paper, TopRow(paper) + i \div W, i % W)
    /\ csr_x = paper.x /\ csr_y = paper.y - TopRow(paper)
    /\ crtc.hi = csr_y /\ crtc.lo = csr_x

\* temp_screen gives each cell what was in the cell below it, but nothing, in
\* the color the screen has there, once a NUL precedes that cell; the last row
\* gets what the heap held, or NULs, on black.  So each time it runs a row is
\* lost, and from the second time on its own NULs cut the screen short.
RestoredOneRowUp ==
  before # <<>> =>
    \A k \in ScreenCells :
      /\ k + W \in ScreenCells =>
           before[2][k] = [before[1][k + W] EXCEPT
             !.ch = IF \E j \in 0 .. k + W - 1 : before[1][j].ch = "nul" THEN "nul" ELSE @]
      /\ k + W \notin ScreenCells =>
           /\ before[2][k].at = <<0, 0>>
           /\ (\E j \in ScreenCells : before[1][j].ch = "nul") => before[2][k].ch = "nul"

\* What stands behind the prompt is the command that cli would run, apart from
\* blanks around it, as long as the line has no tab or other such key in it, has
\* not reached the edge of the screen, has at no point had more backspaces
\* than characters, and does not begin with a blank: further backspaces wipe
\* the prompt and stay in the command, and so does the backspace that took a
\* blank back which trim, running first, has removed.
Depth(s, n) ==
  Cardinality({i \in 1 .. n : s[i] # "bs"}) - Cardinality({i \in 1 .. n : s[i] = "bs"})
Plain(s) ==
  /\ \A i \in DOMAIN s : s[i] \in Printable \cup {BLANK, "bs"}
  /\ s # <<>> => s[1] # BLANK
  /\ \A n \in 0 .. Len(s) : Depth(s, n) >= 0 /\ prompt[1] + Depth(s, n) < W
SeenIsRun ==
  prompt # <<>> /\ put.pc = "idle" /\ Plain(line) =>
    lua_trim(Command(line)) =
      lua_trim([i \in 1 .. W - prompt[1] |-> cells[csr_y * W + prompt[1] + i - 1].ch])

\* The screen is true: it shows what was written, in bounds, and what
\* temp_screen puts back.
ScreenTrue == CursorBounded /\ ShowsText /\ RestoredOneRowUp
=============================================================================
