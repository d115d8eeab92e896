------------------------------ MODULE Terminal ------------------------------
(***************************************************************************)
(* From key to line: the PS/2 interrupt handler and its byte ring          *)
(* (drivers/ps2.rs), the line editor behind read() on the terminal         *)
(* (syscall.rs), and the row of the text console it echoes to              *)
(* (console.rs).  The handler runs between any two steps of a reader;      *)
(* several processes may ask for a line at once.                           *)
(*                                                                         *)
(* A byte is a string; "A", the shifted letter and the last byte of the    *)
(* sequence for the Up key, are the same byte, as they are in the code.    *)
(***************************************************************************)
EXTENDS Integers, Sequences, FiniteSets

CONSTANTS
    Procs,        \* processes that read the terminal
    Keys,         \* the keys the user presses
    Maxes,        \* buffer sizes given to read()
    BufferCap,    \* BUFFER_CAP
    HistoryCap,   \* HISTORY_CAP
    Cols,         \* width of the console row
    MaxKeys       \* bound: key events in a behaviour

ASSUME TerminalAssumption ==
    /\ BufferCap \in Nat \ {0} /\ HistoryCap \in Nat \ {0} /\ Cols \in Nat \ {0}
    /\ Maxes \subseteq Nat \ {0}

VARIABLES
    wire,         \* scancodes on their way from the keyboard
    extended, shift, caps,
    buf, head, tail, len,             \* ASCII_QUEUE
    reader,       \* TERMINAL_READER
    st,           \* what each process does: out, spin, reading, done
    ed,           \* each reader's locals in read_line and decode_escape
    history,      \* HISTORY
    cells, col,   \* the console row and cursor_col
    keys,         \* key events so far (bound)
    unread,       \* auxiliary: the newest BufferCap bytes pushed and not popped
    pending,      \* auxiliary: the keys whose bytes are not all consumed, until one is lost
    ref,          \* auxiliary: the line a user believes to be editing
    lost,         \* auxiliary: the ring has dropped a byte
    inserted      \* auxiliary: this line had a character put in its middle

ring == <<buf, head, tail, len>>
screen == <<cells, col>>
aux == <<unread, pending, ref, lost, inserted>>
kbd == <<extended, shift, caps>>
vars == <<wire, extended, shift, caps, buf, head, tail, len, reader, st, ed,
          history, cells, col, keys, unread, pending, ref, lost, inserted>>

(***************************************************************************)
(* The keyboard.  Navigation keys send E0 and a second code.               *)
(***************************************************************************)
EscapeOf == [up |-> <<"ESC", "[", "A">>, down |-> <<"ESC", "[", "B">>,
             right |-> <<"ESC", "[", "C">>, left |-> <<"ESC", "[", "D">>,
             home |-> <<"ESC", "[", "H">>, end |-> <<"ESC", "[", "F">>,
             delete |-> <<"ESC", "[", "3", "~">>]
Extended == DOMAIN EscapeOf
\* SET1_UNSHIFTED and SET1_SHIFTED, 0 as "NUL"
Unshifted == [a |-> "a", b |-> "b", bs |-> "BS", enter |-> "NL", f1 |-> "NUL"]
Shifted == [a |-> "A", b |-> "B", bs |-> "BS", enter |-> "NL", f1 |-> "NUL"]
Lower == {"a", "b"}
Upper == {"A", "B"}
Upcase == [a |-> "A", b |-> "B"]
Downcase == [A |-> "a", B |-> "b"]

ASSUME KeysAssumption == Keys \subseteq Extended \cup DOMAIN Unshifted \cup {"shift", "caps"}

Code(k, brk) == [c |-> k, brk |-> brk]

\* a key goes down, or comes up again; one event is on the wire at a time
press(k, brk) ==
    /\ wire = <<>> /\ keys < MaxKeys
    /\ brk => k = "shift"
    /\ keys' = keys + 1
    /\ wire' = (IF k \in Extended THEN <<Code("E0", FALSE)>> ELSE <<>>)
                  \o <<Code(k, brk)>>
    /\ UNCHANGED <<kbd, ring, reader, st, ed, history, screen, aux>>

(***************************************************************************)
(* RingBuffer.                                                             *)
(***************************************************************************)
Ring == [buf |-> buf, head |-> head, tail |-> tail, len |-> len]

(* mutant: when the ring is full the new byte overwrites without moving tail *)
push_no_drop(r, byte) ==
    [buf |-> [r.buf EXCEPT ![r.head] = byte], head |-> (r.head + 1) % BufferCap,
     tail |-> r.tail, len |-> IF r.len = BufferCap THEN r.len ELSE r.len + 1]
push(r, byte) ==
    LET full == r.len = BufferCap
    IN  [buf |-> [r.buf EXCEPT ![r.head] = byte],
         head |-> (r.head + 1) % BufferCap,
         tail |-> IF full THEN (r.tail + 1) % BufferCap ELSE r.tail,
         len |-> IF full THEN r.len ELSE r.len + 1]

Newest(bytes) ==
    IF Len(bytes) > BufferCap THEN SubSeq(bytes, Len(bytes) - BufferCap + 1, Len(bytes))
    ELSE bytes

\* push_escape's loop; no key sends more than four bytes
push_nth(r, bytes, i) == IF i <= Len(bytes) THEN push(r, bytes[i]) ELSE r

PushAll(bytes) ==
    LET r1 == push_nth(Ring, bytes, 1)
        r2 == push_nth(r1, bytes, 2)
        r3 == push_nth(r2, bytes, 3)
        r == push_nth(r3, bytes, 4)
    IN  /\ buf' = r.buf /\ head' = r.head /\ tail' = r.tail /\ len' = r.len
        /\ unread' = Newest(unread \o bytes)
        /\ lost' = (lost \/ len + Len(bytes) > BufferCap)

(***************************************************************************)
(* on_key_irq: one scancode.                                               *)
(***************************************************************************)
Ascii(k) ==
    LET c == IF shift THEN Shifted[k] ELSE Unshifted[k]
    IN  CASE caps /\ c \in Lower -> Upcase[c]
          [] caps /\ c \in Upper /\ shift -> Downcase[c]
          [] OTHER -> c

\* what the user means by a key: capitals with Shift or Caps Lock, not both
Meant(k) == IF k \in {"a", "b"} THEN (IF shift # caps THEN Upcase[k] ELSE k) ELSE k

\* the line a user has before the first key
Restart == [left |-> <<>>, right |-> <<>>, pos |-> 0]

Typed(k, bytes) ==
    /\ PushAll(bytes)
    /\ pending' = CASE lost' -> <<>>
                    [] ~lost' /\ bytes = <<>> -> pending
                    [] OTHER -> Append(pending, [key |-> Meant(k), n |-> Len(bytes)])
    /\ ref' = IF lost' THEN Restart ELSE ref
    /\ UNCHANGED inserted

on_key_irq ==
    /\ wire # <<>>
    /\ wire' = Tail(wire)
    /\ LET k == Head(wire).c
           brk == Head(wire).brk
           ordinary == ~extended /\ k \notin {"E0", "shift", "caps"}
       IN  /\ extended' = (k = "E0")
           /\ shift' = IF ~extended /\ k = "shift" THEN ~brk ELSE shift
           /\ caps' = IF ~extended /\ k = "caps" /\ ~brk THEN ~caps ELSE caps
           /\ CASE brk -> UNCHANGED <<ring, aux>>
                [] extended /\ ~brk -> Typed(k, EscapeOf[k])
                [] ordinary /\ ~brk -> Typed(k, IF Ascii(k) = "NUL" THEN <<>> ELSE <<Ascii(k)>>)
                [] OTHER -> UNCHANGED <<ring, aux>>
    /\ UNCHANGED <<reader, st, ed, history, screen, keys>>

(***************************************************************************)
(* The console row.  What is echoed is a sequence of these operations.     *)
(***************************************************************************)
Put(c) == <<"put", c>>
Back == <<"back">>             \* 0x08: blanks the cell it moves onto
cursor_left(n) == <<"left", n>>
Puts(s) == [i \in DOMAIN s |-> Put(s[i])]
Times(n, o) == [i \in 1 .. n |-> o]

Blank == [i \in 0 .. Cols - 1 |-> " "]
put_char(s, o) ==
    CASE o[1] = "put" -> IF s.col >= Cols   \* newline: what follows is on a fresh row
                         THEN [cells |-> [Blank EXCEPT ![0] = o[2]], col |-> 1]
                         ELSE [cells |-> [s.cells EXCEPT ![s.col] = o[2]], col |-> s.col + 1]
      [] o[1] = "back" -> IF s.col = 0 THEN s
                          ELSE [cells |-> [s.cells EXCEPT ![s.col - 1] = " "],
                                col |-> s.col - 1]
      [] o[1] = "left" -> [s EXCEPT !.col = IF s.col > o[2] THEN s.col - o[2] ELSE 0]

Echo(ops) ==
    LET after[n \in 0 .. Len(ops)] ==
          IF n = 0 THEN [cells |-> cells, col |-> col] ELSE put_char(after[n - 1], ops[n])
        s == after[Len(ops)]
    IN  cells' = s.cells /\ col' = s.col

(***************************************************************************)
(* read_line.  e is the reader's state; every operator gives the new state *)
(* and what it echoes.                                                     *)
(***************************************************************************)
Fresh(max) == [max |-> max, line |-> <<>>, cursor |-> 0, pos |-> 0, esc |-> "none"]
Edit(e, out) == [e |-> e, out |-> out]

Upto(line, i) == SubSeq(line, 1, i)
From(line, i) == SubSeq(line, i + 1, Len(line))
DropLast(line) == Upto(line, Len(line) - 1)

replace_line(e, new, pos) ==
    Edit([e EXCEPT !.line = new, !.cursor = Len(new), !.pos = pos],
         <<cursor_left(e.cursor)>> \o Times(Len(e.line), Put(" "))
            \o <<cursor_left(Len(e.line))>> \o Puts(new))

redraw_tail(line, from, cursor) ==
    Puts(From(line, from)) \o <<Put(" "), cursor_left(Len(line) - cursor + 1)>>

Without(line, i) == Upto(line, i) \o From(line, i + 1)

\* pos is 0 for None, else one more than history_pos
Arrow(e, action) ==
    CASE action = "left" /\ e.cursor > 0 ->
            Edit([e EXCEPT !.cursor = @ - 1], <<cursor_left(1)>>)
      [] action = "right" /\ e.cursor < Len(e.line) ->
            Edit([e EXCEPT !.cursor = @ + 1], <<Put(e.line[e.cursor + 1])>>)
      [] action = "home" -> Edit([e EXCEPT !.cursor = 0], <<cursor_left(e.cursor)>>)
      [] action = "end" ->
            Edit([e EXCEPT !.cursor = Len(e.line)], Puts(From(e.line, e.cursor)))
      [] action = "delete" /\ e.cursor < Len(e.line) ->
            LET shorter == Without(e.line, e.cursor)
            IN  Edit([e EXCEPT !.line = shorter],
                     redraw_tail(shorter, e.cursor, e.cursor))
      [] action = "up" /\ history # <<>> ->
            LET p == CASE e.pos = 0 -> Len(history) [] e.pos = 1 -> 1 [] OTHER -> e.pos - 1
            IN  replace_line(e, history[p], p)
      [] action = "down" /\ e.pos # 0 ->
            IF e.pos < Len(history) THEN replace_line(e, history[e.pos + 1], e.pos + 1)
            ELSE replace_line(e, <<>>, 0)
      [] OTHER -> Edit(e, <<>>)

Final == [A |-> "up", B |-> "down", C |-> "right", D |-> "left",
          H |-> "home", F |-> "end"]

(* mutant: the byte after ESC [ 3 is left in the queue *)
decode_escape_short(e, byte) ==
    LET back == [e EXCEPT !.esc = "none"]
    IN  CASE e.esc = "esc" -> Edit([e EXCEPT !.esc = IF byte = "[" THEN "csi" ELSE "none"], <<>>)
          [] e.esc = "csi" /\ byte = "3" -> Arrow(back, "delete")
          [] e.esc = "csi" /\ byte \in DOMAIN Final -> Arrow(back, Final[byte])
          [] OTHER -> Edit(back, <<>>)
decode_escape(e, byte) ==
    LET back == [e EXCEPT !.esc = "none"]
    IN  CASE e.esc = "esc" -> Edit([e EXCEPT !.esc = IF byte = "[" THEN "csi" ELSE "none"], <<>>)
          [] e.esc = "csi" /\ byte = "3" -> Edit([e EXCEPT !.esc = "del"], <<>>)
          [] e.esc = "csi" /\ byte \in DOMAIN Final -> Arrow(back, Final[byte])
          [] e.esc = "del" -> Arrow(back, "delete")
          [] OTHER -> Edit(back, <<>>)

(* mutant: the cell at the end of the shortened line is not wiped *)
backspace_no_redraw(e) ==
    IF e.cursor = 0 THEN Edit(e, <<>>)
    ELSE Edit([e EXCEPT !.line = Without(e.line, e.cursor - 1), !.cursor = @ - 1],
              <<cursor_left(1)>>)
backspace(e) ==
    IF e.cursor = 0 THEN Edit(e, <<>>)
    ELSE LET shorter == Without(e.line, e.cursor - 1)
         IN  Edit([e EXCEPT !.line = shorter, !.cursor = @ - 1],
                  <<Back>> \o redraw_tail(shorter, e.cursor - 1, e.cursor - 1))

insert(e, b) ==
    LET n == Len(e.line)
        longer == Upto(e.line, e.cursor) \o <<b>> \o From(e.line, e.cursor)
    IN  CASE n + 1 >= e.max -> Edit(e, <<>>)
          [] n + 1 < e.max /\ e.cursor = n ->
                Edit([e EXCEPT !.line = longer, !.cursor = @ + 1], <<Put(b)>>)
          [] OTHER -> Edit([e EXCEPT !.line = longer, !.cursor = @ + 1],
                           Puts(From(longer, e.cursor)) \o Times(n - e.cursor, Back))

\* one byte of the line, the newline excepted
Step(e, byte) ==
    IF e.esc # "none" THEN decode_escape(e, byte)
    ELSE CASE byte = "ESC" -> Edit([e EXCEPT !.esc = "esc"], <<>>)
           [] byte = "BS" -> backspace(e)
           [] OTHER -> insert(e, byte)

(***************************************************************************)
(* The line as the user sees it: what is left and right of the cursor.     *)
(***************************************************************************)
Recall(p) == [left |-> IF p = 0 THEN <<>> ELSE history[p], right |-> <<>>, pos |-> p]
Type(r, k, max) ==
    CASE k = "left" /\ r.left # <<>> ->
            [r EXCEPT !.left = DropLast(@), !.right = <<r.left[Len(r.left)]>> \o @]
      [] k = "right" /\ r.right # <<>> ->
            [r EXCEPT !.left = Append(@, Head(r.right)), !.right = Tail(@)]
      [] k = "home" -> [r EXCEPT !.left = <<>>, !.right = r.left \o @]
      [] k = "end" -> [r EXCEPT !.left = @ \o r.right, !.right = <<>>]
      [] k = "bs" /\ r.left # <<>> -> [r EXCEPT !.left = DropLast(@)]
      [] k = "delete" /\ r.right # <<>> -> [r EXCEPT !.right = Tail(@)]
      [] k = "up" /\ history # <<>> ->
            Recall(IF r.pos = 0 THEN Len(history) ELSE IF r.pos = 1 THEN 1 ELSE r.pos - 1)
      [] k = "down" /\ r.pos # 0 -> Recall((r.pos + 1) % (Len(history) + 1))
      [] k \in Lower \cup Upper /\ Len(r.left \o r.right) + 1 < max ->
            [r EXCEPT !.left = Append(@, k)]
      [] OTHER -> r

\* a byte is consumed: with the last of a key's bytes, the key takes effect
Consumed(max) ==
    /\ IF lost THEN UNCHANGED <<pending, ref>>
       ELSE LET k == Head(pending)
            IN  IF k.n > 1
                THEN pending' = [pending EXCEPT ![1].n = @ - 1] /\ UNCHANGED ref
                ELSE pending' = Tail(pending) /\ ref' = Type(ref, k.key, max)

(***************************************************************************)
(* sys_read on the terminal.                                               *)
(***************************************************************************)
sys_read(p, n) ==
    /\ st[p] = "out"
    /\ st' = [st EXCEPT ![p] = "spin"]
    /\ ed' = [ed EXCEPT ![p] = Fresh(n)]
    /\ UNCHANGED <<wire, kbd, ring, reader, history, screen, keys, aux>>

\* the compare-exchange on TERMINAL_READER; a process that loses it yields
acquire(p) == st[p] = "spin" /\ ~reader

enter_read_line(p) ==
    /\ acquire(p)
    /\ reader' = TRUE
    /\ st' = [st EXCEPT ![p] = "reading"]
    /\ UNCHANGED <<wire, kbd, ring, ed, history, screen, keys, aux>>

\* the popped slot is blanked: it is written before it is read again
pop ==
    /\ len > 0
    /\ buf' = [buf EXCEPT ![tail] = "NUL"]
    /\ tail' = (tail + 1) % BufferCap
    /\ len' = len - 1
    /\ UNCHANGED head

remember(line) ==
    history' = IF Len(line) <= 1 \/ (history # <<>> /\ history[Len(history)] = DropLast(line))
               THEN history
               ELSE Append(IF Len(history) = HistoryCap THEN Tail(history) ELSE history,
                           DropLast(line))

next_byte(p) ==
    /\ st[p] = "reading" /\ pop
    /\ LET byte == buf[tail]
           e == ed[p]
           r == Step(e, byte)
       IN  IF byte = "NL" /\ e.esc = "none"
           THEN LET line == IF Len(e.line) < e.max THEN Append(e.line, "NL") ELSE e.line
                IN  /\ ed' = [ed EXCEPT ![p].line = line]
                    /\ st' = [st EXCEPT ![p] = "done"]
                    /\ remember(line)
                    /\ cells' = Blank /\ col' = 0
                    /\ UNCHANGED inserted
           ELSE /\ ed' = [ed EXCEPT ![p] = r.e]
                /\ Echo(r.out)
                /\ inserted' = (inserted \/ \E i \in DOMAIN r.out : r.out[i] = Back
                                              /\ byte # "BS")
                /\ UNCHANGED <<st, history>>
    /\ unread' = Tail(unread)
    /\ Consumed(ed[p].max)
    /\ UNCHANGED <<wire, kbd, reader, keys, lost>>

\* the line is copied out and the locals are gone
leave_read_line(p) ==
    /\ st[p] = "done"
    /\ reader' = FALSE
    /\ st' = [st EXCEPT ![p] = "out"]
    /\ ed' = [ed EXCEPT ![p] = Fresh(1)]
    /\ ref' = Restart /\ inserted' = FALSE
    /\ UNCHANGED <<wire, kbd, ring, history, screen, keys, unread, pending, lost>>

Init ==
    /\ wire = <<>> /\ extended = FALSE /\ shift = FALSE /\ caps = FALSE
    /\ buf = [i \in 0 .. BufferCap - 1 |-> "NUL"] /\ head = 0 /\ tail = 0 /\ len = 0
    /\ reader = FALSE /\ history = <<>> /\ keys = 0
    /\ st = [p \in Procs |-> "out"]
    /\ ed = [p \in Procs |-> Fresh(1)]
    /\ cells = Blank /\ col = 0
    /\ unread = <<>> /\ pending = <<>> /\ ref = Restart
    /\ lost = FALSE /\ inserted = FALSE

Next ==
    \/ \E k \in Keys, brk \in BOOLEAN : press(k, brk)
    \/ on_key_irq
    \/ \E p \in Procs :
          \/ \E n \in Maxes : sys_read(p, n)
          \/ enter_read_line(p) \/ next_byte(p) \/ leave_read_line(p)

Spec == Init /\ [][Next]_vars

-----------------------------------------------------------------------------
(* RingKeepsNewest: the ring holds, in order, the newest of the bytes the  *)
(* handler pushed and no reader popped: a full ring loses its oldest bytes *)
(* and nothing else (RingBuffer::push, pop).                               *)
RingKeepsNewest ==
    /\ len = Len(unread)
    /\ unread = [i \in 1 .. len |-> buf[(tail + i - 1) % BufferCap]]

Reading(p) == st[p] = "reading"
Settled == pending = <<>> \/ LET k == Head(pending)
                            IN  k.n = IF k.key \in Extended THEN Len(EscapeOf[k.key]) ELSE 1

(* LineAsTyped: until the ring drops a byte, the line and cursor of the    *)
(* process in read_line are what the keys pressed make of them, however    *)
(* the interrupts, the bytes of an escape sequence and the steps of        *)
(* several readers interleave (handle_scancode, push_escape, next_byte,    *)
(* decode_escape, read_line): every key reaches exactly one line.          *)
LineAsTyped ==
    ~lost /\ Settled =>
        \A p \in Procs : Reading(p) =>
            /\ ed[p].esc = "none"
            /\ ed[p].line = ref.left \o ref.right
            /\ ed[p].cursor = Len(ref.left)

Shown(line) == [i \in 0 .. Cols - 1 |-> IF i < Len(line) THEN line[i + 1] ELSE " "]

(* ScreenShowsLine: the console row shows the line being edited, with the  *)
(* console's cursor where the editor's is, after every byte consumed: no   *)
(* character survives its deletion or a recall.  Lines into whose middle a *)
(* character was inserted are left out: that echo walks back with 0x08,    *)
(* which blanks the cells it passes.                                       *)
ScreenShowsLine ==
    \A p \in Procs : Reading(p) /\ ~inserted /\ Len(ed[p].line) < Cols =>
        cells = Shown(ed[p].line) /\ col = ed[p].cursor
=============================================================================
