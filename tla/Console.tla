------------------------------ MODULE Console -------------------------------
(***************************************************************************)
(* The console (dev/generic/console.c) on the serial port                  *)
(* (dev/lamebus/lser.c).  Characters are sent with interrupts, by threads  *)
(* that wait for the one before, or polled, by code that must not sleep;   *)
(* and before there is a console they are kept.  Characters that are typed *)
(* go to a ring, from which threads take them.                             *)
(*                                                                         *)
(* A thread may lose the CPU, and another CPU may run, between any two     *)
(* steps; ls_lock is a spinlock, and works.  The two sleep locks of con_io *)
(* are not here, because they do nothing (synch.c).                        *)
(***************************************************************************)
EXTENDS Integers, Sequences, FiniteSets

CONSTANTS
    Writer,      \* threads that write with con_io
    Polled,      \* code that prints with interrupts off or in a handler
    Reader,      \* threads that read
    Boot,        \* the thread that boots
    Line,        \* what every one of them writes
    Early,       \* how much of it the boot thread prints before there is a console
    DelaySize,   \* DELAYBUFSIZE
    RingSize,    \* CONSOLE_INPUT_BUFFER_SIZE
    Keys         \* how many characters are typed

VARIABLES
    the_console, delayed,           \* is there a console; delayed_outbuf
    cs_wsem, cs_rsem,
    gotchars, head, tail,           \* cs_gotchars
    ls_wbusy, ls_lock,              \* the driver of the port
    wirq, rirq, sending,            \* the port: its interrupt registers, the character it sends
    irq, ch,                        \* lser_irq: what is left for it to do, what it has read
    wpc, todo,                      \* of everybody who prints: what is left to print
    rpc, rloc,                      \* of every reader
    out,                            \* what went out, of everybody
    typed, accepted, taken,         \* ghosts: what was typed, what got into the ring, what was read
    panicked

output == <<cs_wsem, ls_wbusy, ls_lock, wirq, sending, wpc, todo, out>>
input  == <<cs_rsem, gotchars, head, tail, rirq, ch, rpc, rloc, typed, accepted, taken>>
varsConsole == <<the_console, delayed, output, input, irq, panicked>>

(* What is printed before there is a console fits in the buffer for it,    *)
(* and nobody has the name of a lock that is free.                         *)
Chars == {"cr"} \cup {Line[n] : n \in 1..Len(Line)}
ASSUME ConsoleAssumption ==
    /\ Line \in Seq(Chars) /\ Early \in 0..DelaySize /\ DelaySize \in Nat
    /\ RingSize \in Nat \ {0} /\ "none" \notin Writer \cup Polled \cup {Boot}

Printer == Writer \cup Polled \cup {Boot}
NULL == [none |-> TRUE]
Off  == [enable |-> FALSE, active |-> FALSE, force |-> FALSE]
On   == [Off EXCEPT !.enable = TRUE]

(* con_io puts a carriage return before a newline: every character is put  *)
(* off by the newlines up to it, and what lies between are the returns.    *)
con_io(text) ==
    LET At(k) == k + Cardinality({l \in 1..k : text[l] = "nl"})
    IN  [n \in 1..At(Len(text)) |-> IF \E k \in 1..Len(text) : At(k) = n
                                    THEN text[CHOOSE k \in 1..Len(text) : At(k) = n]
                                    ELSE "cr"]
Says(p) == IF p \in Writer THEN con_io(Line) ELSE Line

InitConsole ==
    /\ the_console = FALSE /\ delayed = << >>
    /\ cs_wsem = 1 /\ cs_rsem = 0
    /\ gotchars = [k \in 0..(RingSize - 1) |-> 0] /\ head = 0 /\ tail = 0
    /\ ls_wbusy = FALSE /\ ls_lock = "none"
    /\ wirq = On /\ rirq = 0 /\ sending = NULL
    /\ irq = {} /\ ch = 0 /\ wpc = [p \in Printer |-> "putch"] /\ todo = [p \in Printer |-> Says(p)]
    /\ rpc = [r \in Reader |-> "getch"] /\ rloc = [r \in Reader |-> 0]
    /\ out = [p \in Printer |-> << >>] /\ typed = 0 /\ accepted = << >> /\ taken = << >>
    /\ panicked = "no"

Moves(p, l) == wpc' = [wpc EXCEPT ![p] = l]
Char(p) == [by |-> p, ch |-> Head(todo[p])]
Said(p) == todo' = [todo EXCEPT ![p] = Tail(@)]
At(p, l) == wpc[p] = l /\ todo[p] # << >> /\ panicked = "no"

-----------------------------------------------------------------------------
(* The serial port.  A character written to it while it sends another      *)
(* takes that one's place.                                                 *)
PortSends ==
    /\ sending # NULL
    /\ out' = [out EXCEPT ![sending.by] = Append(@, sending.ch)] /\ sending' = NULL
    /\ wirq' = [wirq EXCEPT !.active = TRUE]
    /\ UNCHANGED <<the_console, delayed, cs_wsem, ls_wbusy, ls_lock, wpc, todo, input, irq, panicked>>

Type ==
    /\ typed < Keys /\ rirq = 0 /\ the_console
    /\ typed' = typed + 1 /\ rirq' = typed + 1
    /\ UNCHANGED <<the_console, delayed, output, cs_rsem, gotchars, head, tail, ch, rpc, rloc,
                   accepted, taken, irq, panicked>>

(* The interrupt handler: what the port has to say, under ls_lock ...      *)
lser_irq ==
    /\ irq = {} /\ ls_lock = "none" /\ panicked = "no"
    /\ (wirq.enable /\ (wirq.active \/ wirq.force)) \/ rirq # 0
    /\ wirq' = IF wirq.active THEN On ELSE wirq
    /\ ls_wbusy' = IF wirq.active THEN FALSE ELSE ls_wbusy
    /\ rirq' = 0 /\ ch' = IF rirq # 0 THEN rirq ELSE ch
    /\ irq' = (IF wirq.active THEN {"start"} ELSE {}) \cup (IF rirq # 0 THEN {"input"} ELSE {})
    /\ UNCHANGED <<the_console, delayed, cs_wsem, ls_lock, sending, wpc, todo, out, cs_rsem,
                   gotchars, head, tail, rpc, rloc, typed, accepted, taken, panicked>>

(* ... and then what the console does about it.                            *)
con_start ==
    /\ "start" \in irq
    /\ cs_wsem' = cs_wsem + 1 /\ irq' = irq \ {"start"}
    /\ UNCHANGED <<the_console, delayed, ls_wbusy, ls_lock, wirq, sending, wpc, todo, out, input,
                   panicked>>

(* When the ring is full the character is dropped.                         *)
con_input ==
    /\ irq = {"input"}
    /\ IF (head + 1) % RingSize = tail THEN UNCHANGED <<gotchars, head, cs_rsem, accepted>>
       ELSE /\ gotchars' = [gotchars EXCEPT ![head] = ch] /\ head' = (head + 1) % RingSize
            /\ cs_rsem' = cs_rsem + 1 /\ accepted' = Append(accepted, ch)
    /\ irq' = {}
    /\ UNCHANGED <<the_console, delayed, output, tail, rirq, ch, rpc, rloc, typed, taken, panicked>>

-----------------------------------------------------------------------------
(* Before there is a console.                                              *)
putch_delayed ==
    /\ ~the_console /\ At(Boot, "putch") /\ Len(delayed) < Early
    /\ IF Len(delayed) < DelaySize
       THEN delayed' = Append(delayed, Head(todo[Boot])) /\ Said(Boot) /\ UNCHANGED panicked
       ELSE panicked' = "delayed_outbuf_pos" /\ UNCHANGED <<delayed, todo>>
    /\ UNCHANGED <<the_console, cs_wsem, ls_wbusy, ls_lock, wirq, sending, wpc, out, input, irq>>

(* config_con and flush_delay_buf: the boot thread goes on with what was   *)
(* kept.                                                                   *)
config_con ==
    /\ ~the_console /\ Len(delayed) = Early /\ panicked = "no"
    /\ the_console' = TRUE /\ delayed' = << >>
    /\ todo' = [todo EXCEPT ![Boot] = delayed \o @]
    /\ UNCHANGED <<cs_wsem, ls_wbusy, ls_lock, wirq, sending, wpc, out, input, irq, panicked>>

-----------------------------------------------------------------------------
(* putch, in a thread that may sleep.                                      *)
putch_intr(p) ==
    /\ the_console /\ p \notin Polled /\ At(p, "putch") /\ cs_wsem > 0
    /\ cs_wsem' = cs_wsem - 1
    /\ Moves(p, "send")
    /\ UNCHANGED <<the_console, delayed, ls_wbusy, ls_lock, wirq, sending, todo, out, input, irq,
                   panicked>>

lser_write(p) ==
    /\ At(p, "send") /\ ls_lock = "none"
    /\ IF ls_wbusy THEN panicked' = "Not clear to write" /\ UNCHANGED <<ls_wbusy, sending, todo, wpc>>
       ELSE /\ ls_wbusy' = TRUE /\ sending' = Char(p)
            /\ Said(p) /\ Moves(p, "putch") /\ UNCHANGED panicked
    /\ UNCHANGED <<the_console, delayed, cs_wsem, ls_lock, wirq, out, input, irq>>

(* Mistake: what is being sent is not waited for.                          *)
lser_writepolled_now(p) ==
    /\ the_console /\ p \in Polled /\ At(p, "putch") /\ ls_lock = "none"
    /\ ls_lock' = p
    /\ wirq' = Off /\ sending' = Char(p) /\ Said(p) /\ Moves(p, "clear")
    /\ UNCHANGED <<the_console, delayed, cs_wsem, ls_wbusy, out, input, irq, panicked>>

(* putch, in code that may not: the port's lock is held all the time.  If  *)
(* a character is on its way its end is awaited, but not reported.         *)
lser_writepolled(p) ==
    /\ the_console /\ p \in Polled /\ At(p, "putch") /\ ls_lock = "none"
    /\ ls_lock' = p
    /\ IF ls_wbusy THEN Moves(p, "poll") /\ UNCHANGED <<wirq, sending, todo>>
       ELSE wirq' = Off /\ sending' = Char(p) /\ Said(p) /\ Moves(p, "clear")
    /\ UNCHANGED <<the_console, delayed, cs_wsem, ls_wbusy, out, input, irq, panicked>>

lser_poll_until_write(p) ==
    /\ wpc[p] \in {"poll", "clear", "leave"} /\ ~wirq.active /\ UNCHANGED varsConsole

PollSend(p) ==
    /\ At(p, "poll") /\ wirq.active
    /\ wirq' = [On EXCEPT !.force = TRUE]
    /\ sending' = Char(p) /\ Said(p) /\ Moves(p, "leave")
    /\ UNCHANGED <<the_console, delayed, cs_wsem, ls_wbusy, ls_lock, out, input, irq, panicked>>

(* Mistake: the end of the character before is taken for one's own.        *)
PollEnd_clears(p) ==
    /\ wpc[p] \in {"clear", "leave"} /\ wirq.active /\ panicked = "no"
    /\ wirq' = On
    /\ ls_lock' = "none" /\ Moves(p, "putch")
    /\ UNCHANGED <<the_console, delayed, cs_wsem, ls_wbusy, sending, todo, out, input, irq, panicked>>

(* The character is out.  If another one's end is still to be reported,    *)
(* the interrupt is left for that.                                         *)
PollEnd(p) ==
    /\ wpc[p] \in {"clear", "leave"} /\ wirq.active /\ panicked = "no"
    /\ wirq' = IF wpc[p] = "clear" THEN On ELSE wirq
    /\ ls_lock' = "none" /\ Moves(p, "putch")
    /\ UNCHANGED <<the_console, delayed, cs_wsem, ls_wbusy, sending, todo, out, input, irq, panicked>>

-----------------------------------------------------------------------------
(* getch_intr: take the next character; then the place of the one after is *)
(* stored.                                                                 *)
getch_intr(r) ==
    /\ rpc[r] = "getch" /\ cs_rsem > 0 /\ panicked = "no"
    /\ cs_rsem' = cs_rsem - 1
    /\ taken' = Append(taken, gotchars[tail])
    /\ rloc' = [rloc EXCEPT ![r] = (tail + 1) % RingSize]
    /\ rpc' = [rpc EXCEPT ![r] = "got"]
    /\ UNCHANGED <<the_console, delayed, output, gotchars, head, tail, rirq, ch, typed, accepted,
                   irq, panicked>>

Taken(r) ==
    /\ rpc[r] = "got"
    /\ tail' = rloc[r]
    /\ rpc' = [rpc EXCEPT ![r] = "getch"]
    /\ UNCHANGED <<the_console, delayed, output, cs_rsem, gotchars, head, rirq, ch, rloc, typed,
                   accepted, taken, irq, panicked>>

StoppedConsole ==
    /\ panicked # "no" \/ typed = Keys
    /\ UNCHANGED varsConsole

Prints(p) ==
    \/ putch_intr(p) \/ lser_write(p) \/ lser_writepolled(p) \/ lser_poll_until_write(p)
    \/ PollSend(p) \/ PollEnd(p)

BootPrints == putch_delayed \/ config_con \/ Prints(Boot)

Interrupt == lser_irq \/ con_start \/ con_input

NextConsole ==
    \/ PortSends \/ Type \/ Interrupt \/ putch_delayed \/ config_con \/ StoppedConsole
    \/ \E p \in Printer : Prints(p)
    \/ \E r \in Reader : getch_intr(r) \/ Taken(r)

(* The port sends, its interrupts are taken, and all threads are run.      *)
FairnessConsole ==
    /\ WF_varsConsole(PortSends) /\ WF_varsConsole(Interrupt) /\ WF_varsConsole(BootPrints)
    /\ \A p \in Printer \ {Boot} : WF_varsConsole(Prints(p))

SpecConsole == InitConsole /\ [][NextConsole]_varsConsole /\ FairnessConsole

-----------------------------------------------------------------------------
TypeConsole ==
    /\ cs_wsem \in 0..1 /\ cs_rsem \in 0..(RingSize - 1)
    /\ head \in 0..(RingSize - 1) /\ tail \in 0..(RingSize - 1)
    /\ irq \subseteq {"start", "input"} /\ Len(delayed) <= DelaySize

(* What everybody prints goes out whole and in order, each character once: *)
(* also what was printed before there was a console, and when code that    *)
(* polls breaks in on a thread that waits (putch and all below it).        *)
InPort(p) == IF sending # NULL /\ sending.by = p THEN <<sending.ch>> ELSE << >>
OutputKept ==
    \A p \in Printer :
        out[p] \o InPort(p) \o (IF p = Boot THEN delayed ELSE << >>) \o todo[p] = Says(p)

(* The port is never written to while it is busy, and the buffer for what  *)
(* is printed at boot does not overflow (lser_write, putch_delayed).       *)
NoConsolePanic == panicked = "no"

(* The characters that get into the ring are read, each once and in the    *)
(* order they were typed; and the semaphore counts those in the ring       *)
(* (getch_intr, con_input).                                                *)
InputInOrder ==
    /\ \A m, n \in 1..Len(accepted) : m < n => accepted[m] < accepted[n]
    /\ taken = SubSeq(accepted, 1, Len(taken))
    /\ cs_rsem = Len(accepted) - Len(taken)
    /\ (\A r \in Reader : rpc[r] = "getch") => (head - tail) % RingSize = cs_rsem

(* Everybody who prints gets done: the end of a character is reported even *)
(* if code that polls has seen it first (lser_writepolled).                *)
AllPrinted == \A p \in Printer : todo[p] = << >>
PrintersDone == <>AllPrinted
=============================================================================
