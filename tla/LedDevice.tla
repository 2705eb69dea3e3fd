----------------------------- MODULE LedDevice ------------------------------
(***************************************************************************)
(* Writes of several processes to the LED device.  The driver led.c has    *)
(* one buffer for all of them and no lock; led-subsystem.c has a buffer on *)
(* each writer's stack.  Which driver is loaded is chosen initially.       *)
(***************************************************************************)
EXTENDS Naturals, Sequences

CONSTANT Writers

VARIABLES led_driver,   \* "led" or "subsystem"
          buffer,   \* of each writer: the buffer its write uses
          writer_pc,       \* of each writer
          cmd,      \* what it writes
          copied,   \* characters copied from user space
          led,      \* GPIO 27
          asked     \* history: the commands of the writes begun since a
                    \* time when there was none

vars == <<led_driver, buffer, writer_pc, cmd, copied, led, asked>>

Nul == "0"

\* "..." stands for the characters that make a command longer than the
\* buffer; an unknown word and the empty write are there too.
Command == {<<"o", "n">>, <<"o", "f", "f">>, <<"o", "n", "...">>, <<"x">>, <<>>}

Cleared == [i \in 1 .. 4 |-> Nul]

Init ==
    /\ led_driver \in {"led", "subsystem"}
    /\ buffer = [w \in Writers |-> Cleared]
    /\ writer_pc = [w \in Writers |-> "idle"]
    /\ cmd = [w \in Writers |-> <<>>] /\ copied = [w \in Writers |-> 0]
    /\ led = IF led_driver = "led" THEN "on" ELSE "off"
    /\ asked = {}

-----------------------------------------------------------------------------
\* Who sees what writer w stores.
Sharing(w) == IF led_driver = "led" THEN Writers ELSE {w}

\* Writer w stores c in cells i to j.
Store(w, i, j, c) ==
    buffer' = [v \in Writers |->
                  [k \in 1 .. 4 |-> IF v \in Sharing(w) /\ k \in i .. j THEN c
                                   ELSE buffer[v][k]]]

Go(w, to) == writer_pc' = [writer_pc EXCEPT ![w] = to]

Return(w) == /\ Go(w, "idle")
             /\ cmd' = [cmd EXCEPT ![w] = <<>>] /\ copied' = [copied EXCEPT ![w] = 0]

\* led-subsystem.c refuses a command that is too long, led.c cuts it.
CallWrite(w) ==
    /\ writer_pc[w] = "idle"
    /\ \E c \in Command :
          /\ led_driver = "subsystem" => c # <<"o", "n", "...">>
          /\ cmd' = [cmd EXCEPT ![w] = c]
          /\ asked' = {c} \cup IF \A v \in Writers : writer_pc[v] = "idle" THEN {} ELSE asked
    /\ Go(w, "clear")
    /\ UNCHANGED <<led_driver, buffer, copied, led>>

\* Mutated: memset is missing.
WrongClear(w) ==
    /\ writer_pc[w] = "clear"
    /\ Go(w, "copy")
    /\ UNCHANGED <<led_driver, buffer, cmd, copied, led, asked>>

Clear(w) ==
    /\ writer_pc[w] = "clear"
    /\ Store(w, 1, 4, Nul)
    /\ Go(w, "copy")
    /\ UNCHANGED <<led_driver, cmd, copied, led, asked>>

\* copy_from_user stores one character after the other; when it fails, it
\* stores zeros for the rest.
Copy(w) ==
    /\ writer_pc[w] = "copy" /\ copied[w] < Len(cmd[w])
    /\ \/ /\ Store(w, copied[w] + 1, copied[w] + 1, cmd[w][copied[w] + 1])
          /\ copied' = [copied EXCEPT ![w] = @ + 1]
          /\ UNCHANGED <<writer_pc, cmd>>
       \/ Return(w) /\ Store(w, copied[w] + 1, Len(cmd[w]), Nul)
    /\ UNCHANGED <<led_driver, led, asked>>

Terminate(w) ==
    /\ writer_pc[w] = "copy" /\ copied[w] = Len(cmd[w])
    /\ Store(w, Len(cmd[w]) + 1, Len(cmd[w]) + 1, Nul)
    /\ Go(w, "compare")
    /\ UNCHANGED <<led_driver, cmd, copied, led, asked>>

\* strncmp(b, word, strlen(word)) == 0
StartsWith(b, word) == \A i \in 1 .. Len(word) : b[i] = word[i]

\* What the text in b makes of the LED.
Switched(b) ==
    IF StartsWith(b, <<"o", "n">>) THEN "on"
    ELSE IF StartsWith(b, <<"o", "f", "f">>) THEN "off" ELSE led

Compare(w) ==
    /\ writer_pc[w] = "compare"
    /\ led' = Switched(buffer[w])
    /\ Return(w)
    /\ UNCHANGED <<led_driver, buffer, asked>>

Next == \E w \in Writers :
            CallWrite(w) \/ Clear(w) \/ Copy(w) \/ Terminate(w) \/ Compare(w)

-----------------------------------------------------------------------------
(* Properties.                                                             *)

\* What the commands ask for.
Asks(c) == CASE c \in {<<"o", "n">>, <<"o", "n", "...">>} -> "on"
             [] c = <<"o", "f", "f">> -> "off"
             [] OTHER -> "nothing"

\* Overlapping writes to led.c share a half written buffer, but a write is
\* disturbed by no command from before: the LED changes only to what one of
\* the writes asks for that have overlapped since the device was last idle.
\* In led-subsystem.c it is the very write that changes it (led.c 68-104,
\* led-subsystem.c 18-36).
LedObeysWriters ==
    [][led' # led =>
          /\ led' \in {Asks(c) : c \in asked}
          /\ led_driver = "subsystem" =>
                \E w \in Writers : /\ writer_pc[w] = "compare" /\ writer_pc'[w] = "idle"
                                   /\ led' = Asks(cmd[w])]_vars
=============================================================================
