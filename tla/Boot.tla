--------------------------------- MODULE Boot ---------------------------------
(***************************************************************************)
(* Start-up: the boot loader's disk reads, then kernel_main from init_idt  *)
(* to the shell prompt, against the keyboard interrupt handler, the PS/2   *)
(* controller and the keyboard.                                            *)
(*                                                                         *)
(* keyboard_init polls port 0x60 for the keyboard's answers while          *)
(* interrupts are already on, so the handler reads the same port.  A step  *)
(* of kernel_main is one port access or one write sequence the handler     *)
(* cannot observe half-way; the handler's read of the port and the rest of *)
(* it are two steps, during which kernel_main stands still.                *)
(*                                                                         *)
(* External, from how the code uses them: the controller has one output    *)
(* byte, which stays in its latch after it has been read; it answers its   *)
(* own command 0x20 within the io_wait() that follows it and passes the    *)
(* keyboard's bytes on later; it requests an interrupt when a byte arrives *)
(* and bit 0 of its configuration is set.  The interrupt controller keeps  *)
(* a request until it is delivered, whoever has read the byte meanwhile.   *)
(* The keyboard answers 0xFF with ACK and, its self-test done, BAT; both   *)
(* 0xFF and 0xF4 empty its own buffer.                                     *)
(***************************************************************************)
EXTENDS Integers, SequencesExt

CONSTANTS
    Keys,           \* scancodes of the character keys the user presses, each once
    BIOSConfig,     \* configurations the BIOS may leave the controller in
    TABLE_SIZE,     \* sizeof(scancode_to_ascii_de)
    DISK_TRIES      \* reads of the kernel the boot loader tries

ACK == 250
BAT == 170
RELEASED == 128     \* the bit of a scancode that says "released"

Byte == 0..255

(* The bits of the configuration that keyboard_init sets and clears, and   *)
(* the one that says that scancodes are translated to set 1.               *)
IRQ1 == 1
CLOCK_OFF == 16
SECOND_OFF == 32
TRANSLATE == 64

Bit(b, m) == (b \div m) % 2 = 1
SetBit(b, m) == IF Bit(b, m) THEN b ELSE b + m
ClearBit(b, m) == IF Bit(b, m) THEN b - m ELSE b

ASSUME BootAssumption ==
    /\ TABLE_SIZE \in 1..112              \* below any answer to 0x20, see AskConfig
    /\ Keys \subseteq 1..(TABLE_SIZE - 1)
    /\ Keys \cap {42, 54, 58} = {}         \* the shift keys and caps lock
    /\ \A c \in BIOSConfig : c \in 0..127 /\ Bit(c, TRANSLATE) /\ ~Bit(c, CLOCK_OFF)
    /\ DISK_TRIES \in Nat \ {0}

VARIABLES
    pc,         \* where the boot loader or kernel_main is
    tries,      \* disk_tries
    config_var, \* the local variable config of keyboard_init
    sti,        \* the interrupt flag, outside the handler
    irr,        \* an interrupt request waits to be delivered
    inService,  \* the interrupt controller waits for the end of interrupt
    handler,    \* where the handler is
    scancode,   \* what it has read
    obf,        \* the output byte is there to be read (bit 0 of the status)
    latch,      \* what port 0x60 reads
    config,     \* the controller's configuration
    kq,         \* bytes the keyboard has still to send
    scanning,   \* the keyboard reports keys
    held,       \* keys that are down
    pressed,    \* history: the keys pressed
    typed,      \* history: the keys the handler took for input
    late,       \* history: the keys pressed after start-up was over
    stolen      \* history: the handler has read an answer of the keyboard

kernel == <<pc, tries, config_var>>
cpu    == <<sti, inService, handler, scancode>>
device == <<config, kq, scanning>>
port   == <<irr, obf, latch>>
user   == <<held, pressed, late>>
hist   == <<typed, stolen>>
vars   == <<kernel, cpu, device, port, user, hist>>

Init ==
    /\ pc = "load" /\ tries = DISK_TRIES /\ config_var = 0
    /\ sti = FALSE /\ inService = FALSE /\ handler = "idle" /\ scancode = 0
    /\ config \in BIOSConfig /\ kq = << >> /\ scanning = TRUE
    /\ irr = FALSE /\ obf = FALSE /\ latch = 0
    /\ held = {} /\ pressed = << >> /\ late = {}
    /\ typed = << >> /\ stolen = FALSE

-------------------------------------------------------------------------------
(* The port, seen from both sides. *)

(* inb(0x60): the byte stays in the latch. *)
TakeByte == obf' = FALSE /\ UNCHANGED <<irr, latch>>

(* A byte arrives; raise says that the interrupt line goes up with it. *)
PutByte(b, raise) ==
    /\ obf' = TRUE
    /\ latch' = b
    /\ irr' = (irr \/ raise)

-------------------------------------------------------------------------------
(* The boot loader, and kernel_main up to the prompt.  The handler runs to *)
(* its end before either goes on.                                          *)

Goto(from, to) ==
    /\ handler = "idle"
    /\ pc = from
    /\ pc' = to

Step(from, to) == Goto(from, to) /\ UNCHANGED <<tries, config_var>>

(* Faulty: the count is compared before it is taken down. *)
ReadDisk_once_more(ok) ==
    /\ Goto("load", IF ok THEN "remap" ELSE IF tries = 0 THEN "halted" ELSE "load")
    /\ tries' = IF ok THEN tries ELSE tries - 1
    /\ UNCHANGED <<config_var, cpu, device, port, user, hist>>

(* load_kernel: a failed read is tried again, DISK_TRIES times in all. *)
ReadDisk(ok) ==
    /\ Goto("load", IF ok THEN "remap" ELSE IF tries = 1 THEN "halted" ELSE "load")
    /\ tries' = IF ok THEN tries ELSE tries - 1
    /\ UNCHANGED <<config_var, cpu, device, port, user, hist>>

(* init_idt programs the interrupt controller anew, which forgets requests *)
(* it has latched; the line of a byte that is waiting does not rise again. *)
RemapPIC ==
    /\ Step("remap", "sti")
    /\ irr' = FALSE
    /\ UNCHANGED <<obf, latch, cpu, device, user, hist>>

Sti ==
    /\ Step("sti", "disable")
    /\ sti' = TRUE
    /\ UNCHANGED <<inService, handler, scancode, device, port, user, hist>>

(* 0xAD, 0xA7.  The second port has no device.  The wait for the           *)
(* controller's input buffer before them is over: nothing has been written *)
(* to it, the boot loader turns on A20 by port 0x92.                       *)
DisablePorts ==
    /\ Step("disable", "flush")
    /\ config' = SetBit(SetBit(config, CLOCK_OFF), SECOND_OFF)
    /\ UNCHANGED <<kq, scanning, cpu, port, user, hist>>

(* Faulty: the output buffer is not flushed. *)
FlushTest_skipped ==
    /\ Step("flush", "ask")
    /\ UNCHANGED <<cpu, device, port, user, hist>>

(* The loop that empties the output buffer: the status, then the data. *)
FlushTest ==
    /\ Step("flush", IF obf THEN "drain" ELSE "ask")
    /\ UNCHANGED <<cpu, device, port, user, hist>>

FlushRead ==
    /\ Step("drain", "flush")
    /\ TakeByte
    /\ UNCHANGED <<cpu, device, user, hist>>

(* 0x20.  keyboard_init reads the data port after one io_wait and does not *)
(* look whether the answer is there: that it is, is assumed here.  Some    *)
(* controllers interrupt for their own answers, some not while the port is *)
(* disabled.  A byte nobody has read comes before the answer.              *)
(* With both ports off and translation on the answer is 112 or more, which *)
(* is beyond the table of the keys.                                        *)
AskConfig ==
    /\ Step("ask", "read")
    /\ \E raise \in BOOLEAN :
         /\ raise => Bit(config, IRQ1)
         /\ IF obf THEN UNCHANGED port ELSE PutByte(config, raise)
    /\ UNCHANGED <<cpu, device, user, hist>>

(* Faulty: a fixed configuration is written and the answer left unread. *)
ReadConfig_unread ==
    /\ Goto("read", "write")
    /\ config_var' = 65
    /\ UNCHANGED <<tries, cpu, device, port, user, hist>>

(* The data port is read without a look at the status. *)
ReadConfig ==
    /\ Goto("read", "write")
    /\ config_var' = ClearBit(SetBit(latch, IRQ1), CLOCK_OFF)
    /\ TakeByte
    /\ UNCHANGED <<tries, cpu, device, user, hist>>

(* 0x60 and the byte; then 0xAE, which the byte has done already. *)
WriteConfig ==
    /\ Step("write", "reset")
    /\ config' = config_var
    /\ UNCHANGED <<kq, scanning, cpu, port, user, hist>>

ResetKeyboard ==
    /\ Step("reset", "ack")
    /\ kq' = <<ACK, BAT>>
    /\ scanning' = FALSE
    /\ UNCHANGED <<config, cpu, port, user, hist>>

(* The three waits for an answer: the status until it is set, then the     *)
(* data, whatever it is.                                                   *)
Wait == {"ack", "bat", "ack2"}
Got(w) == CASE w = "ack" -> "take ack" [] w = "bat" -> "take bat" [] OTHER -> "take ack2"
After(w) == CASE w = "ack" -> "bat" [] w = "bat" -> "scan" [] OTHER -> "shell"

Await(w) ==
    /\ Step(w, Got(w))
    /\ obf
    /\ UNCHANGED <<cpu, device, port, user, hist>>

Take(w) ==
    /\ Step(Got(w), After(w))
    /\ TakeByte
    /\ UNCHANGED <<cpu, device, user, hist>>

(* Faulty: the command is not sent. *)
EnableScanning_unsent ==
    /\ Step("scan", "ack2")
    /\ UNCHANGED <<cpu, device, port, user, hist>>

(* 0xF4. *)
EnableScanning ==
    /\ Step("scan", "ack2")
    /\ kq' = <<ACK>>
    /\ scanning' = TRUE
    /\ UNCHANGED <<config, cpu, port, user, hist>>

Kernel ==
    \/ \E ok \in BOOLEAN : ReadDisk(ok)
    \/ RemapPIC \/ Sti \/ DisablePorts \/ FlushTest \/ FlushRead
    \/ AskConfig \/ ReadConfig \/ WriteConfig
    \/ ResetKeyboard \/ EnableScanning
    \/ \E w \in Wait : Await(w) \/ Take(w)

-------------------------------------------------------------------------------
(* The interrupt. *)

Deliver ==
    /\ sti /\ irr /\ ~inService /\ handler = "idle"
    /\ irr' = FALSE
    /\ inService' = TRUE
    /\ handler' = "read"
    /\ UNCHANGED <<sti, scancode, kernel, device, obf, latch, user, hist>>

HandlerRead ==
    /\ handler = "read"
    /\ handler' = "run"
    /\ scancode' = latch
    /\ TakeByte
    /\ stolen' = (stolen \/ (obf /\ latch \in {ACK, BAT}))
    /\ UNCHANGED <<sti, inService, kernel, device, user, typed>>

(* Faulty: a key released counts as pressed. *)
Input_released(b) ==
    IF b % RELEASED < TABLE_SIZE /\ b % RELEASED \notin {42, 54, 58}
    THEN <<b % RELEASED>> ELSE << >>

(* What keyboard_handler adds to the input: the key of a press that the    *)
(* table has a character for.  42 and 54 are the shift keys, 58 caps lock. *)
Input(b) ==
    IF b < RELEASED /\ b < TABLE_SIZE /\ b \notin {42, 54, 58} THEN <<b>> ELSE << >>

(* Faulty: the path of the shift keys, which BAT takes for a release of    *)
(* the left one, has no end of interrupt.                                  *)
HandlerRun_no_eoi ==
    /\ handler = "run"
    /\ handler' = "idle"
    /\ inService' = (scancode % RELEASED \in {42, 54})
    /\ typed' = typed \o Input(scancode)
    /\ UNCHANGED <<sti, scancode, kernel, device, port, user, stolen>>

(* Faulty: nor has the path of a key released. *)
HandlerRun_release_no_eoi ==
    /\ handler = "run"
    /\ handler' = "idle"
    /\ inService' = (scancode - RELEASED \in Keys)
    /\ typed' = typed \o Input(scancode)
    /\ UNCHANGED <<sti, scancode, kernel, device, port, user, stolen>>

(* The rest of the handler, with the end of interrupt every path ends in,  *)
(* and the return to kernel_main.                                          *)
HandlerRun ==
    /\ handler = "run"
    /\ handler' = "idle"
    /\ inService' = FALSE
    /\ typed' = typed \o Input(scancode)
    /\ UNCHANGED <<sti, scancode, kernel, device, port, user, stolen>>

-------------------------------------------------------------------------------
(* The controller, the keyboard and the user. *)

(* With its self-test done the keyboard reports keys. *)
SendKeyboard ==
    /\ ~obf /\ kq # << >> /\ ~Bit(config, CLOCK_OFF)
    /\ PutByte(Head(kq), Bit(config, IRQ1))
    /\ kq' = Tail(kq)
    /\ scanning' = (scanning \/ Head(kq) = BAT)
    /\ UNCHANGED <<config, kernel, cpu, user, hist>>

(* More requests, waiting and about to be served, than bytes: one is for a *)
(* byte that has been read.                                                *)
StaleRequest == (irr \/ handler = "read") /\ (obf => irr /\ handler = "read")

(* Until the boot loader has turned interrupts off, the BIOS has the keys. *)
Press(k) ==
    /\ scanning /\ pc \notin {"load", "halted"}
    /\ k \notin ToSet(pressed)
    /\ kq' = Append(kq, k)
    /\ pressed' = Append(pressed, k)
    /\ held' = held \cup {k}
    /\ late' = IF pc = "shell" /\ ~StaleRequest THEN late \cup {k} ELSE late
    /\ UNCHANGED <<config, scanning, kernel, cpu, port, hist>>

Release(k) ==
    /\ scanning /\ k \in held
    /\ kq' = Append(kq, k + RELEASED)
    /\ held' = held \ {k}
    /\ UNCHANGED <<config, scanning, pressed, late, kernel, cpu, port, hist>>

Next ==
    \/ Kernel
    \/ Deliver \/ HandlerRead \/ HandlerRun
    \/ SendKeyboard
    \/ \E k \in Keys : Press(k) \/ Release(k)

(* The processor executes kernel_main and, interrupts on, takes a request  *)
(* and runs the handler to its end; the controller and the keyboard send   *)
(* what they hold.  The user owes nothing.                                 *)
Fairness ==
    /\ WF_vars(Kernel)
    /\ WF_vars(Deliver)
    /\ WF_vars(HandlerRead \/ HandlerRun)
    /\ WF_vars(SendKeyboard)

Spec == Init /\ [][Next]_vars /\ Fairness

-------------------------------------------------------------------------------
(* Properties. *)

Configured == {"reset", "scan", "shell"} \cup Wait \cup {Got(w) : w \in Wait}

(* The type invariant. *)
TypeOK ==
    /\ pc \in {"load", "halted", "remap", "sti", "disable", "flush", "drain",
               "ask", "read", "write"} \cup Configured
    /\ tries \in 0..DISK_TRIES
    /\ {config_var, scancode, latch, config} \subseteq Byte
    /\ handler \in {"idle", "read", "run"}
    /\ {sti, irr, inService, obf, scanning, stolen} \subseteq BOOLEAN
    /\ kq \in Seq(Byte)
    /\ held \subseteq Keys /\ late \subseteq Keys
    /\ pressed \in Seq(Keys) /\ typed \in Seq(Byte)

(* keyboard_init writes back the configuration it asked for, with the      *)
(* interrupt and the clock on and scancode translation as the BIOS left    *)
(* it, although it reads the port without waiting and the handler may have *)
(* taken the byte first.                                                   *)
TranslationKept ==
    pc \in Configured =>
        Bit(config, TRANSLATE) /\ Bit(config, IRQ1) /\ ~Bit(config, CLOCK_OFF)

Place(k) == CHOOSE i \in DOMAIN pressed : pressed[i] = k

(* What the shell or the editor gets is what was typed, in that order: no  *)
(* answer of the controller or the keyboard is taken for a key.  A poll    *)
(* leaves its interrupt request behind, so a key may come twice; but not   *)
(* when it was pressed after start-up was over.                            *)
NoGhostKey ==
    /\ ToSet(typed) \subseteq ToSet(pressed)
    /\ \A i, j \in DOMAIN typed :
         /\ i < j => Place(typed[i]) <= Place(typed[j])
         /\ i # j /\ typed[i] \in late => typed[i] # typed[j]

(* Left alone by the user and by the handler, each of the three waits ends *)
(* with the answer it is for: nothing older is left in the port when the   *)
(* keyboard is reset.                                                      *)
AnswersRead ==
    \A w \in Wait : pc = Got(w) /\ pressed = << >> /\ ~stolen =>
        latch = IF w = "bat" THEN BAT ELSE ACK

(* No byte stays in the controller for ever, which would keep every later  *)
(* key from raising an interrupt.                                          *)
BytesTaken == obf ~> ~obf

(* A key pressed after start-up is over reaches the handler's input.       *)
KeysArrive == \A k \in Keys : (k \in late) ~> (k \in ToSet(typed))

(* Start-up ends, at the prompt or at the boot loader's disk error, unless *)
(* the handler has read an answer that keyboard_init waits for.            *)
PromptUnlessStolen == <>(pc \in {"halted", "shell"} \/ stolen)

-------------------------------------------------------------------------------
(* What the documentation promises and the code does not keep, refuted by  *)
(* a run of its own.                                                       *)

(* "After building and running, you should see: ... Shell prompt": once    *)
(* the kernel is loaded, start-up reaches the prompt.                      *)
PromptAppears == <>(pc \in {"halted", "shell"})

===============================================================================
