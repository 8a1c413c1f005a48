------------------------------ MODULE BootProofs ------------------------------
(***************************************************************************)
(* Proofs about Boot: for every set of keys, every configuration the BIOS  *)
(* may leave behind, every table size and every number of disk reads, the  *)
(* configuration that keyboard_init writes keeps the translation, each of  *)
(* its waits that nothing disturbs ends with the answer it is for, and the *)
(* keys the handler takes for input are the keys pressed.                  *)
(***************************************************************************)
EXTENDS Boot, SequenceTheorems, TLAPS

-------------------------------------------------------------------------------
(* The inductive invariant, in three parts. *)

(* What keyboard_init relies on between its steps.  While it waits for the *)
(* configuration the clock is off, so that no byte of the keyboard takes   *)
(* the place of the answer.                                                *)
Translating ==
    /\ pc = "load" => tries >= 1
    /\ Bit(config, TRANSLATE)
    /\ pc \in {"flush", "drain", "ask", "read", "write"} =>
         Bit(config, CLOCK_OFF) /\ Bit(config, SECOND_OFF)
    /\ pc = "ask" => ~obf
    /\ pc = "read" => latch = config
    /\ pc = "write" =>
         Bit(config_var, TRANSLATE) /\ Bit(config_var, IRQ1) /\ ~Bit(config_var, CLOCK_OFF)
    /\ TranslationKept

(* Nobody has touched a key and the handler has read no answer. *)
Quiet == pressed = << >> /\ ~stolen

(* The byte b waits in the port, the bytes q still in the keyboard. *)
InPort(b, q) == obf /\ latch = b /\ kq = q
InKeyboard(q) == ~obf /\ kq = q

(* Where the keyboard's answers are, if nothing disturbs them. *)
Answering ==
    /\ held \subseteq ToSet(pressed)
    /\ Quiet =>
         /\ pc \in {"load", "halted", "remap", "sti", "disable", "flush", "drain",
                    "ask", "write", "reset", "scan"} => InKeyboard(<< >>)
         /\ pc = "read" => kq = << >>
         /\ pc = "ack" => InKeyboard(<<ACK, BAT>>) \/ InPort(ACK, <<BAT>>)
         /\ pc = "take ack" => InPort(ACK, <<BAT>>)
         /\ pc = "bat" => InKeyboard(<<BAT>>) \/ InPort(BAT, << >>)
         /\ pc = "take bat" => InPort(BAT, << >>)
         /\ pc = "ack2" => InKeyboard(<<ACK>>) \/ InPort(ACK, << >>)
         /\ pc = "take ack2" => InPort(ACK, << >>)

(* The bytes that keyboard_handler takes for a character key. *)
Character == (0..(TABLE_SIZE - 1)) \ {42, 54, 58}

(* The keys on their way: in the keyboard, in the port with somebody yet   *)
(* to read it, read by the handler, typed.                                 *)
Queued  == ToSet(kq) \cap Character
Latched == {b \in Character : b = latch /\ (obf \/ irr \/ handler = "read")}
Running == {b \in Character : b = scancode /\ handler = "run"}
Typed   == ToSet(typed)

(* a was pressed no later than b. *)
Before(a, b) ==
    \A i, j \in DOMAIN pressed : pressed[i] = a /\ pressed[j] = b => i <= j

Sorted(A, B) == \A a \in A, b \in B : Before(a, b)

(* No key that was pressed after start-up is in both places. *)
Once(A, B) == \A k \in late : ~(k \in A /\ k \in B)

(* The keys on their way have been pressed, and in the order they have.    *)
InOrder ==
    /\ \A i, j \in DOMAIN pressed : pressed[i] = pressed[j] => i = j
    /\ Queued \cup Latched \cup Running \cup Typed \subseteq ToSet(pressed)
    /\ Sorted(Typed, Running) /\ Sorted(Typed, Latched) /\ Sorted(Typed, Queued)
    /\ Sorted(Running, Latched) /\ Sorted(Running, Queued)
    /\ Sorted(Latched, Queued)
    /\ \A i, j \in DOMAIN kq : i < j /\ kq[i] \in Character /\ kq[j] \in Character =>
         Before(kq[i], kq[j]) /\ kq[i] # kq[j]
    /\ \A i, j \in DOMAIN typed : i < j => Before(typed[i], typed[j])

(* A key pressed after start-up, when no request is left over, is in one   *)
(* place.  Every byte has its own request from there on.                   *)
NoRepeat ==
    /\ late # {} => pc = "shell" /\ ~StaleRequest
    /\ late \subseteq ToSet(pressed)
    /\ Once(Typed, Running) /\ Once(Typed, Latched) /\ Once(Typed, Queued)
    /\ Once(Running, Latched) /\ Once(Running, Queued)
    /\ Once(Latched, Queued)
    /\ \A i, j \in DOMAIN typed : i < j /\ typed[i] \in late => typed[i] # typed[j]

Inv == TypeOK /\ Translating /\ Answering /\ InOrder /\ NoRepeat

-------------------------------------------------------------------------------
(* The configuration's bits. *)

(* 0xAD and 0xA7 turn both clocks off and leave the translation alone.     *)
LEMMA PortsOff ==
    ASSUME NEW b \in Byte, NEW c, c = SetBit(SetBit(b, CLOCK_OFF), SECOND_OFF)
    PROVE  /\ c \in Byte
           /\ Bit(c, CLOCK_OFF) /\ Bit(c, SECOND_OFF)
           /\ Bit(c, TRANSLATE) <=> Bit(b, TRANSLATE)
<1>1. PICK d : d = SetBit(b, CLOCK_OFF)  OBVIOUS
<1>2. d \in Byte /\ Bit(d, CLOCK_OFF) /\ (Bit(d, TRANSLATE) <=> Bit(b, TRANSLATE))
  BY <1>1 DEF SetBit, Bit, Byte, CLOCK_OFF, TRANSLATE
<1>3. c = SetBit(d, SECOND_OFF)  BY <1>1
<1> QED  BY <1>2, <1>3 DEF SetBit, Bit, Byte, CLOCK_OFF, SECOND_OFF, TRANSLATE

(* config &= ~0x10 clears bit 4 and nothing else.                          *)
LEMMA ClockOn ==
    ASSUME NEW d \in Byte
    PROVE  /\ ClearBit(d, CLOCK_OFF) \in Byte
           /\ ~Bit(ClearBit(d, CLOCK_OFF), CLOCK_OFF)
           /\ Bit(ClearBit(d, CLOCK_OFF), IRQ1) <=> Bit(d, IRQ1)
           /\ Bit(ClearBit(d, CLOCK_OFF), TRANSLATE) <=> Bit(d, TRANSLATE)
BY DEF ClearBit, Bit, Byte, IRQ1, CLOCK_OFF, TRANSLATE

(* config |= 0x01 and config &= ~0x10 turn the interrupt and the clock on  *)
(* and leave the translation alone.                                        *)
LEMMA PortOn ==
    ASSUME NEW b \in Byte, NEW c, c = ClearBit(SetBit(b, IRQ1), CLOCK_OFF)
    PROVE  /\ c \in Byte
           /\ Bit(c, IRQ1) /\ ~Bit(c, CLOCK_OFF)
           /\ Bit(c, TRANSLATE) <=> Bit(b, TRANSLATE)
<1>1. PICK d : d = SetBit(b, IRQ1)  OBVIOUS
<1>2. d \in Byte /\ Bit(d, IRQ1) /\ (Bit(d, TRANSLATE) <=> Bit(b, TRANSLATE))
  BY <1>1 DEF SetBit, Bit, Byte, IRQ1, TRANSLATE
<1>3. c = ClearBit(d, CLOCK_OFF)  BY <1>1
<1> QED  BY <1>2, <1>3, ClockOn

(* An answer to 0x20 with both ports off and translation on is no key.     *)
LEMMA AnswerNoKey ==
    ASSUME NEW b \in Byte, Bit(b, CLOCK_OFF), Bit(b, SECOND_OFF), Bit(b, TRANSLATE)
    PROVE  b \notin Character
<1>1. b >= 112  BY DEF Bit, CLOCK_OFF, SECOND_OFF, TRANSLATE, Byte
<1> QED  BY <1>1, BootAssumption DEF Character, Byte

-------------------------------------------------------------------------------
(* The types, and the configuration. *)

(* The values of pc, one by one. *)
LEMMA Places ==
    /\ Wait = {"ack", "bat", "ack2"}
    /\ Configured = {"reset", "scan", "shell", "ack", "bat", "ack2",
                     "take ack", "take bat", "take ack2"}
    /\ Got("ack") = "take ack" /\ Got("bat") = "take bat" /\ Got("ack2") = "take ack2"
    /\ After("ack") = "bat" /\ After("bat") = "scan" /\ After("ack2") = "shell"
<1>1. Got("ack") = "take ack" /\ Got("bat") = "take bat" /\ Got("ack2") = "take ack2"
  BY DEF Got
<1>2. {Got(w) : w \in Wait} = {"take ack", "take bat", "take ack2"}
  BY <1>1 DEF Wait
<1> QED  BY <1>1, <1>2 DEF Wait, Configured, After

(* The keyboard's answers are bytes, and no keys. *)
LEMMA Answers ==
    /\ <<ACK, BAT>> \in Seq(Byte) /\ <<ACK>> \in Seq(Byte)
    /\ ACK \notin Character /\ BAT \notin Character
<1>1. ACK \in Byte /\ BAT \in Byte  BY DEF ACK, BAT, Byte
<1>2. ACK \notin Character /\ BAT \notin Character  BY BootAssumption DEF ACK, BAT, Character
<1> QED  BY <1>1, <1>2

(* A key's scancode and its release are bytes. *)
LEMMA KeyBytes ==
    ASSUME NEW k \in Keys
    PROVE  k \in Byte /\ k + RELEASED \in Byte /\ k \in Character /\ k + RELEASED \notin Character
BY BootAssumption DEF Byte, RELEASED, Character

(* What the handler adds to the input is the byte, if a character key's. *)
LEMMA Typing ==
    ASSUME NEW b \in Byte
    PROVE  /\ b \in Character => Input(b) = <<b>>
           /\ b \notin Character => Input(b) = << >>
           /\ Input(b) \in Seq(Byte)
<1>1. b \in Character <=> b < RELEASED /\ b < TABLE_SIZE /\ b \notin {42, 54, 58}
  BY BootAssumption DEF Byte, Character, RELEASED
<1> QED  BY <1>1 DEF Input

(* A count that is not used up is taken down by one. *)
LEMMA Counting ==
    ASSUME NEW n \in Nat, NEW t \in 0..n, t >= 1
    PROVE  t - 1 \in 0..n /\ (t # 1 => t - 1 >= 1)
OBVIOUS

(* The first part holds when the boot loader starts. *)
LEMMA InitTranslating == Init => TypeOK /\ Translating
<1> SUFFICES ASSUME Init PROVE TypeOK /\ Translating  OBVIOUS
<1>1. /\ DISK_TRIES \in Nat /\ DISK_TRIES >= 1
      /\ config \in Byte /\ Bit(config, TRANSLATE)
  BY BootAssumption DEF Init, Byte
<1>2. {config_var, scancode, latch} \subseteq Byte  BY DEF Init, Byte
<1>3. kq \in Seq(Byte) /\ pressed \in Seq(Keys) /\ typed \in Seq(Byte)  BY DEF Init
<1>4. tries \in 0..DISK_TRIES  BY <1>1 DEF Init
<1>5. {sti, irr, inService, obf, scanning, stolen} \subseteq BOOLEAN  BY DEF Init
<1>6. TypeOK
  BY <1>1, <1>2, <1>3, <1>4, <1>5 DEF Init, TypeOK
<1>7. Translating
  BY <1>1, Places DEF Init, Translating, TranslationKept
<1> QED  BY <1>6, <1>7

(* And every step keeps it. *)
LEMMA StepTranslating ==
    ASSUME TypeOK, Translating, [Next]_vars
    PROVE  TypeOK' /\ Translating'
<1> USE Places DEF vars, kernel, cpu, device, port, user, hist
<1>1. ASSUME NEW ok \in BOOLEAN, ReadDisk(ok) PROVE TypeOK' /\ Translating'
  <2>1. DISK_TRIES \in Nat  BY BootAssumption
  <2>2. tries' \in 0..DISK_TRIES /\ (pc' = "load" => tries' >= 1)
    <3>1. tries \in 0..DISK_TRIES /\ tries >= 1  BY <1>1 DEF ReadDisk, Goto, TypeOK, Translating
    <3>2. /\ tries' = tries \/ tries' = tries - 1
          /\ pc' = "load" => tries' = tries - 1 /\ tries # 1
      BY <1>1 DEF ReadDisk, Goto
    <3>3. /\ tries \in 0..DISK_TRIES /\ tries - 1 \in 0..DISK_TRIES
          /\ tries # 1 => tries - 1 >= 1
      BY <2>1, <3>1, Counting
    <3> QED  BY <3>2, <3>3, Zenon
  <2>3. TypeOK'  BY <1>1, <2>2 DEF ReadDisk, Goto, TypeOK
  <2>4. Translating'  BY <1>1, <2>2 DEF ReadDisk, Goto, Translating, TranslationKept
  <2> QED  BY <2>3, <2>4
<1>2. CASE RemapPIC
  <2>1. TypeOK'  BY <1>2 DEF RemapPIC, Step, Goto, TypeOK, Translating
  <2>2. Translating'  BY <1>2 DEF RemapPIC, Step, Goto, TypeOK, Translating, TranslationKept
  <2> QED  BY <2>1, <2>2
<1>3. CASE Sti
  <2>1. TypeOK'  BY <1>3 DEF Sti, Step, Goto, TypeOK, Translating
  <2>2. Translating'  BY <1>3 DEF Sti, Step, Goto, TypeOK, Translating, TranslationKept
  <2> QED  BY <2>1, <2>2
<1>4. CASE DisablePorts
  <2>1. /\ config' \in Byte
        /\ Bit(config', CLOCK_OFF) /\ Bit(config', SECOND_OFF)
        /\ Bit(config', TRANSLATE) <=> Bit(config, TRANSLATE)
    BY <1>4, PortsOff DEF DisablePorts, TypeOK
  <2>2. TypeOK'  BY <1>4, <2>1 DEF DisablePorts, Step, Goto, TypeOK
  <2>3. Translating'
    BY <1>4, <2>1 DEF DisablePorts, Step, Goto, Translating, TranslationKept
  <2> QED  BY <2>2, <2>3
<1>5. CASE FlushTest
  <2>1. TypeOK'  BY <1>5 DEF FlushTest, Step, Goto, TypeOK, Translating
  <2>2. Translating'  BY <1>5 DEF FlushTest, Step, Goto, TypeOK, Translating, TranslationKept
  <2> QED  BY <2>1, <2>2
<1>6. CASE FlushRead
  <2>1. TypeOK'  BY <1>6 DEF FlushRead, Step, Goto, TakeByte, TypeOK, Translating
  <2>2. Translating'  BY <1>6 DEF FlushRead, Step, Goto, TakeByte, TypeOK, Translating, TranslationKept
  <2> QED  BY <2>1, <2>2
<1>7. CASE AskConfig
  <2>1. TypeOK'  BY <1>7 DEF AskConfig, Step, Goto, PutByte, TypeOK, Translating
  <2>2. Translating'  BY <1>7 DEF AskConfig, Step, Goto, PutByte, TypeOK, Translating, TranslationKept
  <2> QED  BY <2>1, <2>2
<1>8. CASE ReadConfig
  <2>1. /\ config_var' \in Byte
        /\ Bit(config_var', IRQ1) /\ ~Bit(config_var', CLOCK_OFF)
        /\ Bit(config_var', TRANSLATE) <=> Bit(latch, TRANSLATE)
    BY <1>8, PortOn DEF ReadConfig, TypeOK
  <2>2. TypeOK'  BY <1>8, <2>1 DEF ReadConfig, Goto, TakeByte, TypeOK
  <2>3. Translating'
    BY <1>8, <2>1 DEF ReadConfig, Goto, TakeByte, Translating, TranslationKept
  <2> QED  BY <2>2, <2>3
<1>9. CASE WriteConfig
  <2>1. TypeOK'  BY <1>9 DEF WriteConfig, Step, Goto, TypeOK, Translating
  <2>2. Translating'  BY <1>9 DEF WriteConfig, Step, Goto, TypeOK, Translating, TranslationKept
  <2> QED  BY <2>1, <2>2
<1>10. CASE ResetKeyboard
  <2>1. kq' \in Seq(Byte)  BY <1>10, Answers DEF ResetKeyboard
  <2>2. TypeOK'  BY <1>10, <2>1 DEF ResetKeyboard, Step, Goto, TypeOK
  <2>3. Translating'  BY <1>10 DEF ResetKeyboard, Step, Goto, TypeOK, Translating, TranslationKept
  <2> QED  BY <2>2, <2>3
<1>11. CASE EnableScanning
  <2>1. kq' \in Seq(Byte)  BY <1>11, Answers DEF EnableScanning
  <2>2. TypeOK'  BY <1>11, <2>1 DEF EnableScanning, Step, Goto, TypeOK
  <2>3. Translating'  BY <1>11 DEF EnableScanning, Step, Goto, TypeOK, Translating, TranslationKept
  <2> QED  BY <2>2, <2>3
<1>12. ASSUME NEW w \in Wait, Await(w) PROVE TypeOK' /\ Translating'
  <2>1. TypeOK'  BY <1>12 DEF Await, Step, Goto, TypeOK
  <2>2. Translating'  BY <1>12 DEF Await, Step, Goto, TypeOK, Translating, TranslationKept
  <2> QED  BY <2>1, <2>2
<1>13. ASSUME NEW w \in Wait, Take(w) PROVE TypeOK' /\ Translating'
  <2>1. TypeOK'  BY <1>13 DEF Take, Step, Goto, TakeByte, TypeOK
  <2>2. Translating'  BY <1>13 DEF Take, Step, Goto, TakeByte, TypeOK, Translating, TranslationKept
  <2> QED  BY <2>1, <2>2
<1>14. CASE Deliver
  <2>1. TypeOK'  BY <1>14 DEF Deliver, TypeOK
  <2>2. Translating'  BY <1>14 DEF Deliver, TypeOK, Translating, TranslationKept
  <2> QED  BY <2>1, <2>2
<1>15. CASE HandlerRead
  <2>1. TypeOK'  BY <1>15 DEF HandlerRead, TakeByte, TypeOK
  <2>2. Translating'  BY <1>15 DEF HandlerRead, TakeByte, TypeOK, Translating, TranslationKept
  <2> QED  BY <2>1, <2>2
<1>16. CASE HandlerRun
  <2>1. typed' \in Seq(Byte)  BY <1>16, Typing, ConcatProperties DEF HandlerRun, TypeOK
  <2>2. TypeOK'  BY <1>16, <2>1 DEF HandlerRun, TypeOK
  <2>3. Translating'  BY <1>16 DEF HandlerRun, TypeOK, Translating, TranslationKept
  <2> QED  BY <2>2, <2>3
<1>17. CASE SendKeyboard
  <2>1. Head(kq) \in Byte /\ kq' \in Seq(Byte)  BY <1>17, HeadTailProperties DEF SendKeyboard, TypeOK
  <2>2. TypeOK'  BY <1>17, <2>1 DEF SendKeyboard, PutByte, TypeOK
  <2>3. Translating'  BY <1>17 DEF SendKeyboard, PutByte, TypeOK, Translating, TranslationKept
  <2> QED  BY <2>2, <2>3
<1>18. ASSUME NEW k \in Keys, Press(k) PROVE TypeOK' /\ Translating'
  <2>1. kq' \in Seq(Byte) /\ pressed' \in Seq(Keys)  BY <1>18, KeyBytes, AppendProperties DEF Press, TypeOK
  <2>2. TypeOK'  BY <1>18, <2>1 DEF Press, TypeOK
  <2>3. Translating'  BY <1>18 DEF Press, TypeOK, Translating, TranslationKept
  <2> QED  BY <2>2, <2>3
<1>19. ASSUME NEW k \in Keys, Release(k) PROVE TypeOK' /\ Translating'
  <2>1. kq' \in Seq(Byte)  BY <1>19, KeyBytes, AppendProperties DEF Release, TypeOK
  <2>2. TypeOK'  BY <1>19, <2>1 DEF Release, TypeOK
  <2>3. Translating'  BY <1>19 DEF Release, TypeOK, Translating, TranslationKept
  <2> QED  BY <2>2, <2>3
<1>20. CASE UNCHANGED vars
  BY <1>20 DEF TypeOK, Translating, TranslationKept
<1> QED
  BY <1>1, <1>2, <1>3, <1>4, <1>5, <1>6, <1>7, <1>8, <1>9, <1>10,
     <1>11, <1>12, <1>13, <1>14, <1>15, <1>16, <1>17, <1>18, <1>19, <1>20 DEF Next, Kernel

-------------------------------------------------------------------------------
(* The answers. *)

(* A key that is added to those pressed is one of them, and the others     *)
(* stay.                                                                   *)
LEMMA Appending ==
    ASSUME NEW S, NEW q \in Seq(S), NEW x \in S
    PROVE  /\ ToSet(Append(q, x)) = ToSet(q) \cup {x}
           /\ Append(q, x) # << >>
BY AppendProperties DEF ToSet

(* The same for the keys pressed. *)
LEMMA Pressing ==
    ASSUME NEW q \in Seq(Keys), NEW x \in Keys
    PROVE  /\ ToSet(Append(q, x)) = ToSet(q) \cup {x}
           /\ Append(q, x) # << >>
BY Appending

(* The first and the other bytes of the answers. *)
LEMMA Sending ==
    /\ Head(<<ACK, BAT>>) = ACK /\ Tail(<<ACK, BAT>>) = <<BAT>>
    /\ Head(<<ACK>>) = ACK /\ Tail(<<ACK>>) = << >>
    /\ Head(<<BAT>>) = BAT /\ Tail(<<BAT>>) = << >>
BY DEF ACK, BAT

(* Where no key has been pressed there is none. *)
LEMMA NoneIn == ToSet(<< >>) = {}
BY DEF ToSet

(* Nothing has been asked for when the boot loader starts. *)
LEMMA InitAnswering == Init => Answering
BY DEF Init, Answering, InKeyboard

(* Each step leaves the answers where they are awaited, or passes one on.  *)
LEMMA StepAnswering ==
    ASSUME TypeOK, Translating, Answering, [Next]_vars
    PROVE  Answering'
<1> USE Places DEF vars, kernel, cpu, device, port, user, hist
<1> USE DEF Quiet, InPort, InKeyboard
<1>1. ASSUME NEW ok \in BOOLEAN, ReadDisk(ok) PROVE Answering'
  BY <1>1 DEF ReadDisk, Goto, Answering
<1>2. CASE RemapPIC
  BY <1>2 DEF RemapPIC, Step, Goto, Answering
<1>3. CASE Sti
  BY <1>3 DEF Sti, Step, Goto, Answering
<1>4. CASE DisablePorts
  BY <1>4 DEF DisablePorts, Step, Goto, Answering
<1>5. CASE FlushTest
  BY <1>5 DEF FlushTest, Step, Goto, Answering
<1>6. CASE FlushRead
  BY <1>6 DEF FlushRead, Step, Goto, TakeByte, Answering
<1>7. CASE AskConfig
  BY <1>7 DEF AskConfig, Step, Goto, PutByte, Answering
<1>8. CASE ReadConfig
  BY <1>8 DEF ReadConfig, Goto, TakeByte, Answering
<1>9. CASE WriteConfig
  BY <1>9 DEF WriteConfig, Step, Goto, Answering
<1>10. CASE ResetKeyboard
  BY <1>10 DEF ResetKeyboard, Step, Goto, Answering
<1>11. CASE EnableScanning
  BY <1>11 DEF EnableScanning, Step, Goto, Answering
<1>12. ASSUME NEW w \in Wait, Await(w) PROVE Answering'
  BY <1>12 DEF Await, Step, Goto, Answering
<1>13. ASSUME NEW w \in Wait, Take(w) PROVE Answering'
  BY <1>13 DEF Take, Step, Goto, TakeByte, Answering
<1>14. CASE Deliver
  BY <1>14 DEF Deliver, Answering
<1>15. CASE HandlerRead
  BY <1>15 DEF HandlerRead, TakeByte, Answering
<1>16. CASE HandlerRun
  BY <1>16 DEF HandlerRun, Answering
<1>17. CASE SendKeyboard
  <2>1. /\ ~obf /\ kq # << >>
        /\ obf' /\ latch' = Head(kq) /\ kq' = Tail(kq)
        /\ UNCHANGED <<pc, held, pressed, stolen>>
    BY <1>17 DEF SendKeyboard, PutByte
  <2>2. kq = <<ACK, BAT>> => latch' = ACK /\ kq' = <<BAT>>  BY <2>1, Sending, Zenon
  <2>3. kq = <<ACK>> => latch' = ACK /\ kq' = << >>  BY <2>1, Sending, Zenon
  <2>4. kq = <<BAT>> => latch' = BAT /\ kq' = << >>  BY <2>1, Sending, Zenon
  <2> QED  BY <2>1, <2>2, <2>3, <2>4 DEF Answering
<1>18. ASSUME NEW k \in Keys, Press(k) PROVE Answering'
  <2>1. pressed' # << >> /\ ToSet(pressed') = ToSet(pressed) \cup {k}
    <3>1. pressed' = Append(pressed, k) /\ pressed \in Seq(Keys)  BY <1>18 DEF Press, TypeOK
    <3>2. Append(pressed, k) # << >> /\ ToSet(Append(pressed, k)) = ToSet(pressed) \cup {k}
      BY <3>1, Pressing
    <3> QED  BY <3>1, <3>2
  <2>2. held' \subseteq ToSet(pressed')  BY <1>18, <2>1 DEF Press, Answering
  <2> QED  BY <2>1, <2>2 DEF Answering
<1>19. ASSUME NEW k \in Keys, Release(k) PROVE Answering'
  <2>1. k \in ToSet(pressed)  BY <1>19 DEF Release, Answering
  <2>2. pressed' = pressed /\ pressed # << >>  BY <1>19, <2>1, NoneIn DEF Release
  <2>3. held' \subseteq ToSet(pressed')  BY <1>19, <2>2 DEF Release, Answering
  <2> QED  BY <2>2, <2>3 DEF Answering
<1>20. CASE UNCHANGED vars
  BY <1>20 DEF Answering
<1> QED
  BY <1>1, <1>2, <1>3, <1>4, <1>5, <1>6, <1>7, <1>8, <1>9, <1>10,
     <1>11, <1>12, <1>13, <1>14, <1>15, <1>16, <1>17, <1>18, <1>19, <1>20 DEF Next, Kernel

(* What the waits read, from where the answers are. *)
LEMMA AnsweringRead == Answering => AnswersRead
BY Places DEF Answering, AnswersRead, Quiet, InPort, Wait

-------------------------------------------------------------------------------
(* The keys. *)

(* A step that only takes keys out of the places they are in keeps the     *)
(* order.                                                                  *)
LEMMA Kept ==
    ASSUME InOrder, pressed' = pressed, typed' = typed,
           Queued' \subseteq Queued, Latched' \subseteq Latched, Running' \subseteq Running,
           \A i, j \in DOMAIN kq' :
               i < j /\ kq'[i] \in Character /\ kq'[j] \in Character =>
                   \E m, n \in DOMAIN kq : m < n /\ kq[m] = kq'[i] /\ kq[n] = kq'[j]
    PROVE  InOrder'
<1>1. \A a, b : Before(a, b)' <=> Before(a, b)  BY DEF Before
<1>2. Typed' = Typed  BY DEF Typed
<1> USE <1>1, <1>2
<1>3. (\A i, j \in DOMAIN pressed : pressed[i] = pressed[j] => i = j)'  BY DEF InOrder
<1>4. (Queued \cup Latched \cup Running \cup Typed \subseteq ToSet(pressed))'  BY DEF InOrder
<1>5. Sorted(Typed, Running)' /\ Sorted(Typed, Latched)' /\ Sorted(Typed, Queued)'
  BY DEF InOrder, Sorted
<1>6. Sorted(Running, Latched)' /\ Sorted(Running, Queued)' /\ Sorted(Latched, Queued)'
  BY DEF InOrder, Sorted
<1>7. (\A i, j \in DOMAIN kq : i < j /\ kq[i] \in Character /\ kq[j] \in Character =>
         Before(kq[i], kq[j]) /\ kq[i] # kq[j])'
  BY DEF InOrder
<1>8. (\A i, j \in DOMAIN typed : i < j => Before(typed[i], typed[j]))'
  BY DEF InOrder
<1> QED  BY <1>3, <1>4, <1>5, <1>6, <1>7, <1>8 DEF InOrder

(* kernel_main's steps touch neither the handler nor the keys, but for     *)
(* those they discard: they empty the port or the keyboard.                *)
LEMMA KernelSteps ==
    ASSUME TypeOK, Translating, Kernel
    PROVE  /\ UNCHANGED <<pressed, late, typed, handler, scancode>>
           /\ pc # "shell"
           /\ kq' \in {kq, <<ACK, BAT>>, <<ACK>>}
           /\ \/ latch' = latch /\ (obf' => obf) /\ (irr' => irr)
              \/ latch' \notin Character
<1> USE Places DEF kernel, cpu, device, port, user, hist
<1>1. ASSUME NEW ok \in BOOLEAN, ReadDisk(ok)
      PROVE  UNCHANGED <<cpu, device, port, user, hist>> /\ pc # "shell"
  BY <1>1 DEF ReadDisk, Goto
<1>2. CASE RemapPIC  BY <1>2 DEF RemapPIC, Step, Goto
<1>3. CASE Sti  BY <1>3 DEF Sti, Step, Goto
<1>4. CASE DisablePorts  BY <1>4 DEF DisablePorts, Step, Goto
<1>5. CASE FlushTest  BY <1>5 DEF FlushTest, Step, Goto
<1>6. CASE FlushRead  BY <1>6 DEF FlushRead, Step, Goto, TakeByte
<1>7. CASE AskConfig
  <2>1. config \in Byte /\ config \notin Character
    BY <1>7, AnswerNoKey DEF AskConfig, Step, Goto, TypeOK, Translating
  <2>2. latch' = config  BY <1>7 DEF AskConfig, Step, Goto, PutByte, Translating
  <2> QED  BY <1>7, <2>1, <2>2 DEF AskConfig, Step, Goto
<1>8. CASE ReadConfig  BY <1>8 DEF ReadConfig, Goto, TakeByte
<1>9. CASE WriteConfig  BY <1>9 DEF WriteConfig, Step, Goto
<1>10. CASE ResetKeyboard  BY <1>10 DEF ResetKeyboard, Step, Goto
<1>11. CASE EnableScanning  BY <1>11 DEF EnableScanning, Step, Goto
<1>12. ASSUME NEW w \in Wait, Await(w) \/ Take(w)
       PROVE  /\ UNCHANGED <<cpu, device, user, hist, latch, irr>>
              /\ pc # "shell" /\ (obf' => obf)
  BY <1>12 DEF Await, Take, Step, Goto, TakeByte
<1> QED
  BY <1>1, <1>2, <1>3, <1>4, <1>5, <1>6, <1>7, <1>8, <1>9, <1>10, <1>11, <1>12 DEF Kernel

(* So they keep the order. *)
LEMMA KernelOrder ==
    ASSUME TypeOK, Translating, InOrder, Kernel
    PROVE  InOrder'
<1>1. Running' \subseteq Running  BY KernelSteps DEF Running
<1>2. Latched' \subseteq Latched  BY KernelSteps DEF Latched
<1>3. kq' # kq => \A i \in DOMAIN kq' : kq'[i] \notin Character
  BY KernelSteps, Answers
<1>4. Queued' \subseteq Queued  BY <1>3 DEF Queued, ToSet
<1>5. pressed' = pressed /\ typed' = typed  BY KernelSteps
<1> QED  BY <1>1, <1>2, <1>3, <1>4, <1>5, Kept

(* The handler's first step moves the key in the port to the handler.  It  *)
(* stays in the port as well when a second request waits.                  *)
LEMMA ReadOrder ==
    ASSUME TypeOK, InOrder, HandlerRead
    PROVE  InOrder'
<1>1. /\ UNCHANGED <<pressed, typed, kq>>
      /\ Running' = Latched /\ Latched' \subseteq Latched
      /\ Queued' = Queued /\ Typed' = Typed
  BY DEF HandlerRead, TakeByte, device, user, Running, Latched, Queued, Typed
<1>2. \A a, b : Before(a, b)' <=> Before(a, b)  BY <1>1 DEF Before
<1>3. Sorted(Latched, Latched)
  <2>1. \A a, b \in Latched : a = b  BY DEF Latched
  <2>2. \A i \in DOMAIN pressed : i \in Nat
    <3>1. pressed \in Seq(Keys)  BY DEF TypeOK
    <3> QED  BY <3>1
  <2>3. \A i, j \in DOMAIN pressed : pressed[i] = pressed[j] => i <= j  BY <2>2 DEF InOrder
  <2> QED  BY <2>1, <2>3 DEF Sorted, Before
<1>4. (Queued \cup Latched \cup Running \cup Typed \subseteq ToSet(pressed))'  BY <1>1 DEF InOrder
<1>5. Sorted(Typed, Running)' /\ Sorted(Typed, Latched)' /\ Sorted(Typed, Queued)'
  BY <1>1, <1>2 DEF InOrder, Sorted
<1>6. Sorted(Running, Latched)' /\ Sorted(Running, Queued)' /\ Sorted(Latched, Queued)'
  BY <1>1, <1>2, <1>3 DEF InOrder, Sorted
<1>7. (\A i, j \in DOMAIN pressed : pressed[i] = pressed[j] => i = j)'
  BY <1>1 DEF InOrder
<1>8. (\A i, j \in DOMAIN kq : i < j /\ kq[i] \in Character /\ kq[j] \in Character =>
         Before(kq[i], kq[j]) /\ kq[i] # kq[j])'
  BY <1>1, <1>2 DEF InOrder
<1>9. (\A i, j \in DOMAIN typed : i < j => Before(typed[i], typed[j]))'
  BY <1>1, <1>2 DEF InOrder
<1> QED  BY <1>4, <1>5, <1>6, <1>7, <1>8, <1>9 DEF InOrder

(* To concatenate one byte is to append it. *)
LEMMA OneByteMore ==
    ASSUME NEW q \in Seq(Byte), NEW b \in Byte
    PROVE  q \o <<b>> = Append(q, b)
OBVIOUS

(* What typed holds after the handler's second step. *)
LEMMA RunTypes ==
    ASSUME TypeOK, HandlerRun
    PROVE  /\ Typed' = Typed \cup Running
           /\ Running' = {} /\ Latched' = Latched /\ Queued' = Queued
           /\ UNCHANGED <<pressed, late, kq, pc>>
           /\ \A i, j \in DOMAIN typed' : i < j =>
                 /\ i \in DOMAIN typed /\ typed'[i] = typed[i]
                 /\ \/ j \in DOMAIN typed /\ typed'[j] = typed[j]
                    \/ typed'[j] \in Running
<1>1. /\ handler = "run" /\ handler' = "idle" /\ typed' = typed \o Input(scancode)
      /\ UNCHANGED <<scancode, irr, obf, latch, pressed, late, kq, pc>>
  BY DEF HandlerRun, device, port, user, kernel
<1>2. Running' = {} /\ Latched' = Latched /\ Queued' = Queued
  BY <1>1 DEF Running, Latched, Queued
<1>3. scancode \in Byte /\ typed \in Seq(Byte)  BY DEF TypeOK
<1>4. CASE scancode \in Character
  <2>1. typed' = Append(typed, scancode)
    <3>1. Input(scancode) = <<scancode>>  BY <1>3, <1>4, Typing
    <3> QED  BY <1>1, <1>3, <3>1, OneByteMore
  <2>2. Typed' = Typed \cup {scancode}  BY <1>3, <2>1, Appending DEF Typed
  <2>3. Running = {scancode}  BY <1>1, <1>4 DEF Running
  <2>4. /\ DOMAIN typed = 1..Len(typed) /\ DOMAIN typed' = 1..(Len(typed) + 1)
        /\ Len(typed) \in Nat
        /\ \A i \in 1..Len(typed) : typed'[i] = typed[i]
        /\ typed'[Len(typed) + 1] = scancode
    BY <1>3, <2>1, AppendProperties
  <2> QED  BY <1>1, <1>2, <2>2, <2>3, <2>4
<1>5. CASE scancode \notin Character
  <2>1. typed' = typed  BY <1>1, <1>3, <1>5, Typing
  <2>2. Running = {}  BY <1>5 DEF Running
  <2> QED  BY <1>1, <1>2, <2>1, <2>2 DEF Typed
<1> QED  BY <1>4, <1>5

(* The handler's second step moves the key on to the input. *)
LEMMA RunOrder ==
    ASSUME TypeOK, InOrder, HandlerRun
    PROVE  InOrder'
<1> USE RunTypes
<1>2. \A a, b : Before(a, b)' <=> Before(a, b)  BY DEF Before
<1>3. \A i \in DOMAIN typed : typed[i] \in Typed  BY DEF Typed, ToSet
<1>4. (Queued \cup Latched \cup Running \cup Typed \subseteq ToSet(pressed))'  BY DEF InOrder
<1>5. Sorted(Typed, Running)' /\ Sorted(Typed, Latched)' /\ Sorted(Typed, Queued)'
  BY <1>2 DEF InOrder, Sorted
<1>6. Sorted(Running, Latched)' /\ Sorted(Running, Queued)' /\ Sorted(Latched, Queued)'
  BY <1>2 DEF InOrder, Sorted
<1>7. /\ \A i, j \in DOMAIN pressed' : pressed'[i] = pressed'[j] => i = j
      /\ (\A i, j \in DOMAIN kq : i < j /\ kq[i] \in Character /\ kq[j] \in Character =>
            Before(kq[i], kq[j]) /\ kq[i] # kq[j])'
  BY <1>2 DEF InOrder
<1>8. (\A i, j \in DOMAIN typed : i < j => Before(typed[i], typed[j]))'
  BY <1>2, <1>3 DEF InOrder, Sorted
<1> QED  BY <1>4, <1>5, <1>6, <1>7, <1>8 DEF InOrder

(* The first byte the keyboard holds, and the others. *)
LEMMA Sent ==
    ASSUME NEW q \in Seq(Byte), q # << >>
    PROVE  /\ ToSet(Tail(q)) \subseteq ToSet(q) /\ Head(q) \in ToSet(q)
           /\ \A i \in DOMAIN Tail(q) :
                 /\ i \in Nat /\ i + 1 \in DOMAIN q /\ Tail(q)[i] = q[i + 1]
                 /\ 1 \in DOMAIN q /\ Head(q) = q[1] /\ 1 < i + 1
<1>1. /\ Len(q) \in Nat /\ Len(q) >= 1 /\ DOMAIN q = 1..Len(q)
      /\ Head(q) = q[1]
      /\ Tail(q) \in Seq(Byte) /\ Len(Tail(q)) = Len(q) - 1
      /\ DOMAIN Tail(q) = 1..(Len(q) - 1)
  BY EmptySeq, LenProperties, HeadTailProperties
<1>2. \A i \in 1..(Len(q) - 1) : Tail(q)[i] = q[i + 1]
  BY <1>1
<1> QED  BY <1>1, <1>2 DEF ToSet

(* The controller moves a key from the keyboard to the port. *)
LEMMA SendOrder ==
    ASSUME TypeOK, InOrder, SendKeyboard
    PROVE  InOrder'
<1>1. /\ UNCHANGED <<pressed, typed>>
      /\ kq \in Seq(Byte) /\ kq # << >> /\ kq' = Tail(kq) /\ latch' = Head(kq)
      /\ Running' = Running /\ Typed' = Typed
  BY DEF SendKeyboard, PutByte, TypeOK, cpu, user, hist, Running, Typed
<1>2. /\ Queued' \subseteq Queued /\ Latched' \subseteq Queued
      /\ \A b \in Latched' : b = Head(kq)
  BY <1>1, Sent DEF Queued, Latched
<1>3. \A a, b : Before(a, b)' <=> Before(a, b)  BY <1>1 DEF Before
<1>4. (Queued \cup Latched \cup Running \cup Typed \subseteq ToSet(pressed))'
  BY <1>1, <1>2 DEF InOrder
<1>5. Sorted(Typed, Running)' /\ Sorted(Typed, Latched)' /\ Sorted(Typed, Queued)'
  BY <1>1, <1>2, <1>3 DEF InOrder, Sorted
<1>6. Sorted(Running, Latched)' /\ Sorted(Running, Queued)'
  BY <1>1, <1>2, <1>3 DEF InOrder, Sorted
<1>7. Sorted(Latched, Queued)'
  <2>1. \A i \in DOMAIN kq' : Head(kq) \in Character /\ kq'[i] \in Character =>
          Before(Head(kq), kq'[i])
    BY <1>1, Sent DEF InOrder
  <2>2. \A b \in Queued' : b \in Character /\ \E i \in DOMAIN kq' : b = kq'[i]
    BY DEF Queued, ToSet
  <2>3. \A a \in Latched' : a = Head(kq) /\ a \in Character  BY <1>2 DEF Latched
  <2> QED  BY <1>3, <2>1, <2>2, <2>3 DEF Sorted
<1>8. (\A i, j \in DOMAIN pressed : pressed[i] = pressed[j] => i = j)'
  BY <1>1 DEF InOrder
<1>9. (\A i, j \in DOMAIN kq : i < j /\ kq[i] \in Character /\ kq[j] \in Character =>
         Before(kq[i], kq[j]) /\ kq[i] # kq[j])'
  <2>1. \A i, j \in DOMAIN kq' : i < j =>
          /\ i + 1 \in DOMAIN kq /\ j + 1 \in DOMAIN kq /\ i + 1 < j + 1
          /\ kq'[i] = kq[i + 1] /\ kq'[j] = kq[j + 1]
    BY <1>1, Sent
  <2> QED  BY <1>3, <2>1 DEF InOrder
<1>10. (\A i, j \in DOMAIN typed : i < j => Before(typed[i], typed[j]))'
  BY <1>1, <1>3 DEF InOrder
<1> QED  BY <1>4, <1>5, <1>6, <1>7, <1>8, <1>9, <1>10 DEF InOrder

(* The indices and values of a sequence with one more. *)
LEMMA Lengthened ==
    ASSUME NEW S, NEW q \in Seq(S), NEW x \in S, NEW r, r = Append(q, x)
    PROVE  \A i \in DOMAIN r :
             /\ i \in Nat
             /\ \/ i \in DOMAIN q /\ r[i] = q[i]
                \/ r[i] = x /\ \A j \in DOMAIN r : j <= i
BY AppendProperties, LenProperties

(* A key pressed comes last in the keyboard and in the order. *)
LEMMA PressOrder ==
    ASSUME TypeOK, InOrder, NEW k \in Keys, Press(k)
    PROVE  InOrder'
<1>1. /\ pressed \in Seq(Keys) /\ pressed' = Append(pressed, k) /\ k \notin ToSet(pressed)
      /\ kq \in Seq(Byte) /\ kq' = Append(kq, k)
      /\ k \in Byte /\ k \in Character
      /\ typed' = typed /\ Typed' = Typed /\ Running' = Running /\ Latched' = Latched
  BY KeyBytes DEF Press, TypeOK, cpu, port, hist, Typed, Running, Latched
<1>2. ToSet(pressed') = ToSet(pressed) \cup {k}  BY <1>1, Pressing
<1>3. Queued' = Queued \cup {k}
  <2>1. ToSet(kq') = ToSet(kq) \cup {k}  BY <1>1, Appending
  <2> QED  BY <1>1, <2>1 DEF Queued
<1>4. \A i \in DOMAIN pressed' :
        /\ i \in Nat
        /\ \/ i \in DOMAIN pressed /\ pressed'[i] = pressed[i]
           \/ pressed'[i] = k /\ \A j \in DOMAIN pressed' : j <= i
  BY <1>1, Lengthened
<1>5. \A i \in DOMAIN kq' :
        /\ i \in Nat
        /\ \/ i \in DOMAIN kq /\ kq'[i] = kq[i]
           \/ kq'[i] = k /\ \A j \in DOMAIN kq' : j <= i
  BY <1>1, Lengthened
<1>6. \A i \in DOMAIN pressed : pressed[i] \in ToSet(pressed) /\ pressed[i] # k
  BY <1>1 DEF ToSet
<1>7. \A a, b \in ToSet(pressed) : Before(a, b) => Before(a, b)'
  BY <1>1, <1>4 DEF Before
<1>8. \A a : Before(a, k)'
  BY <1>4, <1>6 DEF Before
<1>9. Queued \cup Latched \cup Running \cup Typed \subseteq ToSet(pressed)  BY DEF InOrder
<1>10. (Queued \cup Latched \cup Running \cup Typed \subseteq ToSet(pressed))'
  BY <1>1, <1>2, <1>3, <1>9
<1>11. Sorted(Typed, Running)' /\ Sorted(Typed, Latched)' /\ Sorted(Typed, Queued)'
  BY <1>1, <1>3, <1>7, <1>8, <1>9 DEF InOrder, Sorted
<1>12. Sorted(Running, Latched)' /\ Sorted(Running, Queued)' /\ Sorted(Latched, Queued)'
  BY <1>1, <1>3, <1>7, <1>8, <1>9 DEF InOrder, Sorted
<1>13. (\A i, j \in DOMAIN pressed : pressed[i] = pressed[j] => i = j)'
  BY <1>4, <1>6 DEF InOrder
<1>14. (\A i, j \in DOMAIN kq : i < j /\ kq[i] \in Character /\ kq[j] \in Character =>
         Before(kq[i], kq[j]) /\ kq[i] # kq[j])'
  <2>1. ASSUME NEW i \in DOMAIN kq', NEW j \in DOMAIN kq', i < j,
               NEW a \in Character, NEW b \in Character, a = kq'[i], b = kq'[j]
        PROVE  Before(a, b)' /\ a # b
    <3>1. i \in DOMAIN kq /\ a = kq[i]  BY <1>5, <2>1
    <3>2. a \in ToSet(pressed) /\ a # k  BY <1>1, <1>9, <3>1 DEF Queued, ToSet
    <3>3. CASE b = k  BY <1>8, <3>2, <3>3
    <3>4. CASE j \in DOMAIN kq /\ b = kq[j]
      <4>1. b \in ToSet(pressed)  BY <1>9, <3>4 DEF Queued, ToSet
      <4>2. Before(a, b) /\ a # b  BY <2>1, <3>1, <3>4 DEF InOrder
      <4> QED  BY <1>7, <3>2, <4>1, <4>2
    <3> QED  BY <1>5, <2>1, <3>3, <3>4
  <2> QED  BY <2>1
<1>15. (\A i, j \in DOMAIN typed : i < j => Before(typed[i], typed[j]))'
  <2>1. \A i \in DOMAIN typed : typed[i] \in ToSet(pressed)  BY <1>9 DEF Typed, ToSet
  <2> QED  BY <1>1, <1>7, <2>1 DEF InOrder
<1> QED  BY <1>10, <1>11, <1>12, <1>13, <1>14, <1>15 DEF InOrder

(* A release is no key. *)
LEMMA ReleaseOrder ==
    ASSUME TypeOK, InOrder, NEW k \in Keys, Release(k)
    PROVE  InOrder'
<1>1. /\ kq \in Seq(Byte) /\ kq' = Append(kq, k + RELEASED)
      /\ k + RELEASED \in Byte /\ k + RELEASED \notin Character
      /\ pressed' = pressed /\ typed' = typed /\ Running' = Running /\ Latched' = Latched
  BY KeyBytes DEF Release, TypeOK, cpu, port, hist, Running, Latched
<1>2. \A i \in DOMAIN kq' : kq'[i] \in Character => i \in DOMAIN kq /\ kq'[i] = kq[i]
  BY <1>1, Lengthened
<1>3. Queued' \subseteq Queued  BY <1>2 DEF Queued, ToSet
<1> QED  BY <1>1, <1>2, <1>3, Kept

(* The order holds when the boot loader starts. *)
LEMMA InitOrder == Init => InOrder
BY DEF Init, InOrder, Queued, Latched, Running, Typed, ToSet, Sorted

(* Every step keeps it. *)
LEMMA StepOrder ==
    ASSUME TypeOK, Translating, InOrder, [Next]_vars
    PROVE  InOrder'
<1>1. CASE Deliver
  <2>1. UNCHANGED <<pressed, typed, kq>> /\ Running' \subseteq Running /\ Latched' \subseteq Latched
    BY <1>1 DEF Deliver, device, user, hist, Running, Latched
  <2> QED  BY <2>1, Kept DEF Queued
<1>2. CASE UNCHANGED vars
  <2>1. /\ UNCHANGED <<pressed, typed, kq>>
        /\ Running' \subseteq Running /\ Latched' \subseteq Latched
    BY <1>2 DEF vars, cpu, device, port, user, hist, Running, Latched
  <2> QED  BY <2>1, Kept DEF Queued
<1> QED
  BY <1>1, <1>2, KernelOrder, ReadOrder, RunOrder, SendOrder, PressOrder, ReleaseOrder DEF Next

-------------------------------------------------------------------------------
(* The keys pressed after start-up. *)

(* Before the prompt, or while a request is left over, there is nothing to *)
(* show.                                                                   *)
LEMMA NoLate == ASSUME late' = {} PROVE NoRepeat'
BY DEF NoRepeat, Once

(* A step that adds no key pressed after start-up, and takes keys only out *)
(* of the places they are in, keeps each in one place.                     *)
LEMMA OnceKept ==
    ASSUME NoRepeat, late' = late, pressed' = pressed, typed' = typed, pc' = pc,
           late # {} => ~StaleRequest',
           Queued' \subseteq Queued, Latched' \subseteq Latched, Running' \subseteq Running
    PROVE  NoRepeat'
<1>1. Typed' = Typed  BY DEF Typed
<1>2. (late # {} => pc = "shell" /\ ~StaleRequest)'  BY DEF NoRepeat
<1>3. (late \subseteq ToSet(pressed))'  BY DEF NoRepeat
<1>4. Once(Typed, Running)' /\ Once(Typed, Latched)' /\ Once(Typed, Queued)'
  BY <1>1 DEF NoRepeat, Once
<1>5. Once(Running, Latched)' /\ Once(Running, Queued)' /\ Once(Latched, Queued)'
  BY DEF NoRepeat, Once
<1>6. (\A i, j \in DOMAIN typed : i < j /\ typed[i] \in late => typed[i] # typed[j])'
  BY DEF NoRepeat
<1> QED  BY <1>2, <1>3, <1>4, <1>5, <1>6 DEF NoRepeat

(* The handler takes the byte of its request, and the port is empty then.  *)
LEMMA ReadOnce ==
    ASSUME TypeOK, NoRepeat, late # {}, HandlerRead
    PROVE  NoRepeat'
<1>1. /\ UNCHANGED <<pressed, late, typed, kq, pc>>
      /\ Running' = Latched /\ Queued' = Queued /\ Typed' = Typed
  BY DEF HandlerRead, TakeByte, device, user, kernel, Running, Latched, Queued, Typed
<1>2. ~obf' /\ ~irr' /\ handler' = "run"
  BY DEF NoRepeat, StaleRequest, HandlerRead, TakeByte
<1>3. Latched' = {} /\ ~StaleRequest'  BY <1>2 DEF Latched, StaleRequest
<1>4. (late # {} => pc = "shell" /\ ~StaleRequest)' /\ (late \subseteq ToSet(pressed))'
  BY <1>1, <1>3 DEF NoRepeat
<1>5. Once(Typed, Running)' /\ Once(Typed, Latched)' /\ Once(Typed, Queued)'
  BY <1>1, <1>3 DEF NoRepeat, Once
<1>6. Once(Running, Latched)' /\ Once(Running, Queued)' /\ Once(Latched, Queued)'
  BY <1>1, <1>3 DEF NoRepeat, Once
<1>7. (\A i, j \in DOMAIN typed : i < j /\ typed[i] \in late => typed[i] # typed[j])'
  BY <1>1 DEF NoRepeat
<1> QED  BY <1>4, <1>5, <1>6, <1>7 DEF NoRepeat

(* The key it types is nowhere else. *)
LEMMA RunOnce ==
    ASSUME TypeOK, NoRepeat, late # {}, HandlerRun
    PROVE  NoRepeat'
<1> USE RunTypes
<1>1. ~StaleRequest'
  BY DEF NoRepeat, StaleRequest, HandlerRun, port
<1>2. (late # {} => pc = "shell" /\ ~StaleRequest)' /\ (late \subseteq ToSet(pressed))'
  BY <1>1 DEF NoRepeat
<1>3. Once(Typed, Running)' /\ Once(Typed, Latched)' /\ Once(Typed, Queued)'
  BY DEF NoRepeat, Once
<1>4. Once(Running, Latched)' /\ Once(Running, Queued)' /\ Once(Latched, Queued)'
  BY DEF NoRepeat, Once
<1>5. \A i \in DOMAIN typed : typed[i] \in Typed  BY DEF Typed, ToSet
<1>6. (\A i, j \in DOMAIN typed : i < j /\ typed[i] \in late => typed[i] # typed[j])'
  BY <1>5 DEF NoRepeat, Once
<1> QED  BY <1>2, <1>3, <1>4, <1>6 DEF NoRepeat

(* With the interrupt on, a byte comes with its request. *)
LEMMA SendOnce ==
    ASSUME TypeOK, Translating, InOrder, NoRepeat, late # {}, SendKeyboard
    PROVE  NoRepeat'
<1>1. /\ UNCHANGED <<pressed, late, typed, pc, handler>>
      /\ kq \in Seq(Byte) /\ kq # << >> /\ kq' = Tail(kq) /\ latch' = Head(kq)
      /\ Running' = Running /\ Typed' = Typed /\ ~obf
  BY DEF SendKeyboard, PutByte, TypeOK, cpu, user, hist, kernel, Running, Typed
<1>2. /\ Queued' \subseteq Queued /\ Latched' \subseteq Queued
      /\ \A b \in Latched' : b = Head(kq) /\ b \in Character
  BY <1>1, Sent DEF Queued, Latched
<1>3. ~StaleRequest'
  <2>1. pc = "shell" /\ ~StaleRequest  BY DEF NoRepeat
  <2>2. Bit(config, IRQ1)  BY <2>1, Places DEF Translating, TranslationKept
  <2>3. irr' /\ obf' /\ handler # "read"
    BY <1>1, <2>1, <2>2 DEF SendKeyboard, PutByte, StaleRequest
  <2> QED  BY <1>1, <2>3 DEF StaleRequest
<1>4. (late # {} => pc = "shell" /\ ~StaleRequest)' /\ (late \subseteq ToSet(pressed))'
  BY <1>1, <1>3 DEF NoRepeat
<1>5. Once(Typed, Running)' /\ Once(Typed, Latched)' /\ Once(Typed, Queued)'
  BY <1>1, <1>2 DEF NoRepeat, Once
<1>6. Once(Running, Latched)' /\ Once(Running, Queued)'
  BY <1>1, <1>2 DEF NoRepeat, Once
<1>7. Once(Latched, Queued)'
  <2>1. \A b \in Queued' : b \in Character /\ \E i \in DOMAIN kq' : b = kq'[i]
    BY DEF Queued, ToSet
  <2>2. \A i \in DOMAIN kq' : Head(kq) \in Character /\ kq'[i] \in Character => Head(kq) # kq'[i]
    BY <1>1, Sent DEF InOrder
  <2> QED  BY <1>2, <2>1, <2>2 DEF Once
<1>8. (\A i, j \in DOMAIN typed : i < j /\ typed[i] \in late => typed[i] # typed[j])'
  BY <1>1 DEF NoRepeat
<1> QED  BY <1>4, <1>5, <1>6, <1>7, <1>8 DEF NoRepeat

(* A key pressed for the first time is nowhere yet. *)
LEMMA PressOnce ==
    ASSUME TypeOK, InOrder, NoRepeat, NEW k \in Keys, Press(k)
    PROVE  NoRepeat'
<1>1. /\ pressed \in Seq(Keys) /\ pressed' = Append(pressed, k) /\ k \notin ToSet(pressed)
      /\ kq \in Seq(Byte) /\ kq' = Append(kq, k)
      /\ k \in Byte /\ k \in Character
      /\ typed' = typed /\ Typed' = Typed /\ Running' = Running /\ Latched' = Latched
      /\ StaleRequest' <=> StaleRequest
      /\ pc' = pc
      /\ late' = late \/ (late' = late \cup {k} /\ pc = "shell" /\ ~StaleRequest)
  BY KeyBytes DEF Press, TypeOK, cpu, port, hist, kernel, Typed, Running, Latched, StaleRequest
<1>2. ToSet(pressed') = ToSet(pressed) \cup {k}  BY <1>1, Pressing
<1>3. Queued' = Queued \cup {k}
  <2>1. ToSet(kq') = ToSet(kq) \cup {k}  BY <1>1, Appending
  <2> QED  BY <1>1, <2>1 DEF Queued
<1>4. Queued \cup Latched \cup Running \cup Typed \subseteq ToSet(pressed)  BY DEF InOrder
<1>5. (late # {} => pc = "shell" /\ ~StaleRequest)'
  BY <1>1 DEF NoRepeat
<1>6. (late \subseteq ToSet(pressed))'
  BY <1>1, <1>2 DEF NoRepeat
<1>7. k \notin Queued /\ k \notin Latched /\ k \notin Running /\ k \notin Typed /\ k \notin late
  BY <1>1, <1>4 DEF NoRepeat
<1>8. Once(Typed, Running)' /\ Once(Typed, Latched)' /\ Once(Typed, Queued)'
  BY <1>1, <1>3, <1>7 DEF NoRepeat, Once
<1>9. Once(Running, Latched)' /\ Once(Running, Queued)' /\ Once(Latched, Queued)'
  BY <1>1, <1>3, <1>7 DEF NoRepeat, Once
<1>10. \A i \in DOMAIN typed : typed[i] \in Typed  BY DEF Typed, ToSet
<1>11. (\A i, j \in DOMAIN typed : i < j /\ typed[i] \in late => typed[i] # typed[j])'
  BY <1>1, <1>7, <1>10 DEF NoRepeat
<1> QED  BY <1>5, <1>6, <1>8, <1>9, <1>11 DEF NoRepeat

(* Every step keeps each key pressed after start-up in one place. *)
LEMMA StepOnce ==
    ASSUME TypeOK, Translating, InOrder, NoRepeat, [Next]_vars
    PROVE  NoRepeat'
<1>1. CASE Kernel  BY <1>1, KernelSteps, NoLate DEF NoRepeat
<1>2. CASE Deliver
  <2>1. /\ UNCHANGED <<pressed, late, typed, kq, pc>>
        /\ Running' \subseteq Running /\ Latched' \subseteq Latched
    BY <1>2 DEF Deliver, device, user, hist, kernel, Running, Latched
  <2>2. late # {} => ~StaleRequest'  BY <1>2 DEF Deliver, NoRepeat, StaleRequest
  <2> QED  BY <2>1, <2>2, OnceKept DEF Queued
<1>3. CASE HandlerRead
  BY <1>3, ReadOnce, NoLate DEF HandlerRead, user
<1>4. CASE HandlerRun
  BY <1>4, RunOnce, NoLate DEF HandlerRun, user
<1>5. CASE SendKeyboard
  BY <1>5, SendOnce, NoLate DEF SendKeyboard, user
<1>6. ASSUME NEW k \in Keys, Release(k) PROVE NoRepeat'
  <2>1. /\ kq \in Seq(Byte) /\ kq' = Append(kq, k + RELEASED)
        /\ k + RELEASED \in Byte /\ k + RELEASED \notin Character
        /\ UNCHANGED <<pressed, late, typed, pc>>
        /\ Running' = Running /\ Latched' = Latched
        /\ StaleRequest' <=> StaleRequest
    BY <1>6, KeyBytes DEF Release, TypeOK, cpu, port, hist, kernel, Running, Latched, StaleRequest
  <2>2. \A i \in DOMAIN kq' : kq'[i] \in Character => i \in DOMAIN kq /\ kq'[i] = kq[i]
    BY <2>1, Lengthened
  <2>3. Queued' \subseteq Queued  BY <2>2 DEF Queued, ToSet
  <2> QED  BY <2>1, <2>3, OnceKept DEF NoRepeat
<1>7. CASE UNCHANGED vars
  <2>1. /\ UNCHANGED <<pressed, late, typed, kq, pc>>
        /\ Running' \subseteq Running /\ Latched' \subseteq Latched
        /\ StaleRequest' <=> StaleRequest
    BY <1>7 DEF vars, cpu, device, port, user, hist, kernel, Running, Latched, StaleRequest
  <2> QED  BY <2>1, OnceKept DEF Queued, NoRepeat
<1> QED
  BY <1>1, <1>2, <1>3, <1>4, <1>5, <1>6, <1>7, PressOnce DEF Next

(* What is typed, from where the keys are. *)
LEMMA OrderNoGhost ==
    ASSUME TypeOK, InOrder, NoRepeat
    PROVE  NoGhostKey
<1>1. ToSet(typed) \subseteq ToSet(pressed)  BY DEF InOrder, Typed
<1>2. \A k \in ToSet(pressed) : Place(k) \in DOMAIN pressed /\ pressed[Place(k)] = k
  BY DEF ToSet, Place
<1>3. \A i \in DOMAIN typed : typed[i] \in ToSet(pressed)  BY <1>1 DEF ToSet
<1>4. \A i \in DOMAIN typed : i \in Nat
  <2>1. typed \in Seq(Byte)  BY DEF TypeOK
  <2> QED  BY <2>1
<1>5. ASSUME NEW i \in DOMAIN typed, NEW j \in DOMAIN typed, i < j
      PROVE  Place(typed[i]) <= Place(typed[j])
  <2>1. Before(typed[i], typed[j])  BY <1>5 DEF InOrder
  <2> QED  BY <1>2, <1>3, <2>1 DEF Before
<1>6. ASSUME NEW i \in DOMAIN typed, NEW j \in DOMAIN typed, i # j, typed[i] \in late
      PROVE  typed[i] # typed[j]
  <2>1. i < j \/ j < i  BY <1>4, <1>6
  <2> QED  BY <1>6, <2>1 DEF NoRepeat
<1> QED  BY <1>1, <1>5, <1>6 DEF NoGhostKey

-------------------------------------------------------------------------------
(* The theorems. *)

(* The invariant holds when the boot loader starts. *)
LEMMA InitInv == Init => Inv
<1>1. Init => NoRepeat
  BY DEF Init, NoRepeat, Once, StaleRequest
<1> QED  BY <1>1, InitTranslating, InitAnswering, InitOrder DEF Inv

(* Every step of kernel_main, the handler, the controller, the keyboard or *)
(* the user keeps it.                                                      *)
LEMMA StepInv == Inv /\ [Next]_vars => Inv'
BY StepTranslating, StepAnswering, StepOrder, StepOnce DEF Inv

(* So it always holds. *)
LEMMA AlwaysInv == Spec => []Inv
BY InitInv, StepInv, PTL DEF Spec

(* The variables have their types throughout start-up: no port access and  *)
(* no arithmetic on the configuration leaves the bytes, and the boot       *)
(* loader's count of tries stays in its range.                             *)
THEOREM TypeCorrect == Spec => []TypeOK
<1>1. Inv => TypeOK  BY DEF Inv
<1> QED  BY <1>1, AlwaysInv, PTL

(* keyboard_init writes back the configuration it asked for, with the      *)
(* interrupt and the clock on, whatever the BIOS left behind and however   *)
(* the handler interleaves with its reads of the port.                     *)
THEOREM ConfigurationKept == Spec => []TranslationKept
<1>1. Inv => TranslationKept  BY DEF Inv, Translating
<1> QED  BY <1>1, AlwaysInv, PTL

(* With no key pressed and no answer read by the handler, each of          *)
(* keyboard_init's three waits ends with the answer it is for.             *)
THEOREM AnswersInOrder == Spec => []AnswersRead
<1>1. Inv => AnswersRead  BY AnsweringRead DEF Inv
<1> QED  BY <1>1, AlwaysInv, PTL

(* What keyboard_handler takes for input are keys that were pressed, in    *)
(* that order, and once each if they were pressed after start-up.          *)
THEOREM KeysAsPressed == Spec => []NoGhostKey
<1>1. Inv => NoGhostKey  BY OrderNoGhost DEF Inv
<1> QED  BY <1>1, AlwaysInv, PTL
===============================================================================
