----------------------------- MODULE Transport ------------------------------
(***************************************************************************)
(* One USB port for frames and for typed text: the receive task parses the *)
(* bytes (src/mdl/transport/protocol.c) and assembles lines (console.c),   *)
(* the supervisor takes what is complete and answers, and three tasks      *)
(* share the transmit lock (usb_cdc.c): the receive task, which echoes,    *)
(* the supervisor, and a module's task, which logs.                        *)
(*                                                                         *)
(* A byte of a frame is the frame and a position in it; the checksum of a  *)
(* frame matches exactly the bytes of a frame that was sent.  The PC may   *)
(* break off in the middle of a frame, and may stop waiting for an answer. *)
(***************************************************************************)
EXTENDS Integers, Sequences

CONSTANTS
  Frames, PayloadLen,   \* the frames the PC sends, and their payload lengths
  MagicLen,             \* 4 in the code
  MaxPayload,           \* MDL_PROTO_MAX_PAYLOAD
  LineMax,              \* MDL_CONSOLE_LINE_MAX
  Typed,                \* the characters typed: "M" begins the magic
  MaxFrames, MaxKeys,   \* bounds on the frames begun and on the keys typed
  NoFrame

ASSUME TransportAssumption ==
  /\ NoFrame \notin Frames
  /\ MaxPayload \in Nat /\ PayloadLen \in [Frames -> 0 .. MaxPayload]
  /\ MagicLen \in Nat \ {0} /\ LineMax \in Nat \ {0}

VARIABLES
  parser,   \* s_state, the bytes captured since the magic, the length expected
  buf,      \* s_payload
  ready,    \* the frame of s_ready_cmd while s_frame_ready is set
  line,     \* s_line_pos, s_last_was_cr, s_line_ready and what s_ready_line holds
  usb,      \* the receive task: what it still has for the console, and its write
  sup,      \* the supervisor
  mod,      \* the module's task and its write
  lock,     \* who holds s_tx_lock; "dead" is a task that was deleted
  pc,       \* what the PC is sending, and what it has begun and typed
  early,    \* of its last frame or line, which the PC did not wait for
  answer    \* the response on its way out

parts == <<parser, buf, ready, line, usb, sup, mod, lock, pc, early, answer>>

Hunting == [st |-> "magic", pos |-> 0, got |-> <<>>, len |-> 0]
Byte(f, k) == [frame |-> f, pos |-> k, text |-> "x"]
Key(c)     == [frame |-> NoFrame, pos |-> 0, text |-> c]
Size(f)    == MagicLen + 3 + PayloadLen[f]     \* magic, cmd, len, payload, crc

Init ==
  /\ parser = Hunting
  /\ buf = [i \in 1 .. MaxPayload |-> Key("old")]
  /\ ready = NoFrame
  /\ line = [pos |-> 0, cr |-> FALSE, ready |-> FALSE, holds |-> 0, made |-> 0]
  /\ usb = [at |-> "reads", todo |-> <<>>]
  /\ sup = [at |-> "idle", item |-> NoFrame, piece |-> 0]
  /\ mod = "runs"
  /\ lock = "free"
  /\ pc = [frame |-> NoFrame, pos |-> 0, found |-> FALSE, begun |-> 0, keys |-> 0]
  /\ early = {}
  /\ answer = "none"

-----------------------------------------------------------------------------
(* mdl_proto_rx_byte(): what the parser does with one byte b. *)

IsMagic(b, k) == \/ b.frame \in Frames /\ b.pos = k
                 \/ b.text = "M" /\ k = 1

Gives(bytes) == usb' = [at |-> "console", todo |-> bytes]
KeepsBuf     == UNCHANGED <<buf, ready>>

Hunts_Swallows(b) ==
  /\ parser.st = "magic"
  /\ IF IsMagic(b, parser.pos + 1)
     THEN /\ parser' = IF parser.pos + 1 < MagicLen
                       THEN [parser EXCEPT !.pos = @ + 1, !.got = Append(@, b.text)]
                       ELSE [Hunting EXCEPT !.st = "cmd"]
          /\ UNCHANGED usb
     ELSE parser' = Hunting /\ Gives(Append(parser.got, b.text))
  /\ KeepsBuf

\* The byte that breaks a prefix may begin another.
Hunts(b) ==
  /\ parser.st = "magic"
  /\ IF IsMagic(b, parser.pos + 1)
     THEN /\ parser' = IF parser.pos + 1 < MagicLen
                       THEN [parser EXCEPT !.pos = @ + 1, !.got = Append(@, b.text)]
                       ELSE [Hunting EXCEPT !.st = "cmd"]
          /\ UNCHANGED usb
     ELSE IF IsMagic(b, 1)
     THEN parser' = [Hunting EXCEPT !.pos = 1, !.got = <<b.text>>] /\ Gives(parser.got)
     ELSE parser' = Hunting /\ Gives(Append(parser.got, b.text))
  /\ KeepsBuf

Command(b) ==
  /\ parser.st = "cmd"
  /\ parser' = [parser EXCEPT !.st = "len", !.got = <<b>>]
  /\ KeepsBuf /\ UNCHANGED usb

\* A length that is not one is any length; too long a one starts over.
Length(b) ==
  /\ parser.st = "len"
  /\ \E n \in 0 .. MaxPayload + 1 :
       /\ \A f \in Frames : b = Byte(f, MagicLen + 2) => n = PayloadLen[f]
       /\ parser' = IF n > MaxPayload THEN Hunting
                    ELSE [parser EXCEPT !.st = IF n > 0 THEN "payload" ELSE "crc",
                                        !.got = Append(@, b), !.len = n]
  /\ KeepsBuf /\ UNCHANGED usb

Payload(b) ==
  /\ parser.st = "payload"
  /\ LET i == Len(parser.got) - 1      \* the bytes captured, less cmd and len, and one
     IN  /\ buf' = [buf EXCEPT ![i] = b]
         /\ parser' = [parser EXCEPT !.got = Append(@, b),
                                     !.st = IF i = parser.len THEN "crc" ELSE "payload"]
  /\ UNCHANGED <<ready, usb>>

ChecksumMatches_Always(b) == b.frame \in Frames

\* The bytes captured and the checksum are those of one frame.
ChecksumMatches(b) ==
  \E f \in Frames :
    Append(parser.got, b) = [k \in 1 .. PayloadLen[f] + 3 |-> Byte(f, MagicLen + k)]

\* A frame replaces one that nobody has taken; a bad one is dropped silently.
Checksum(b) ==
  /\ parser.st = "crc"
  /\ ready' = IF ChecksumMatches(b) THEN parser.got[1].frame ELSE ready
  /\ parser' = Hunting
  /\ UNCHANGED <<buf, usb>>

RxByte(b) ==
  /\ usb.at = "reads"
  /\ Hunts(b) \/ Command(b) \/ Length(b) \/ Payload(b) \/ Checksum(b)
  /\ UNCHANGED <<line, sup, mod, lock, answer>>

-----------------------------------------------------------------------------
(* The PC. *)

\* The device still has a frame to take, or is working on one.
Working == ready # NoFrame \/ sup.at \in {"frame", "reply"}

SendsByte ==
  /\ pc.frame # NoFrame
  /\ RxByte(Byte(pc.frame, pc.pos))
  /\ pc' = IF pc.pos < Size(pc.frame) THEN [pc EXCEPT !.pos = @ + 1]
           ELSE [pc EXCEPT !.frame = NoFrame, !.pos = 0]
  /\ early' = early \cup (IF Working THEN {"frame"} ELSE {})

\* found: the parser is looking for a magic, whatever came before.
BeginsFrame(f) ==
  /\ pc.frame = NoFrame
  /\ usb.at = "reads"
  /\ pc.begun < MaxFrames
  /\ pc' = [pc EXCEPT !.frame = f, !.pos = 1, !.found = parser.st = "magic", !.begun = @ + 1]
  /\ UNCHANGED <<parser, buf, ready, line, usb, sup, mod, lock, early, answer>>

BreaksOff ==
  /\ pc.frame # NoFrame
  /\ pc' = [pc EXCEPT !.frame = NoFrame, !.pos = 0, !.found = FALSE]
  /\ UNCHANGED <<parser, buf, ready, line, usb, sup, mod, lock, early, answer>>

Types(c) ==
  /\ pc.frame = NoFrame
  /\ pc.keys < MaxKeys
  /\ pc' = [pc EXCEPT !.keys = @ + 1]
  /\ RxByte(Key(c))
  /\ early' = early \cup (IF Working /\ parser.st # "magic" THEN {"frame"} ELSE {})
                    \cup (IF line.ready \/ sup.at = "line" THEN {"line"} ELSE {})

-----------------------------------------------------------------------------
(* mdl_console_rx_byte(): the next byte that the parser let through. *)

Next_Byte   == Head(usb.todo)
Eaten(at)   == usb' = [at |-> at, todo |-> Tail(usb.todo)]
AtConsole   == usb.at = "console" /\ usb.todo # <<>>
KeepsOthers == UNCHANGED <<parser, buf, ready, sup, mod, lock, pc, early, answer>>

\* The LF of a CRLF.
Line_Ignores ==
  /\ AtConsole
  /\ Next_Byte = "LF" /\ line.cr
  /\ line' = [line EXCEPT !.cr = FALSE]
  /\ Eaten("console")
  /\ KeepsOthers

\* The line is handed over, or dropped while one waits to be taken.
HandsOver ==
  IF line.ready THEN [line EXCEPT !.pos = 0]
  ELSE [line EXCEPT !.pos = 0, !.ready = TRUE, !.holds = line.made + 1, !.made = @ + 1]

Line_Ends ==
  /\ AtConsole
  /\ Next_Byte = "CR" \/ (Next_Byte = "LF" /\ ~ line.cr)
  /\ line' = [(IF line.pos = 0 THEN line ELSE HandsOver) EXCEPT !.cr = Next_Byte = "CR"]
  /\ Eaten("wants")
  /\ KeepsOthers

\* A backspace is echoed when there is something to erase.
Line_Shrinks ==
  /\ AtConsole
  /\ Next_Byte = "BS"
  /\ line' = [line EXCEPT !.pos = IF @ > 0 THEN @ - 1 ELSE 0, !.cr = FALSE]
  /\ Eaten(IF line.pos > 0 THEN "wants" ELSE "console")
  /\ KeepsOthers

Line_Grows ==
  /\ AtConsole
  /\ Next_Byte \notin {"CR", "LF", "BS"}
  /\ IF line.pos < LineMax
     THEN line' = [line EXCEPT !.pos = @ + 1, !.cr = FALSE] /\ Eaten("wants")
     ELSE line' = [line EXCEPT !.cr = FALSE] /\ Eaten("console")
  /\ KeepsOthers

Console_Done ==
  /\ usb.at = "console" /\ usb.todo = <<>>
  /\ usb' = [usb EXCEPT !.at = "reads"]
  /\ UNCHANGED line
  /\ KeepsOthers

-----------------------------------------------------------------------------
(* mdl_transport_write(): take the lock, send or give up, give the lock. *)

CanTake_Anyone(higher) == lock = "free"

\* A writer waits without limit.  While a task of a higher priority is ready
\* to take the lock, no other task runs.
CanTake(higher) == lock = "free" /\ "wants" \notin higher

Releases_IfSent(sent) == lock' = IF sent THEN "free" ELSE lock

\* Accepted, or given up after 50000 tries: the lock is given either way.
Releases(sent) == lock' = "free"

\* What reaches the wire between two pieces of a response splices it.
Splices(who) == answer' = IF answer = "going" /\ who # "sup" THEN who ELSE answer

UsbTakes ==
  /\ usb.at = "wants" /\ CanTake({})
  /\ usb' = [usb EXCEPT !.at = "sends"]
  /\ lock' = "usb"
  /\ UNCHANGED <<parser, buf, ready, line, sup, mod, pc, early, answer>>

UsbSends ==
  /\ usb.at = "sends"
  /\ usb' = [usb EXCEPT !.at = "console"]
  /\ \E sent \in BOOLEAN : Releases(sent)
  /\ Splices("usb")
  /\ UNCHANGED <<parser, buf, ready, line, sup, mod, pc, early>>

\* The module's task has the lowest priority: it runs while the supervisor
\* waits for work or for the lock.
ModuleRuns == sup.at \in {"idle", "wants"}

\* A module's task is deleted, wherever it is, and the next one starts anew.
DeletesTask == mod' = "runs" /\ lock' = IF lock = "mod" THEN "dead" ELSE lock

ModuleLogs ==
  /\ mod = "runs" /\ ModuleRuns
  /\ mod' = "wants"
  /\ UNCHANGED <<parser, buf, ready, line, usb, sup, lock, pc, early, answer>>

ModuleTakes ==
  /\ mod = "wants" /\ ModuleRuns /\ CanTake({usb.at, sup.at})
  /\ mod' = "sends"
  /\ lock' = "mod"
  /\ UNCHANGED <<parser, buf, ready, line, usb, sup, pc, early, answer>>

ModuleSends ==
  /\ mod = "sends" /\ ModuleRuns
  /\ mod' = "runs"
  /\ \E sent \in BOOLEAN : Releases(sent)
  /\ Splices("mod")
  /\ UNCHANGED <<parser, buf, ready, line, usb, sup, pc, early>>

-----------------------------------------------------------------------------
(* The supervisor's loop. *)

\* mdl_proto_take_frame(), in one step: a sender that waits for its answer has
\* no second frame complete between the test of the flag and its clearing.
TakesFrame ==
  /\ sup.at = "idle" /\ ready # NoFrame
  /\ sup' = [at |-> "frame", item |-> ready, piece |-> 0]
  /\ ready' = NoFrame
  /\ UNCHANGED <<parser, buf, line, usb, mod, lock, pc, early, answer>>

\* A handler may delete a module's task: to replace it, to unload it.
Handles ==
  /\ sup.at = "frame"
  /\ UNCHANGED <<mod, lock>> \/ DeletesTask
  /\ sup' = [sup EXCEPT !.at = "wants", !.piece = 1]
  /\ answer' = "none"
  /\ UNCHANGED <<parser, buf, ready, line, usb, pc, early>>

SupervisorTakes ==
  /\ sup.at = "wants" /\ CanTake({usb.at})
  /\ sup' = [sup EXCEPT !.at = "reply"]
  /\ lock' = "sup"
  /\ UNCHANGED <<parser, buf, ready, line, usb, mod, pc, early, answer>>

\* mdl_proto_send_response() writes header, payload and checksum in turn; a
\* write that is not accepted in 50000 tries is given up.
SupervisorSends ==
  /\ sup.at = "reply"
  /\ \E sent \in BOOLEAN :
       /\ Releases(sent)
       /\ answer' = IF sup.item = NoFrame THEN answer
                    ELSE IF ~ sent THEN "lost"
                    ELSE IF sup.piece = 1 THEN "going"
                    ELSE IF sup.piece = 3 /\ answer = "going" THEN "whole" ELSE answer
  /\ IF sup.item # NoFrame /\ sup.piece < 3
     THEN (\E piece \in sup.piece + 1 .. 3 : sup' = [sup EXCEPT !.at = "wants", !.piece = piece])
          /\ UNCHANGED early
     ELSE sup' = [at |-> "idle", item |-> NoFrame, piece |-> 0]
          /\ early' = IF ready = NoFrame THEN early \ {"frame"} ELSE early
  /\ UNCHANGED <<parser, buf, ready, line, usb, mod, pc>>

\* mdl_console_take_line(): the flag is cleared, the buffer is lent.
TakesLine ==
  /\ sup.at = "idle" /\ line.ready
  /\ sup' = [at |-> "line", item |-> NoFrame, piece |-> line.holds]
  /\ line' = [line EXCEPT !.ready = FALSE]
  /\ UNCHANGED <<parser, buf, ready, usb, mod, lock, pc, early, answer>>

\* mdl_console_execute() reads the line, does what it says, which may delete a
\* module's task, and writes what it has to say.
Executes ==
  /\ sup.at = "line"
  /\ UNCHANGED <<mod, lock>> \/ DeletesTask
  /\ sup' = [at |-> "wants", item |-> NoFrame, piece |-> 0]
  /\ early' = IF line.ready THEN early ELSE early \ {"line"}
  /\ UNCHANGED <<parser, buf, ready, line, usb, pc, answer>>

\* The scan of the slots takes out a module that faulted or hangs.
Scans ==
  /\ sup.at = "idle"
  /\ DeletesTask
  /\ UNCHANGED <<parser, buf, ready, line, usb, sup, pc, early, answer>>

UsbStep == Line_Ignores \/ Line_Ends \/ Line_Shrinks \/ Line_Grows \/ Console_Done \/ UsbTakes \/ UsbSends
SupStep == TakesFrame \/ Handles \/ SupervisorTakes \/ SupervisorSends \/ TakesLine \/ Executes
ModStep == ModuleTakes \/ ModuleSends

Next ==
  \/ \E f \in Frames : BeginsFrame(f)
  \/ SendsByte
  \/ BreaksOff
  \/ \E c \in Typed : Types(c)
  \/ UsbStep \/ SupStep \/ ModStep \/ ModuleLogs \/ Scans

\* Each task is scheduled when it can run, and no write tries for ever.
Fairness == WF_parts(UsbStep) /\ WF_parts(SupStep) /\ WF_parts(ModStep)

Spec == Init /\ [][Next]_parts /\ Fairness

-----------------------------------------------------------------------------
\* What the supervisor reads while it handles a frame is that frame, and what
\* it reads while it executes a line is that line, although the receive task
\* can write both buffers at any time: unless the PC did not wait, the flags
\* being cleared before the buffers are used (protocol.c:202, console.c:109).
BuffersHoldStill ==
  /\ sup.at = "frame" /\ "frame" \notin early =>
       \A i \in 1 .. PayloadLen[sup.item] : buf[i] = Byte(sup.item, MagicLen + 2 + i)
  /\ sup.at = "line" /\ "line" \notin early => line.holds = sup.piece

\* A response takes three writes and the lock is given between them
\* (protocol.c:228-232), yet no module's output comes into the middle of it:
\* its task has no turn then.  The echo of typed text can.
ResponsesAreWhole == answer # "mod"

\* A frame whose first byte comes while the parser looks for a magic is the
\* one that waits for the supervisor after its last byte: whatever was typed
\* or broken off before it (protocol.c:97-118).
FramesAreFound ==
  [][ pc.frame # NoFrame /\ pc'.frame = NoFrame /\ pc'.found => ready' = pc.frame ]_parts

\* A frame that waits is taken and answered and every writer gets its turn,
\* except after the task that was sending has been deleted: nobody gives its
\* lock back (usb_cdc.c:189-208).
NothingWaitsForEver ==
  /\ ready # NoFrame ~> (sup.at = "frame" \/ lock = "dead")
  /\ sup.at = "frame" ~> ((sup.at = "idle" /\ answer # "none") \/ lock = "dead")
  /\ usb.at = "wants" ~> (usb.at # "wants" \/ lock = "dead")
  /\ mod = "wants" ~> (mod # "wants" \/ lock = "dead")
=============================================================================
