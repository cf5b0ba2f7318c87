--------------------------- MODULE TransportProofs ---------------------------
(***************************************************************************)
(* The one USB port carries frames and text without mixing them up, for    *)
(* any frames, payloads and lines, whatever is typed or broken off and     *)
(* whichever task writes.                                                  *)
(***************************************************************************)
EXTENDS Transport, SequenceTheorems, TLAPS

-----------------------------------------------------------------------------
(* The inductive invariant *)

Ends   == {"CR", "LF"}
Texts  == Typed \cup {"x", "M", "old"}
Bytes  == {b \in [frame : Frames \cup {NoFrame}, pos : Nat, text : Texts] :
             b.frame \in Frames => b.text = "x"}
Stages == {"magic", "cmd", "len", "payload", "crc"}

\* Before the magic is complete the parser keeps text, then it keeps bytes.
ParserAgrees ==
  /\ parser = [st |-> parser.st, pos |-> parser.pos, got |-> parser.got, len |-> parser.len]
  /\ parser.st \in Stages /\ parser.pos \in Nat /\ parser.len \in 0 .. MaxPayload
  /\ parser.st = "magic" => parser.got \in Seq(Texts \ Ends) /\ parser.pos < MagicLen
  /\ parser.st # "magic" => parser.got \in Seq(Bytes)

TypesAgree ==
  /\ ParserAgrees
  /\ buf \in [1 .. MaxPayload -> Bytes]
  /\ ready \in Frames \cup {NoFrame}
  /\ line \in [pos : Nat, cr : BOOLEAN, ready : BOOLEAN, holds : Nat, made : Nat]
  /\ usb \in [at : {"reads", "console", "wants", "sends"}, todo : Seq(Texts)]
  /\ sup \in [at : {"idle", "frame", "wants", "reply", "line"},
              item : Frames \cup {NoFrame}, piece : Nat]
  /\ mod \in {"runs", "wants", "sends"}
  /\ lock \in {"free", "usb", "sup", "mod", "dead"}
  /\ pc \in [frame : Frames \cup {NoFrame}, pos : Nat, found : BOOLEAN, begun : Nat, keys : Nat]
  /\ pc.frame # NoFrame => pc.pos \in 1 .. Size(pc.frame)
  /\ early \subseteq {"frame", "line"}
  /\ answer \in {"none", "going", "whole", "lost", "usb"}

\* The lock is held by the task that sends, as long as that task exists, and
\* a response is under way only while the supervisor writes one.
OneSends ==
  /\ (usb.at = "sends") <=> (lock = "usb")
  /\ (sup.at = "reply") <=> (lock = "sup")
  /\ (mod = "sends") <=> (lock = "mod")
  /\ answer = "going" => /\ sup.at \in {"wants", "reply"} /\ mod # "sends"
                         /\ sup.item # NoFrame /\ sup.piece \in {2, 3}

\* The payload is in the buffer as far as it has been captured.
BufferFollows ==
  /\ parser.st = "cmd" => parser.got = <<>>
  /\ parser.st = "len" => Len(parser.got) = 1
  /\ parser.st = "payload" => Len(parser.got) \in 2 .. parser.len + 1
  /\ parser.st = "crc" => Len(parser.got) = parser.len + 2
  /\ parser.st \in {"payload", "crc"} =>
       \A i \in 1 .. Len(parser.got) - 2 : buf[i] = parser.got[i + 2]

Holds(f) == \A i \in 1 .. PayloadLen[f] : buf[i] = Byte(f, MagicLen + 2 + i)

FrameHolds ==
  /\ ready # NoFrame /\ "frame" \notin early => Holds(ready)
  /\ sup.at = "frame" => sup.item # NoFrame
  /\ sup.at = "frame" /\ "frame" \notin early => Holds(sup.item)

\* One burst ends one line at most, and a line that is still in use when it
\* does was typed on by a PC that did not wait.
LineHolds ==
  /\ \A i \in 1 .. Len(usb.todo) - 1 : usb.todo[i] \notin Ends
  /\ (\E i \in 1 .. Len(usb.todo) : usb.todo[i] \in Ends) /\ (line.ready \/ sup.at = "line")
       => "line" \in early
  /\ sup.at = "line" /\ "line" \notin early => line.holds = sup.piece

\* The parser has followed the frame that the PC is sending.
Follows(f, n) ==
  IF n < MagicLen THEN parser.st = "magic" /\ (n > 0 => parser.pos = n)
  ELSE /\ parser.st = IF n = MagicLen THEN "cmd" ELSE IF n = MagicLen + 1 THEN "len"
                      ELSE IF n = MagicLen + 2 + PayloadLen[f] THEN "crc" ELSE "payload"
       /\ parser.got = [k \in 1 .. n - MagicLen |-> Byte(f, MagicLen + k)]
       /\ n > MagicLen + 1 => parser.len = PayloadLen[f]

FrameFollows == pc.frame # NoFrame /\ pc.found => Follows(pc.frame, pc.pos - 1)

IInv == TypesAgree /\ OneSends /\ BufferFollows /\ FrameHolds /\ LineHolds /\ FrameFollows

-----------------------------------------------------------------------------
(* What the parser does with a byte. *)

LEMMA Lengths ==
  /\ MagicLen \in Nat \ {0} /\ LineMax \in Nat /\ MaxPayload \in Nat /\ NoFrame \notin Frames
  /\ \A f \in Frames : /\ PayloadLen[f] \in Nat /\ PayloadLen[f] <= MaxPayload
                       /\ Size(f) = MagicLen + 3 + PayloadLen[f]
  BY TransportAssumption DEF Size

LEMMA SentBytes ==
  ASSUME NEW f \in Frames, NEW k \in Nat
  PROVE  Byte(f, k) \in Bytes /\ Byte(f, k).frame = f /\ Byte(f, k).pos = k /\ Byte(f, k).text = "x"
  BY DEF Byte, Bytes, Texts

LEMMA TypedBytes ==
  ASSUME NEW c \in Texts
  PROVE  Key(c) \in Bytes /\ Key(c).frame = NoFrame /\ Key(c).text = c
  BY Lengths DEF Key, Bytes

\* A byte of a magic is not the end of a line.
LEMMA MagicIsNoEnd ==
  ASSUME NEW b \in Bytes, NEW k \in Nat, IsMagic(b, k)
  PROVE  b.text \in Texts \ Ends
  BY DEF Bytes, IsMagic, Ends

LEMMA IntervalEnds ==
  ASSUME NEW m \in Nat, NEW n \in Nat, 1 .. m = 1 .. n
  PROVE  m = n
<1>1. CASE m = 0 \/ n = 0
  BY <1>1
<1>2. CASE m # 0 /\ n # 0
  <2>1. m \in 1 .. n /\ n \in 1 .. m
    BY <1>2
  <2> QED
    BY <2>1
<1> QED
  BY <1>1, <1>2

LEMMA HuntsGoesOn ==
  ASSUME ParserAgrees, NEW b, Hunts(b), IsMagic(b, parser.pos + 1), parser.pos + 1 < MagicLen
  PROVE  parser' = [st |-> "magic", pos |-> parser.pos + 1,
                    got |-> Append(parser.got, b.text), len |-> parser.len]
<1>1. parser.st = "magic" /\ parser' = [parser EXCEPT !.pos = @ + 1, !.got = Append(@, b.text)]
  BY DEF Hunts
<1>2. parser = [st |-> parser.st, pos |-> parser.pos, got |-> parser.got, len |-> parser.len]
  BY DEF ParserAgrees
<1> QED
  BY <1>1, <1>2

LEMMA HuntsKeepsTypes ==
  ASSUME TypesAgree, NEW b \in Bytes, Hunts(b)
  PROVE  ParserAgrees'
<1>1. /\ parser.got \in Seq(Texts \ Ends) /\ parser.pos \in Nat /\ parser.pos < MagicLen
      /\ parser.len \in 0 .. MaxPayload /\ MagicLen \in Nat \ {0}
      /\ 0 \in 0 .. MaxPayload
  BY Lengths DEF TypesAgree, ParserAgrees, Hunts
<1>2. CASE IsMagic(b, parser.pos + 1)
  <2>1. Append(parser.got, b.text) \in Seq(Texts \ Ends)
    BY <1>1, <1>2, MagicIsNoEnd, AppendProperties
  <2>2. CASE parser.pos + 1 < MagicLen
    <3>1. parser' = [st |-> "magic", pos |-> parser.pos + 1,
                     got |-> Append(parser.got, b.text), len |-> parser.len]
      BY <1>2, <2>2, HuntsGoesOn DEF TypesAgree
    <3> QED
      BY <1>1, <2>1, <2>2, <3>1 DEF ParserAgrees, Stages
  <2>3. CASE ~ (parser.pos + 1 < MagicLen)
    <3>1. parser' = [st |-> "cmd", pos |-> 0, got |-> <<>>, len |-> 0]
      BY <1>2, <2>3 DEF Hunts, Hunting
    <3> QED
      BY <1>1, <3>1, EmptySeq DEF ParserAgrees, Stages
  <2> QED
    BY <2>2, <2>3
<1>3. CASE ~ IsMagic(b, parser.pos + 1) /\ IsMagic(b, 1)
  <2>1. <<b.text>> \in Seq(Texts \ Ends)
    BY <1>3, MagicIsNoEnd
  <2>2. 1 < MagicLen
    BY <1>1, <1>3
  <2> QED
    <3>1. parser' = [st |-> "magic", pos |-> 1, got |-> <<b.text>>, len |-> 0]
      BY <1>3 DEF Hunts, Hunting
    <3> QED
      BY <1>1, <2>1, <2>2, <3>1 DEF ParserAgrees, Stages
<1>4. CASE ~ IsMagic(b, parser.pos + 1) /\ ~ IsMagic(b, 1)
  <2>1. parser' = [st |-> "magic", pos |-> 0, got |-> <<>>, len |-> 0]
    BY <1>4 DEF Hunts, Hunting
  <2> QED
    BY <1>1, <2>1, EmptySeq DEF ParserAgrees, Stages
<1> QED
  BY <1>2, <1>3, <1>4

LEMMA CapturesKeepsTypes ==
  ASSUME TypesAgree, NEW b \in Bytes,
         Command(b) \/ Length(b) \/ Payload(b) \/ Checksum(b)
  PROVE  ParserAgrees'
<1>1. /\ parser.got \in Seq(Bytes) /\ parser.pos \in Nat /\ parser.len \in 0 .. MaxPayload
      /\ 0 \in 0 .. MaxPayload /\ 0 \in Nat /\ 0 < MagicLen /\ <<>> \in Seq(Texts \ Ends)
  <2>1. parser.st # "magic"
    BY DEF Command, Length, Payload, Checksum
  <2> QED
    <3>1. /\ MagicLen \in Nat \ {0} /\ MaxPayload \in Nat /\ <<>> \in Seq(Texts \ Ends)
      BY Lengths, EmptySeq
    <3>2. parser.got \in Seq(Bytes) /\ parser.pos \in Nat /\ parser.len \in 0 .. MaxPayload
      BY <2>1 DEF TypesAgree, ParserAgrees
    <3> QED
      BY <3>1, <3>2
<1>2. Append(parser.got, b) \in Seq(Bytes) /\ <<b>> \in Seq(Bytes)
  BY <1>1, AppendProperties
<1>3. CASE parser' = Hunting
  <2>1. parser' = [st |-> "magic", pos |-> 0, got |-> <<>>, len |-> 0]
    BY <1>3 DEF Hunting
  <2> QED
    BY <1>1, <2>1 DEF ParserAgrees, Stages
<1>4. CASE Command(b)
  <2>1. parser' = [st |-> "len", pos |-> parser.pos, got |-> <<b>>, len |-> parser.len]
    BY <1>4 DEF Command, TypesAgree, ParserAgrees
  <2> QED
    BY <1>1, <1>2, <2>1 DEF ParserAgrees, Stages
<1>5. CASE Length(b)
  <2>1. PICK n \in 0 .. MaxPayload + 1 :
          parser' = IF n > MaxPayload THEN Hunting
                    ELSE [parser EXCEPT !.st = IF n > 0 THEN "payload" ELSE "crc",
                                        !.got = Append(@, b), !.len = n]
    BY <1>5 DEF Length
  <2>2. CASE ~ (n > MaxPayload)
    <3>1. parser' = [st |-> IF n > 0 THEN "payload" ELSE "crc", pos |-> parser.pos,
                     got |-> Append(parser.got, b), len |-> n]
      BY <2>1, <2>2 DEF TypesAgree, ParserAgrees
    <3>2. n \in 0 .. MaxPayload
      BY <2>2, Lengths
    <3> QED
      BY <1>1, <1>2, <3>1, <3>2 DEF ParserAgrees, Stages
  <2> QED
    BY <1>3, <2>1, <2>2
<1>6. CASE Payload(b)
  <2>1. parser' = [st |-> IF Len(parser.got) - 1 = parser.len THEN "crc" ELSE "payload",
                   pos |-> parser.pos, got |-> Append(parser.got, b), len |-> parser.len]
    BY <1>6 DEF Payload, TypesAgree, ParserAgrees
  <2> QED
    BY <1>1, <1>2, <2>1 DEF ParserAgrees, Stages
<1> QED
  BY <1>3, <1>4, <1>5, <1>6 DEF Checksum

Captures(b) == Command(b) \/ Length(b) \/ Payload(b) \/ Checksum(b)

LEMMA HuntingLeavesTheBuffer ==
  ASSUME TypesAgree, NEW b, Hunts(b)
  PROVE  UNCHANGED <<buf, ready>> /\ BufferFollows'
<1>1. UNCHANGED <<buf, ready>>
  BY DEF Hunts, KeepsBuf
<1>2. parser'.st = "magic" \/ (parser'.st = "cmd" /\ parser'.got = <<>>)
  <2>1. CASE IsMagic(b, parser.pos + 1) /\ parser.pos + 1 < MagicLen
    <3>1. parser' = [st |-> "magic", pos |-> parser.pos + 1,
                     got |-> Append(parser.got, b.text), len |-> parser.len]
      BY <2>1, HuntsGoesOn DEF TypesAgree
    <3> QED
      BY <3>1
  <2>2. CASE IsMagic(b, parser.pos + 1) /\ ~ (parser.pos + 1 < MagicLen)
    BY <2>2 DEF Hunts, Hunting
  <2>3. CASE ~ IsMagic(b, parser.pos + 1) /\ IsMagic(b, 1)
    <3>1. parser' = [st |-> "magic", pos |-> 1, got |-> <<b.text>>, len |-> 0]
      BY <2>3 DEF Hunts, Hunting
    <3> QED
      BY <3>1
  <2>4. CASE ~ IsMagic(b, parser.pos + 1) /\ ~ IsMagic(b, 1)
    <3>1. parser' = [st |-> "magic", pos |-> 0, got |-> <<>>, len |-> 0]
      BY <2>4 DEF Hunts, Hunting
    <3> QED
      BY <3>1
  <2> QED
    BY <2>1, <2>2, <2>3, <2>4
<1> QED
  BY <1>1, <1>2 DEF BufferFollows

LEMMA CommandFollows ==
  ASSUME TypesAgree, NEW b \in Bytes, Command(b)
  PROVE  BufferFollows' /\ UNCHANGED <<buf, ready, usb>>
<1>1. parser' = [st |-> "len", pos |-> parser.pos, got |-> <<b>>, len |-> parser.len]
  BY DEF Command, TypesAgree, ParserAgrees
<1> QED
  BY <1>1 DEF BufferFollows, Command, KeepsBuf

LEMMA LengthFollows ==
  ASSUME TypesAgree, Len(parser.got) = 1, NEW b \in Bytes, Length(b)
  PROVE  BufferFollows' /\ UNCHANGED <<buf, ready, usb>>
<1>1. UNCHANGED <<buf, ready, usb>>
  BY DEF Length, KeepsBuf
<1>2. parser.got \in Seq(Bytes) /\ Len(parser.got) = 1
  BY DEF TypesAgree, ParserAgrees, Length
<1>3. PICK n \in 0 .. MaxPayload + 1 :
        parser' = IF n > MaxPayload THEN Hunting
                  ELSE [parser EXCEPT !.st = IF n > 0 THEN "payload" ELSE "crc",
                                      !.got = Append(@, b), !.len = n]
  BY DEF Length
<1>4. CASE n > MaxPayload
  <2>1. parser' = [st |-> "magic", pos |-> 0, got |-> <<>>, len |-> 0]
    BY <1>3, <1>4 DEF Hunting
  <2> QED
    BY <1>1, <2>1 DEF BufferFollows
<1>5. CASE ~ (n > MaxPayload)
  <2>1. parser' = [st |-> IF n > 0 THEN "payload" ELSE "crc", pos |-> parser.pos,
                   got |-> Append(parser.got, b), len |-> n]
    BY <1>3, <1>5 DEF TypesAgree, ParserAgrees
  <2>2. Len(parser'.got) = 2
    BY <1>2, <2>1, AppendProperties
  <2>3. n \in Nat /\ (n > 0 => 2 \in 2 .. n + 1) /\ (~ (n > 0) => n = 0)
    BY Lengths
  <2>4. \A i \in 1 .. Len(parser'.got) - 2 : buf'[i] = parser'.got[i + 2]
    BY <2>2
  <2>5. /\ parser'.st = IF n > 0 THEN "payload" ELSE "crc"
        /\ parser'.len = n
    BY <2>1
  <2> QED
    BY <1>1, <2>2, <2>3, <2>4, <2>5 DEF BufferFollows
<1> QED
  BY <1>1, <1>4, <1>5

\* The byte captured goes to its place behind those that are there.
LEMMA PayloadFollows ==
  ASSUME TypesAgree, BufferFollows, NEW b \in Bytes, Payload(b)
  PROVE  BufferFollows' /\ buf' \in [1 .. MaxPayload -> Bytes] /\ UNCHANGED <<ready, usb>>
<1> DEFINE i == Len(parser.got) - 1
<1>1. /\ parser.got \in Seq(Bytes) /\ i \in 1 .. parser.len /\ parser.len \in 0 .. MaxPayload
      /\ \A k \in 1 .. i - 1 : buf[k] = parser.got[k + 2]
      /\ buf \in [1 .. MaxPayload -> Bytes]
  <2>1. parser.st = "payload"
    BY DEF Payload
  <2>2. /\ parser.got \in Seq(Bytes) /\ parser.len \in 0 .. MaxPayload
        /\ buf \in [1 .. MaxPayload -> Bytes]
    BY <2>1 DEF TypesAgree, ParserAgrees
  <2>3. /\ Len(parser.got) \in 2 .. parser.len + 1
        /\ \A k \in 1 .. Len(parser.got) - 2 : buf[k] = parser.got[k + 2]
    BY <2>1 DEF BufferFollows
  <2>4. MaxPayload \in Nat
    BY Lengths
  <2>5. i - 1 = Len(parser.got) - 2 /\ i \in 1 .. parser.len
    BY <2>2, <2>3, <2>4
  <2> QED
    BY <2>2, <2>3, <2>5
<1>2. /\ parser' = [st |-> IF i = parser.len THEN "crc" ELSE "payload",
                    pos |-> parser.pos, got |-> Append(parser.got, b), len |-> parser.len]
      /\ buf' = [buf EXCEPT ![i] = b]
      /\ UNCHANGED <<ready, usb>>
  BY DEF Payload, TypesAgree, ParserAgrees
<1>3. /\ Len(parser'.got) = i + 2 /\ parser'.got[i + 2] = b
      /\ \A k \in 1 .. i + 1 : parser'.got[k] = parser.got[k]
  BY <1>1, <1>2, AppendProperties
<1>4. i \in 1 .. MaxPayload /\ MaxPayload \in Nat
  BY <1>1, Lengths
<1> HIDE DEF i
<1>5. buf' \in [1 .. MaxPayload -> Bytes] /\ buf'[i] = b /\ \A k \in 1 .. i - 1 : buf'[k] = buf[k]
  BY <1>1, <1>2, <1>4
<1>6. \A k \in 1 .. i : buf'[k] = parser'.got[k + 2]
  <2> SUFFICES ASSUME NEW k \in 1 .. i, k # i
               PROVE  buf'[k] = parser'.got[k + 2]
    BY <1>3, <1>5
  <2>1. k \in 1 .. i - 1 /\ k + 2 \in 1 .. i + 1
    BY <1>4
  <2> QED
    BY <2>1, <1>1, <1>3, <1>5
<1>7. BufferFollows'
  <2>1. parser'.st = (IF i = parser.len THEN "crc" ELSE "payload") /\ parser'.len = parser.len
    BY <1>2
  <2>2. parser'.st \in {"payload", "crc"}
    BY <2>1
  <2>3. parser'.st = "payload" => i + 2 \in 2 .. parser.len + 1
    BY <1>1, <2>1
  <2>4. parser'.st = "crc" => i + 2 = parser.len + 2
    BY <2>1
  <2>5. Len(parser'.got) - 2 = i
    BY <1>3, <1>4
  <2> QED
    BY <1>3, <1>6, <2>1, <2>2, <2>3, <2>4, <2>5 DEF BufferFollows
<1> QED
  BY <1>2, <1>5, <1>7

\* The checksum fits one frame only: the one whose payload is in the buffer.
LEMMA ChecksumFollows ==
  ASSUME TypesAgree, BufferFollows, NEW b \in Bytes, Checksum(b)
  PROVE  /\ BufferFollows' /\ UNCHANGED <<buf, usb>>
         /\ ready' = ready \/ (ready' \in Frames /\ Holds(ready)')
<1>1. parser'.st = "magic" /\ UNCHANGED <<buf, usb>>
  BY DEF Checksum, Hunting
<1>2. ASSUME ready' # ready
      PROVE  ready' \in Frames /\ Holds(ready)'
  <2>1. ChecksumMatches(b) /\ ready' = parser.got[1].frame
    BY <1>2 DEF Checksum
  <2>2. PICK f \in Frames :
          Append(parser.got, b) = [k \in 1 .. PayloadLen[f] + 3 |-> Byte(f, MagicLen + k)]
    BY <2>1 DEF ChecksumMatches
  <2>3. /\ parser.got \in Seq(Bytes) /\ Len(parser.got) = parser.len + 2 /\ parser.len \in Nat
        /\ \A k \in 1 .. Len(parser.got) - 2 : buf[k] = parser.got[k + 2]
    BY Lengths DEF TypesAgree, ParserAgrees, BufferFollows, Checksum
  <2>4. /\ Len(Append(parser.got, b)) = parser.len + 3
        /\ \A k \in 1 .. parser.len + 2 : parser.got[k] = Append(parser.got, b)[k]
    BY <2>3, AppendProperties
  <2>5. parser.len = PayloadLen[f] /\ PayloadLen[f] \in Nat
    <3>1. DOMAIN Append(parser.got, b) = 1 .. parser.len + 3
      BY <2>3, <2>4, AppendProperties, LenProperties
    <3>2. DOMAIN Append(parser.got, b) = 1 .. PayloadLen[f] + 3
      BY <2>2
    <3>3. PayloadLen[f] \in Nat
      BY Lengths
    <3>4. parser.len + 3 \in Nat /\ PayloadLen[f] + 3 \in Nat
      BY <2>3, <3>3
    <3>5. parser.len + 3 = PayloadLen[f] + 3
      BY <3>1, <3>2, <3>4, IntervalEnds
    <3> QED
      BY <2>3, <3>3, <3>5
  <2>6. \A k \in 1 .. PayloadLen[f] + 2 : parser.got[k] = Byte(f, MagicLen + k)
    <3> TAKE k \in 1 .. PayloadLen[f] + 2
    <3>1. k \in 1 .. PayloadLen[f] + 3
      BY <2>5
    <3> QED
      BY <2>2, <2>4, <2>5, <3>1
  <2>7. ready' = f
    BY <2>1, <2>5, <2>6, Lengths, SentBytes
  <2>8. \A k \in 1 .. PayloadLen[f] : buf'[k] = Byte(f, MagicLen + 2 + k)
    <3> TAKE k \in 1 .. PayloadLen[f]
    <3>1. k + 2 \in 1 .. PayloadLen[f] + 2 /\ MagicLen + (k + 2) = MagicLen + 2 + k
      BY <2>5, Lengths
    <3>2. buf'[k] = parser.got[k + 2]
      BY <1>1, <2>3, <2>5
    <3> QED
      BY <3>1, <3>2, <2>6
  <2> QED
    BY <2>7, <2>8 DEF Holds
<1> QED
  BY <1>1, <1>2 DEF BufferFollows

\* What goes on to the console after byte b: at most its last byte, which is b,
\* ends a line.
Burst(todo, b) ==
  /\ todo \in Seq(Texts)
  /\ \A i \in 1 .. Len(todo) - 1 : todo[i] \notin Ends
  /\ (\E i \in 1 .. Len(todo) : todo[i] \in Ends) => b.text \in Ends

LEMMA HuntingGives ==
  ASSUME TypesAgree, NEW b \in Bytes, Hunts(b)
  PROVE  usb' = usb \/ \E todo : usb' = [at |-> "console", todo |-> todo] /\ Burst(todo, b)
<1>1. /\ parser.got \in Seq(Texts \ Ends) /\ b.text \in Texts
      /\ \A i \in 1 .. Len(parser.got) : parser.got[i] \in Texts \ Ends
  <2>1. parser.got \in Seq(Texts \ Ends)
    BY DEF TypesAgree, ParserAgrees, Hunts
  <2> QED
    BY <2>1, ElementOfSeq DEF Bytes
<1>2. Burst(parser.got, b)
  <2>1. parser.got \in Seq(Texts)
    BY <1>1
  <2>2. Len(parser.got) \in Nat
    BY <1>1, LenProperties
  <2>3. \A i \in 1 .. Len(parser.got) - 1 : parser.got[i] \notin Ends
    BY <1>1, <2>2
  <2>4. ~ \E i \in 1 .. Len(parser.got) : parser.got[i] \in Ends
    BY <1>1
  <2> QED
    BY <2>1, <2>3, <2>4 DEF Burst
<1>3. Burst(Append(parser.got, b.text), b)
  <2> DEFINE t == Append(parser.got, b.text)
  <2>1. /\ t \in Seq(Texts) /\ Len(t) = Len(parser.got) + 1 /\ Len(parser.got) \in Nat
        /\ \A i \in 1 .. Len(parser.got) : t[i] = parser.got[i]
        /\ t[Len(parser.got) + 1] = b.text
    <3>1. parser.got \in Seq(Texts)
      BY <1>1
    <3> QED
      BY <1>1, <3>1, AppendProperties, LenProperties
  <2> HIDE DEF t
  <2>2. \A i \in 1 .. Len(t) - 1 : t[i] \notin Ends
    BY <1>1, <2>1
  <2>3. (\E i \in 1 .. Len(t) : t[i] \in Ends) => b.text \in Ends
    <3> SUFFICES ASSUME NEW i \in 1 .. Len(t), t[i] \in Ends
                 PROVE  b.text \in Ends
      OBVIOUS
    <3>1. i = Len(parser.got) + 1
      BY <2>1, <2>2
    <3> QED
      BY <2>1, <3>1
  <2>4. Burst(t, b)
    BY <2>1, <2>2, <2>3 DEF Burst
  <2> QED
    BY <2>4 DEF t
<1>4. \/ usb' = usb \/ usb' = [at |-> "console", todo |-> parser.got]
      \/ usb' = [at |-> "console", todo |-> Append(parser.got, b.text)]
  BY DEF Hunts, Gives
<1> QED
  BY <1>2, <1>3, <1>4

\* Whatever the byte is.
LEMMA RxByteDoes ==
  ASSUME TypesAgree, BufferFollows, NEW b \in Bytes, RxByte(b)
  PROVE  /\ ParserAgrees' /\ BufferFollows'
         /\ buf' \in [1 .. MaxPayload -> Bytes] /\ ready' \in Frames \cup {NoFrame}
         /\ usb' \in [at : {"reads", "console"}, todo : Seq(Texts)]
         /\ usb' = usb \/ Burst(usb'.todo, b)
         /\ parser.st = "magic" => UNCHANGED <<buf, ready>>
         /\ ready' = ready \/ (ready' \in Frames /\ Holds(ready)')
<1>1. /\ buf \in [1 .. MaxPayload -> Bytes] /\ ready \in Frames \cup {NoFrame}
      /\ usb \in [at : {"reads", "console"}, todo : Seq(Texts)]
  BY DEF TypesAgree, RxByte
<1>2. CASE Hunts(b)
  <2>1. usb' \in [at : {"reads", "console"}, todo : Seq(Texts)] /\ (usb' = usb \/ Burst(usb'.todo, b))
    BY <1>1, <1>2, HuntingGives DEF Burst
  <2> QED
    BY <1>1, <1>2, <2>1, HuntsKeepsTypes, HuntingLeavesTheBuffer
<1>3. CASE Command(b)
  <2>1. parser.st # "magic"
    BY <1>3 DEF Command
  <2> QED
    BY <1>1, <1>3, <2>1, CapturesKeepsTypes, CommandFollows
<1>4. CASE Length(b)
  <2>1. parser.st = "len" /\ Len(parser.got) = 1
    BY <1>4 DEF Length, BufferFollows
  <2> QED
    BY <1>1, <1>4, <2>1, CapturesKeepsTypes, LengthFollows
<1>5. CASE Payload(b)
  <2>1. parser.st # "magic"
    BY <1>5 DEF Payload
  <2> QED
    BY <1>1, <1>5, <2>1, CapturesKeepsTypes, PayloadFollows
<1>6. CASE Checksum(b)
  <2>1. parser.st # "magic"
    BY <1>6 DEF Checksum
  <2> QED
    BY <1>1, <1>6, <2>1, CapturesKeepsTypes, ChecksumFollows
<1> QED
  BY <1>2, <1>3, <1>4, <1>5, <1>6 DEF RxByte

\* A byte that comes too early is remembered as one.
LEMMA RxByteKeepsIInv ==
  ASSUME IInv, NEW b \in Bytes, RxByte(b),
         early \subseteq early',
         Working /\ parser.st # "magic" => "frame" \in early',
         b.text \in Ends /\ (line.ready \/ sup.at = "line") => "line" \in early'
  PROVE  OneSends' /\ BufferFollows' /\ FrameHolds' /\ LineHolds'
<1> USE DEF IInv
<1>1. /\ BufferFollows' /\ ready' \in Frames \cup {NoFrame}
      /\ usb'.at \in {"reads", "console"}
      /\ usb' = usb \/ Burst(usb'.todo, b)
      /\ parser.st = "magic" => UNCHANGED <<buf, ready>>
      /\ ready' = ready \/ (ready' \in Frames /\ Holds(ready)')
  BY RxByteDoes
<1>2. usb.at = "reads" /\ UNCHANGED <<line, sup, mod, lock, answer>>
  BY DEF RxByte
<1>3. OneSends'
  BY <1>1, <1>2 DEF OneSends
<1>4. FrameHolds'
  <2>1. CASE Working /\ parser.st # "magic"
    BY <1>2, <2>1 DEF FrameHolds
  <2>2. CASE parser.st = "magic"
    BY <1>1, <1>2, <2>2 DEF FrameHolds, Holds
  <2>3. CASE ~ Working
    BY <1>1, <1>2, <2>3 DEF FrameHolds, Working
  <2> QED
    BY <2>1, <2>2, <2>3
<1>5. LineHolds'
  BY <1>1, <1>2 DEF LineHolds, Burst
<1> QED
  BY <1>1, <1>3, <1>4, <1>5

-----------------------------------------------------------------------------
(* The parser follows a frame from its first byte to its last. *)

Prefix(f, m) == [k \in 1 .. m |-> Byte(f, MagicLen + k)]

LEMMA PrefixGrows ==
  ASSUME NEW f \in Frames, NEW m \in Nat
  PROVE  /\ Prefix(f, 0) = <<>> /\ Prefix(f, m) \in Seq(Bytes) /\ Len(Prefix(f, m)) = m
         /\ Append(Prefix(f, m), Byte(f, MagicLen + m + 1)) = Prefix(f, m + 1)
<1>1. \A k \in 1 .. m + 1 : Byte(f, MagicLen + k) \in Bytes
  BY SentBytes, Lengths
<1>2. Prefix(f, 0) = <<>>
  BY DEF Prefix
<1>3. Prefix(f, m) \in Seq(Bytes) /\ Len(Prefix(f, m)) = m
  <2>1. Prefix(f, m) \in [1 .. m -> Bytes]
    BY <1>1 DEF Prefix
  <2> QED
    BY <2>1, SeqDef, LenProperties DEF Prefix
<1>4. Append(Prefix(f, m), Byte(f, MagicLen + m + 1)) = Prefix(f, m + 1)
  <2> DEFINE s == Append(Prefix(f, m), Byte(f, MagicLen + m + 1))
  <2>1. /\ s \in Seq(Bytes) /\ Len(s) = m + 1 /\ s[m + 1] = Byte(f, MagicLen + m + 1)
        /\ \A k \in 1 .. m : s[k] = Prefix(f, m)[k]
    <3>1. Byte(f, MagicLen + m + 1) \in Bytes
      BY Lengths, SentBytes
    <3> QED
      BY <1>3, <3>1, AppendProperties
  <2> HIDE DEF s
  <2>2. \A k \in 1 .. m + 1 : s[k] = Prefix(f, m + 1)[k]
    <3> TAKE k \in 1 .. m + 1
    <3>1. CASE k \in 1 .. m
      BY <2>1, <3>1 DEF Prefix
    <3>2. CASE k = m + 1
      <4>1. MagicLen + k = MagicLen + m + 1
        BY <3>2, Lengths
      <4> QED
        BY <2>1, <3>2, <4>1 DEF Prefix
    <3> QED
      BY <3>1, <3>2
  <2>3. s = Prefix(f, m + 1)
    <3>1. DOMAIN s = 1 .. m + 1 /\ s = [k \in 1 .. m + 1 |-> s[k]]
      BY <2>1, LenProperties, SeqDef
    <3> QED
      BY <2>2, <3>1 DEF Prefix
  <2> QED
    BY <2>3 DEF s
<1> QED
  BY <1>2, <1>3, <1>4

\* A byte of the magic.
LEMMA FollowsMagic ==
  ASSUME TypesAgree, NEW f \in Frames, NEW k \in 1 .. MagicLen,
         Follows(f, k - 1), RxByte(Byte(f, k))
  PROVE  Follows(f, k)'
<1> DEFINE b == Byte(f, k)
<1>1. /\ b.frame = f /\ b.pos = k /\ b.text = "x" /\ k \in Nat /\ MagicLen \in Nat /\ k <= MagicLen
      /\ PayloadLen[f] \in Nat /\ b.frame \in Frames
  BY SentBytes, Lengths
<1>2. parser.st = "magic" /\ (k > 1 => parser.pos = k - 1)
  BY <1>1 DEF Follows
<1>3. Hunts(b) /\ parser.pos \in Nat /\ parser.pos < MagicLen
  BY <1>2 DEF RxByte, Command, Length, Payload, Checksum, TypesAgree, ParserAgrees
<1> HIDE DEF b
<1>4. IsMagic(b, k) /\ (\A n \in Nat : IsMagic(b, n) => n = k)
  BY <1>1 DEF IsMagic
<1>5. CASE k < MagicLen
  <2>1. parser'.st = "magic" /\ parser'.pos = k
    <3>1. CASE k = parser.pos + 1
      <4>1. parser' = [st |-> "magic", pos |-> k, got |-> Append(parser.got, b.text), len |-> parser.len]
        BY <1>2, <1>3, <1>4, <1>5, <3>1, HuntsGoesOn DEF TypesAgree
      <4> QED
        BY <4>1
    <3>2. CASE k # parser.pos + 1
      <4>1. k = 1 /\ ~ IsMagic(b, parser.pos + 1)
        BY <1>1, <1>2, <1>3, <1>4, <3>2
      <4>2. parser' = [st |-> "magic", pos |-> 1, got |-> <<b.text>>, len |-> 0]
        BY <1>3, <1>4, <4>1 DEF Hunts, Hunting
      <4> QED
        BY <4>1, <4>2
    <3> QED
      BY <3>1, <3>2
  <2> QED
    BY <1>1, <1>5, <2>1 DEF Follows
<1>6. CASE ~ (k < MagicLen)
  <2>1. k = MagicLen /\ parser.pos + 1 = k
    BY <1>1, <1>2, <1>3, <1>6
  <2>2. parser' = [st |-> "cmd", pos |-> 0, got |-> <<>>, len |-> 0]
    BY <1>3, <1>4, <1>6, <2>1 DEF Hunts, Hunting
  <2>3. <<>> = [i \in 1 .. k - MagicLen |-> Byte(f, MagicLen + i)]
    BY <1>1, <2>1
  <2> QED
    BY <1>1, <2>1, <2>2, <2>3 DEF Follows
<1> QED
  BY <1>5, <1>6

\* The command and the length.
LEMMA FollowsHeader ==
  ASSUME TypesAgree, NEW f \in Frames, NEW k \in MagicLen + 1 .. MagicLen + 2,
         Follows(f, k - 1), RxByte(Byte(f, k))
  PROVE  Follows(f, k)'
<1> DEFINE b == Byte(f, k)
<1>1. /\ k \in Nat /\ MagicLen \in Nat /\ PayloadLen[f] \in Nat /\ PayloadLen[f] <= MaxPayload
      /\ MaxPayload \in Nat
  BY Lengths
<1>2. CASE k = MagicLen + 1
  <2>1. parser.st = "cmd"
    BY <1>1, <1>2 DEF Follows
  <2>2. Command(b)
    BY <2>1 DEF RxByte, Hunts, Length, Payload, Checksum
  <2>3. parser' = [st |-> "len", pos |-> parser.pos, got |-> <<b>>, len |-> parser.len]
    BY <2>2 DEF Command, TypesAgree, ParserAgrees
  <2>4. <<b>> = [i \in 1 .. k - MagicLen |-> Byte(f, MagicLen + i)]
    BY <1>1, <1>2
  <2> QED
    BY <1>1, <1>2, <2>3, <2>4 DEF Follows
<1>3. CASE k = MagicLen + 2
  <2>1. parser.st = "len" /\ parser.got = Prefix(f, 1)
    <3>1. k - 1 - MagicLen = 1
      BY <1>1, <1>3
    <3>2. parser.st = "len" /\ parser.got = [i \in 1 .. k - 1 - MagicLen |-> Byte(f, MagicLen + i)]
      BY <1>1, <1>3 DEF Follows
    <3> QED
      BY <3>1, <3>2 DEF Prefix
  <2>2. Length(b)
    BY <2>1 DEF RxByte, Hunts, Command, Payload, Checksum
  <2>3. PICK n \in 0 .. MaxPayload + 1 :
          /\ \A g \in Frames : b = Byte(g, MagicLen + 2) => n = PayloadLen[g]
          /\ parser' = IF n > MaxPayload THEN Hunting
                       ELSE [parser EXCEPT !.st = IF n > 0 THEN "payload" ELSE "crc",
                                           !.got = Append(@, b), !.len = n]
    BY <2>2 DEF Length
  <2>4. n = PayloadLen[f] /\ ~ (n > MaxPayload)
    BY <1>1, <1>3, <2>3
  <2>5. parser' = [st |-> IF n > 0 THEN "payload" ELSE "crc", pos |-> parser.pos,
                   got |-> Append(parser.got, b), len |-> n]
    BY <2>3, <2>4 DEF TypesAgree, ParserAgrees
  <2>6. Append(parser.got, b) = [i \in 1 .. k - MagicLen |-> Byte(f, MagicLen + i)]
    <3>1. k = MagicLen + 1 + 1 /\ k - MagicLen = 1 + 1
      BY <1>1, <1>3
    <3>2. Append(Prefix(f, 1), Byte(f, MagicLen + 1 + 1)) = Prefix(f, 1 + 1)
      BY PrefixGrows
    <3> QED
      BY <2>1, <3>1, <3>2 DEF Prefix
  <2>7. parser'.st = IF k = MagicLen + 2 + PayloadLen[f] THEN "crc" ELSE "payload"
    <3>1. (k = MagicLen + 2 + PayloadLen[f]) <=> ~ (n > 0)
      BY <1>1, <1>3, <2>4, Lengths
    <3> QED
      BY <2>5, <3>1
  <2>8. parser'.got = [i \in 1 .. k - MagicLen |-> Byte(f, MagicLen + i)] /\ parser'.len = PayloadLen[f]
    BY <2>4, <2>5, <2>6
  <2>9. ~ (k < MagicLen) /\ k # MagicLen /\ k # MagicLen + 1
    BY <1>1, <1>3, Lengths
  <2> QED
    BY <2>7, <2>8, <2>9 DEF Follows
<1> QED
  BY <1>1, <1>2, <1>3

LEMMA FollowsPayload ==
  ASSUME TypesAgree, NEW f \in Frames,
         NEW k \in MagicLen + 3 .. MagicLen + 2 + PayloadLen[f],
         Follows(f, k - 1), RxByte(Byte(f, k))
  PROVE  Follows(f, k)'
<1> DEFINE b == Byte(f, k)
           n == k - 1 - MagicLen
<1>1. /\ k \in Nat /\ MagicLen \in Nat /\ PayloadLen[f] \in Nat
      /\ n \in Nat /\ n >= 2 /\ n <= PayloadLen[f] + 1 /\ k = MagicLen + n + 1
      /\ k - MagicLen = n + 1
  BY Lengths
<1>2. parser.st = "payload" /\ parser.got = Prefix(f, n) /\ parser.len = PayloadLen[f]
  BY <1>1 DEF Follows, Prefix
<1>3. Payload(b)
  BY <1>2 DEF RxByte, Hunts, Command, Length, Checksum
<1>4. parser' = [st |-> IF Len(parser.got) - 1 = parser.len THEN "crc" ELSE "payload",
                 pos |-> parser.pos, got |-> Append(parser.got, b), len |-> parser.len]
  BY <1>3 DEF Payload, TypesAgree, ParserAgrees
<1>5. Len(parser.got) = n /\ Append(parser.got, b) = Prefix(f, n + 1)
  BY <1>1, <1>2, PrefixGrows
<1>6. /\ parser'.st = IF k = MagicLen + 2 + PayloadLen[f] THEN "crc" ELSE "payload"
      /\ parser'.len = PayloadLen[f]
  <2>1. (n - 1 = PayloadLen[f]) <=> (k = MagicLen + 2 + PayloadLen[f])
    BY <1>1
  <2>2. /\ parser'.st = IF n - 1 = PayloadLen[f] THEN "crc" ELSE "payload"
        /\ parser'.len = PayloadLen[f]
    BY <1>2, <1>4, <1>5
  <2> QED
    BY <2>1, <2>2
<1>7. parser'.got = [i \in 1 .. k - MagicLen |-> Byte(f, MagicLen + i)]
  BY <1>1, <1>4, <1>5 DEF Prefix
<1>8. ~ (k < MagicLen) /\ k # MagicLen /\ k # MagicLen + 1
  BY <1>1
<1> HIDE DEF n, b
<1> QED
  BY <1>6, <1>7, <1>8 DEF Follows

\* The last byte: the frame is there.
LEMMA FollowsToTheEnd ==
  ASSUME TypesAgree, NEW f \in Frames, Follows(f, Size(f) - 1), RxByte(Byte(f, Size(f)))
  PROVE  ready' = f
<1> DEFINE b == Byte(f, Size(f))
           n == PayloadLen[f] + 2
<1>1. /\ MagicLen \in Nat /\ PayloadLen[f] \in Nat /\ n \in Nat /\ n >= 2
      /\ Size(f) = MagicLen + n + 1 /\ n + 1 = PayloadLen[f] + 3
  BY Lengths
<1>2. parser.st = "crc" /\ parser.got = Prefix(f, n)
  <2>1. Size(f) - 1 - MagicLen = n
    BY <1>1
  <2>2. parser.st = "crc" /\ parser.got = [i \in 1 .. Size(f) - 1 - MagicLen |-> Byte(f, MagicLen + i)]
    <3>1. /\ ~ (Size(f) - 1 < MagicLen) /\ Size(f) - 1 # MagicLen /\ Size(f) - 1 # MagicLen + 1
          /\ Size(f) - 1 = MagicLen + 2 + PayloadLen[f]
      BY <1>1
    <3> QED
      BY <3>1 DEF Follows
  <2> QED
    BY <2>1, <2>2 DEF Prefix
<1>3. Checksum(b)
  <2>1. Hunts(b) \/ Command(b) \/ Length(b) \/ Payload(b) \/ Checksum(b)
    BY DEF RxByte
  <2>2. ~ Hunts(b) /\ ~ Command(b)
    BY <1>2 DEF Hunts, Command
  <2>3. ~ Length(b) /\ ~ Payload(b)
    BY <1>2 DEF Length, Payload
  <2> QED
    BY <2>1, <2>2, <2>3
<1>4. ChecksumMatches(b)
  <2>1. b = Byte(f, MagicLen + n + 1)
    BY <1>1
  <2>2. Append(parser.got, b) = Prefix(f, n + 1)
    BY <1>1, <1>2, <2>1, PrefixGrows
  <2>3. Append(parser.got, b) = [i \in 1 .. PayloadLen[f] + 3 |-> Byte(f, MagicLen + i)]
    BY <1>1, <2>2 DEF Prefix
  <2> QED
    BY <2>3 DEF ChecksumMatches
<1>5. parser.got[1].frame = f
  BY <1>1, <1>2, SentBytes DEF Prefix
<1> QED
  BY <1>3, <1>4, <1>5 DEF Checksum

-----------------------------------------------------------------------------
(* The steps of the PC. *)

LEMMA FrameEnds ==
  ASSUME IInv, SendsByte, pc.found, NEW f, NEW k, f = pc.frame, k = pc.pos
  PROVE  IF k = Size(f) THEN ready' = f ELSE Follows(f, k)'
<1>1. /\ f \in Frames /\ k \in 1 .. Size(f) /\ Follows(f, k - 1) /\ RxByte(Byte(f, k)) /\ TypesAgree
      /\ Size(f) = MagicLen + 3 + PayloadLen[f] /\ MagicLen \in Nat /\ PayloadLen[f] \in Nat
  BY Lengths DEF SendsByte, IInv, TypesAgree, FrameFollows
<1>2. CASE k = Size(f)
  BY <1>1, <1>2, FollowsToTheEnd
<1>3. CASE k # Size(f)
  <2>1. \/ k \in 1 .. MagicLen \/ k \in MagicLen + 1 .. MagicLen + 2
        \/ k \in MagicLen + 3 .. MagicLen + 2 + PayloadLen[f]
    BY <1>1, <1>3
  <2>2. Follows(f, k)'
    BY <1>1, <2>1, FollowsMagic, FollowsHeader, FollowsPayload
  <2> QED
    BY <1>3, <2>2
<1> QED
  BY <1>2, <1>3

LEMMA OthersAreTyped ==
  ASSUME TypesAgree, UNCHANGED <<line, sup, mod, lock, answer>>
  PROVE  /\ line' \in [pos : Nat, cr : BOOLEAN, ready : BOOLEAN, holds : Nat, made : Nat]
         /\ sup' \in [at : {"idle", "frame", "wants", "reply", "line"},
                      item : Frames \cup {NoFrame}, piece : Nat]
         /\ mod' \in {"runs", "wants", "sends"}
         /\ lock' \in {"free", "usb", "sup", "mod", "dead"}
         /\ answer' \in {"none", "going", "whole", "lost", "usb"}
  BY DEF TypesAgree

LEMMA SendsByteKeepsIInv ==
  ASSUME IInv, SendsByte
  PROVE  IInv'
<1> DEFINE b == Byte(pc.frame, pc.pos)
<1>1. /\ pc.frame \in Frames /\ pc.pos \in 1 .. Size(pc.frame) /\ RxByte(b)
      /\ Size(pc.frame) \in Nat /\ TypesAgree /\ BufferFollows
      /\ early' = early \cup (IF Working THEN {"frame"} ELSE {})
      /\ early \subseteq {"frame", "line"}
      /\ pc' = IF pc.pos < Size(pc.frame) THEN [pc EXCEPT !.pos = @ + 1]
               ELSE [pc EXCEPT !.frame = NoFrame, !.pos = 0]
  <2>1. pc.frame # NoFrame /\ TypesAgree /\ BufferFollows
    BY DEF SendsByte, IInv
  <2>2. /\ pc.frame \in Frames /\ pc.pos \in 1 .. Size(pc.frame)
        /\ early \subseteq {"frame", "line"}
    BY <2>1 DEF TypesAgree
  <2>3. Size(pc.frame) \in Nat
    BY <2>2, Lengths
  <2> QED
    BY <2>1, <2>2, <2>3 DEF SendsByte
<1>2. b \in Bytes /\ b.text = "x" /\ "x" \notin Ends
  <2>1. pc.frame \in Frames /\ pc.pos \in Nat
    BY <1>1
  <2> QED
    BY <2>1, SentBytes DEF Ends
<1> HIDE DEF b
<1>3. /\ ParserAgrees' /\ buf' \in [1 .. MaxPayload -> Bytes] /\ ready' \in Frames \cup {NoFrame}
      /\ usb' \in [at : {"reads", "console"}, todo : Seq(Texts)]
  BY <1>1, <1>2, RxByteDoes
<1>4. OneSends' /\ BufferFollows' /\ FrameHolds' /\ LineHolds'
  BY <1>1, <1>2, RxByteKeepsIInv
<1>5. /\ pc' \in [frame : Frames \cup {NoFrame}, pos : Nat, found : BOOLEAN, begun : Nat, keys : Nat]
      /\ pc'.frame # NoFrame => pc'.pos \in 1 .. Size(pc'.frame)
  <2>1. pc \in [frame : Frames \cup {NoFrame}, pos : Nat, found : BOOLEAN, begun : Nat, keys : Nat]
    BY <1>1 DEF TypesAgree
  <2>2. CASE pc.pos < Size(pc.frame)
    <3>1. pc' = [frame |-> pc.frame, pos |-> pc.pos + 1, found |-> pc.found, begun |-> pc.begun,
                 keys |-> pc.keys]
      BY <1>1, <2>1, <2>2
    <3>2. pc.pos + 1 \in 1 .. Size(pc.frame) /\ pc.pos + 1 \in Nat
      BY <1>1, <2>2
    <3> QED
      BY <2>1, <3>1, <3>2
  <2>3. CASE ~ (pc.pos < Size(pc.frame))
    <3>1. pc' = [frame |-> NoFrame, pos |-> 0, found |-> pc.found, begun |-> pc.begun,
                 keys |-> pc.keys]
      BY <1>1, <2>1, <2>3
    <3> QED
      BY <2>1, <3>1
  <2> QED
    BY <2>2, <2>3
<1>6. TypesAgree'
  <2>1. UNCHANGED <<line, sup, mod, lock, answer>>
    BY <1>1 DEF RxByte
  <2>2. early' \subseteq {"frame", "line"}
    BY <1>1
  <2> QED
    BY <1>1, <1>3, <1>5, <2>1, <2>2, OthersAreTyped DEF TypesAgree
<1>7. FrameFollows'
  <2> SUFFICES ASSUME pc'.frame # NoFrame, pc'.found
               PROVE  Follows(pc.frame, pc.pos - 1)'
    BY DEF FrameFollows
  <2>1. PICK f, k : f = pc.frame /\ k = pc.pos
    OBVIOUS
  <2>2. k < Size(f) /\ pc' = [pc EXCEPT !.pos = @ + 1] /\ k \in Nat
    BY <1>1, <2>1 DEF TypesAgree
  <2>3. pc'.frame = f /\ pc'.pos - 1 = k /\ pc.found
    BY <1>1, <2>1, <2>2 DEF TypesAgree
  <2>4. Follows(f, k)'
    BY <1>1, <2>1, <2>2, <2>3, FrameEnds
  <2> QED
    BY <2>3, <2>4
<1> QED
  BY <1>4, <1>6, <1>7 DEF IInv

LEMMA TypesKeepsIInv ==
  ASSUME IInv, NEW c \in Typed, Types(c)
  PROVE  IInv'
<1> DEFINE b == Key(c)
<1>1. /\ RxByte(b) /\ TypesAgree /\ BufferFollows
      /\ early' = early \cup (IF Working /\ parser.st # "magic" THEN {"frame"} ELSE {})
                        \cup (IF line.ready \/ sup.at = "line" THEN {"line"} ELSE {})
      /\ early \subseteq {"frame", "line"}
      /\ pc.frame = NoFrame /\ pc' = [pc EXCEPT !.keys = @ + 1]
  BY DEF Types, IInv, TypesAgree
<1>2. b \in Bytes
  BY TypedBytes DEF Texts
<1> HIDE DEF b
<1>3. /\ ParserAgrees' /\ buf' \in [1 .. MaxPayload -> Bytes] /\ ready' \in Frames \cup {NoFrame}
      /\ usb' \in [at : {"reads", "console"}, todo : Seq(Texts)]
  BY <1>1, <1>2, RxByteDoes
<1>4. OneSends' /\ BufferFollows' /\ FrameHolds' /\ LineHolds'
  BY <1>1, <1>2, RxByteKeepsIInv
<1>5. /\ pc' \in [frame : Frames \cup {NoFrame}, pos : Nat, found : BOOLEAN, begun : Nat, keys : Nat]
      /\ pc'.frame = NoFrame
  <2>1. pc \in [frame : Frames \cup {NoFrame}, pos : Nat, found : BOOLEAN, begun : Nat, keys : Nat]
    BY <1>1 DEF TypesAgree
  <2>2. pc' = [frame |-> NoFrame, pos |-> pc.pos, found |-> pc.found, begun |-> pc.begun,
               keys |-> pc.keys + 1]
    BY <1>1, <2>1
  <2> QED
    BY <2>1, <2>2
<1>6. TypesAgree'
  <2>1. UNCHANGED <<line, sup, mod, lock, answer>>
    BY <1>1 DEF RxByte
  <2>2. early' \subseteq {"frame", "line"}
    BY <1>1
  <2> QED
    BY <1>1, <1>3, <1>5, <2>1, <2>2, OthersAreTyped DEF TypesAgree
<1> QED
  BY <1>4, <1>5, <1>6 DEF IInv, FrameFollows

\* Neither touches what the device does.
LEMMA PCKeepsIInv ==
  ASSUME IInv, (\E f \in Frames : BeginsFrame(f)) \/ BreaksOff
  PROVE  IInv'
<1>1. UNCHANGED <<parser, buf, ready, line, usb, sup, mod, lock, early, answer>>
  BY DEF BeginsFrame, BreaksOff
<1>2. OneSends' /\ BufferFollows' /\ FrameHolds' /\ LineHolds' /\ ParserAgrees'
  BY <1>1 DEF IInv, OneSends, BufferFollows, FrameHolds, Holds, LineHolds, TypesAgree, ParserAgrees
<1>3. CASE \E f \in Frames : BeginsFrame(f)
  <2>1. PICK f \in Frames : BeginsFrame(f)
    BY <1>3
  <2>2. pc \in [frame : Frames \cup {NoFrame}, pos : Nat, found : BOOLEAN, begun : Nat, keys : Nat]
    BY DEF IInv, TypesAgree
  <2>3. pc' = [frame |-> f, pos |-> 1, found |-> parser.st = "magic", begun |-> pc.begun + 1,
               keys |-> pc.keys]
    BY <2>1, <2>2 DEF BeginsFrame
  <2>4. 1 \in 1 .. Size(f) /\ 0 < MagicLen /\ 1 - 1 = 0
    BY Lengths
  <2>5. /\ pc' \in [frame : Frames \cup {NoFrame}, pos : Nat, found : BOOLEAN, begun : Nat, keys : Nat]
        /\ pc'.pos \in 1 .. Size(pc'.frame)
    <3>1. (parser.st = "magic") \in BOOLEAN
      OBVIOUS
    <3> QED
      BY <2>2, <2>3, <2>4, <3>1
  <2>6. TypesAgree'
    BY <1>1, <1>2, <2>5 DEF IInv, TypesAgree
  <2>7. FrameFollows'
    <3> SUFFICES ASSUME pc'.found PROVE Follows(pc.frame, pc.pos - 1)'
      BY DEF FrameFollows
    <3>1. parser'.st = "magic" /\ pc'.pos - 1 = 0
      BY <1>1, <2>3, <2>4
    <3> QED
      BY <2>4, <3>1 DEF Follows
  <2> QED
    BY <1>2, <2>6, <2>7 DEF IInv
<1>4. CASE BreaksOff
  <2>1. pc' = [frame |-> NoFrame, pos |-> 0, found |-> FALSE, begun |-> pc.begun, keys |-> pc.keys]
    BY <1>4 DEF BreaksOff, IInv, TypesAgree
  <2>2. TypesAgree'
    BY <1>1, <1>2, <2>1 DEF IInv, TypesAgree
  <2> QED
    BY <1>2, <2>1, <2>2 DEF IInv, FrameFollows
<1> QED
  BY <1>3, <1>4

-----------------------------------------------------------------------------
(* The steps of the device: none but RxByte changes what the parser keeps. *)

LEMMA ParserStays ==
  ASSUME IInv, UNCHANGED <<parser, buf, pc>>
  PROVE  /\ ParserAgrees' /\ BufferFollows' /\ FrameFollows'
         /\ buf' \in [1 .. MaxPayload -> Bytes]
         /\ pc' \in [frame : Frames \cup {NoFrame}, pos : Nat, found : BOOLEAN, begun : Nat, keys : Nat]
         /\ pc'.frame # NoFrame => pc'.pos \in 1 .. Size(pc'.frame)
         /\ \A f : Holds(f)' <=> Holds(f)
  BY DEF IInv, TypesAgree, ParserAgrees, BufferFollows, FrameFollows, Follows, Holds

\* The rest of a burst ends a line only where the burst did.
LEMMA TheRestOfABurst ==
  ASSUME IInv, usb.todo # <<>>
  PROVE  /\ Tail(usb.todo) \in Seq(Texts) /\ Next_Byte \in Texts
         /\ \A i \in 1 .. Len(Tail(usb.todo)) - 1 : Tail(usb.todo)[i] \notin Ends
         /\ (\E i \in 1 .. Len(Tail(usb.todo)) : Tail(usb.todo)[i] \in Ends) =>
               /\ \E i \in 1 .. Len(usb.todo) : usb.todo[i] \in Ends
               /\ Next_Byte \notin Ends
         /\ Next_Byte \in Ends => \E i \in 1 .. Len(usb.todo) : usb.todo[i] \in Ends
<1> DEFINE t == usb.todo
<1>1. /\ t \in Seq(Texts) /\ t # <<>> /\ Next_Byte = Head(t)
      /\ \A i \in 1 .. Len(t) - 1 : t[i] \notin Ends
  BY DEF IInv, TypesAgree, LineHolds, Next_Byte
<1> HIDE DEF t
<1>2. /\ Tail(t) \in Seq(Texts) /\ Len(Tail(t)) = Len(t) - 1 /\ Len(t) \in Nat /\ Len(t) >= 1
      /\ \A i \in 1 .. Len(Tail(t)) : Tail(t)[i] = t[i + 1]
      /\ Head(t) = t[1] /\ Head(t) \in Texts
  BY <1>1, HeadTailProperties, LenProperties, EmptySeq
<1>3. \A i \in 1 .. Len(Tail(t)) - 1 : Tail(t)[i] \notin Ends
  <2> TAKE i \in 1 .. Len(Tail(t)) - 1
  <2>1. i \in 1 .. Len(Tail(t)) /\ i + 1 \in 1 .. Len(t) - 1
    BY <1>2
  <2> QED
    BY <1>1, <1>2, <2>1
<1>4. ASSUME NEW i \in 1 .. Len(Tail(t)), Tail(t)[i] \in Ends
      PROVE  (\E k \in 1 .. Len(t) : t[k] \in Ends) /\ Next_Byte \notin Ends
  <2>1. i + 1 \in 1 .. Len(t) /\ t[i + 1] \in Ends /\ 1 \in 1 .. Len(t) - 1
    BY <1>2, <1>4
  <2> QED
    BY <1>1, <1>2, <2>1
<1>5. Next_Byte \in Ends => \E i \in 1 .. Len(t) : t[i] \in Ends
  <2>1. 1 \in 1 .. Len(t)
    BY <1>2
  <2> QED
    BY <1>1, <1>2, <2>1
<1> QED
  BY <1>1, <1>2, <1>3, <1>4, <1>5 DEF t

\* A line is handed over by the end of a burst, and is in use already only when
\* the PC did not wait.
LEMMA ConsoleKeepsIInv ==
  ASSUME IInv, Line_Ignores \/ Line_Ends \/ Line_Shrinks \/ Line_Grows
  PROVE  IInv'
<1> DEFINE t == Tail(usb.todo)
<1>1. /\ usb.at = "console" /\ usb.todo # <<>>
      /\ UNCHANGED <<parser, buf, ready, sup, mod, lock, pc, early, answer>>
      /\ \E at \in {"wants", "console"} : usb' = [at |-> at, todo |-> t]
  BY DEF Line_Ignores, Line_Ends, Line_Shrinks, Line_Grows, KeepsOthers, AtConsole, Eaten
<1>2. /\ t \in Seq(Texts)
      /\ \A i \in 1 .. Len(t) - 1 : t[i] \notin Ends
      /\ (\E i \in 1 .. Len(t) : t[i] \in Ends) =>
            (\E i \in 1 .. Len(usb.todo) : usb.todo[i] \in Ends) /\ Next_Byte \notin Ends
      /\ Next_Byte \in Ends => \E i \in 1 .. Len(usb.todo) : usb.todo[i] \in Ends
  BY <1>1, TheRestOfABurst
<1> HIDE DEF t
<1>3. /\ line' \in [pos : Nat, cr : BOOLEAN, ready : BOOLEAN, holds : Nat, made : Nat]
      /\ Next_Byte \notin Ends => line'.ready = line.ready /\ line'.holds = line.holds
      /\ line'.holds # line.holds => ~ line.ready
  <2>1. line \in [pos : Nat, cr : BOOLEAN, ready : BOOLEAN, holds : Nat, made : Nat]
    BY DEF IInv, TypesAgree
  <2>2. CASE Line_Ignores
    BY <2>1, <2>2 DEF Line_Ignores
  <2>3. CASE Line_Ends
    <3>1. Next_Byte \in Ends
      BY <2>3 DEF Line_Ends, Ends
    <3>2. CASE line.pos = 0
      <4>1. line' = [line EXCEPT !.cr = Next_Byte = "CR"]
        BY <2>3, <3>2 DEF Line_Ends
      <4> QED
        BY <2>1, <3>1, <4>1
    <3>3. CASE line.pos # 0 /\ line.ready
      <4>1. line' = [[line EXCEPT !.pos = 0] EXCEPT !.cr = Next_Byte = "CR"]
        BY <2>3, <3>3 DEF Line_Ends, HandsOver
      <4> QED
        BY <2>1, <3>1, <4>1
    <3>4. CASE line.pos # 0 /\ ~ line.ready
      <4>1. line' = [[line EXCEPT !.pos = 0, !.ready = TRUE, !.holds = line.made + 1, !.made = @ + 1]
                       EXCEPT !.cr = Next_Byte = "CR"]
        BY <2>3, <3>4 DEF Line_Ends, HandsOver
      <4>2. line' = [pos |-> 0, cr |-> Next_Byte = "CR", ready |-> TRUE, holds |-> line.made + 1,
                     made |-> line.made + 1]
        BY <2>1, <4>1
      <4>3. line.made + 1 \in Nat /\ 0 \in Nat /\ (Next_Byte = "CR") \in BOOLEAN
        BY <2>1
      <4>4. line' \in [pos : Nat, cr : BOOLEAN, ready : BOOLEAN, holds : Nat, made : Nat]
        BY <4>2, <4>3
      <4> QED
        BY <3>1, <3>4, <4>4
    <3> QED
      BY <3>2, <3>3, <3>4
  <2>4. CASE Line_Shrinks
    <3>1. line' = [pos |-> IF line.pos > 0 THEN line.pos - 1 ELSE 0, cr |-> FALSE, ready |-> line.ready,
                   holds |-> line.holds, made |-> line.made]
      BY <2>1, <2>4 DEF Line_Shrinks
    <3> QED
      BY <2>1, <3>1
  <2>5. CASE Line_Grows
    <3>1. PICK n \in Nat : line' = [pos |-> n, cr |-> FALSE, ready |-> line.ready,
                                    holds |-> line.holds, made |-> line.made]
      <4>1. CASE line.pos < LineMax
        <5>1. line' = [pos |-> line.pos + 1, cr |-> FALSE, ready |-> line.ready,
                       holds |-> line.holds, made |-> line.made] /\ line.pos + 1 \in Nat
          <6>1. line' = [line EXCEPT !.pos = @ + 1, !.cr = FALSE]
            BY <2>5, <4>1 DEF Line_Grows
          <6>2. line.pos + 1 \in Nat
            BY <2>1
          <6>3. line = [pos |-> line.pos, cr |-> line.cr, ready |-> line.ready,
                        holds |-> line.holds, made |-> line.made]
            BY <2>1
          <6> QED
            BY <6>1, <6>2, <6>3
        <5> QED
          BY <5>1
      <4>2. CASE ~ (line.pos < LineMax)
        <5>1. line' = [pos |-> line.pos, cr |-> FALSE, ready |-> line.ready,
                       holds |-> line.holds, made |-> line.made] /\ line.pos \in Nat
          BY <2>1, <2>5, <4>2 DEF Line_Grows
        <5> QED
          BY <5>1
      <4> QED
        BY <4>1, <4>2
    <3> QED
      BY <2>1, <3>1
  <2> QED
    BY <2>2, <2>3, <2>4, <2>5
<1>4. ParserAgrees' /\ BufferFollows' /\ FrameFollows' /\ FrameHolds'
  BY <1>1, ParserStays DEF IInv, FrameHolds
<1>5. OneSends'
  BY <1>1 DEF IInv, OneSends
<1>6. LineHolds'
  <2>1. \A i \in 1 .. Len(usb'.todo) - 1 : usb'.todo[i] \notin Ends
    BY <1>1, <1>2
  <2>2. (\E i \in 1 .. Len(usb'.todo) : usb'.todo[i] \in Ends) /\ (line'.ready \/ sup'.at = "line")
          => "line" \in early'
    <3>1. usb'.todo = t
      BY <1>1
    <3> QED
      BY <1>1, <1>2, <1>3, <3>1 DEF IInv, LineHolds
  <2>3. sup'.at = "line" /\ "line" \notin early' => line'.holds = sup'.piece
    BY <1>1, <1>2, <1>3 DEF IInv, LineHolds
  <2> QED
    BY <2>1, <2>2, <2>3 DEF LineHolds
<1>7. TypesAgree'
  <2>1. /\ buf' \in [1 .. MaxPayload -> Bytes] /\ (pc'.frame # NoFrame => pc'.pos \in 1 .. Size(pc'.frame))
        /\ pc' \in [frame : Frames \cup {NoFrame}, pos : Nat, found : BOOLEAN, begun : Nat, keys : Nat]
    BY <1>1, ParserStays
  <2>2. TypesAgree
    BY DEF IInv
  <2>3. mod' \in {"runs", "wants", "sends"} /\ lock' \in {"free", "usb", "sup", "mod", "dead"}
        /\ answer' \in {"none", "going", "whole", "lost", "usb"} /\ ready' \in Frames \cup {NoFrame}
    BY <1>1, <2>2 DEF TypesAgree
  <2>4. sup' \in [at : {"idle", "frame", "wants", "reply", "line"},
                  item : Frames \cup {NoFrame}, piece : Nat]
    BY <1>1, <2>2 DEF TypesAgree
  <2>5. usb' \in [at : {"reads", "console", "wants", "sends"}, todo : Seq(Texts)]
    BY <1>1, <1>2
  <2>6. early' \subseteq {"frame", "line"}
    BY <1>1, <2>2 DEF TypesAgree
  <2> QED
    BY <1>3, <1>4, <2>1, <2>3, <2>4, <2>5, <2>6 DEF TypesAgree
<1> QED
  BY <1>4, <1>5, <1>6, <1>7 DEF IInv

\* The writers' steps leave everything else as it is.
LEMMA WritersKeepIInv ==
  ASSUME IInv, Console_Done \/ UsbTakes \/ UsbSends \/ ModuleLogs \/ ModuleTakes \/ ModuleSends
  PROVE  IInv'
<1>1. UNCHANGED <<parser, buf, ready, line, sup, pc, early>>
  BY DEF Console_Done, KeepsOthers, UsbTakes, UsbSends, ModuleLogs, ModuleTakes, ModuleSends
<1>2. ParserAgrees' /\ BufferFollows' /\ FrameFollows' /\ FrameHolds'
  BY <1>1, ParserStays DEF IInv, FrameHolds
<1>3. usb' \in [at : {"reads", "console", "wants", "sends"}, todo : Seq(Texts)] /\ usb'.todo = usb.todo
  BY DEF Console_Done, UsbTakes, UsbSends, ModuleLogs, ModuleTakes, ModuleSends, IInv, TypesAgree
<1>4. LineHolds'
  BY <1>1, <1>3 DEF IInv, LineHolds
<1>5. OneSends' /\ mod' \in {"runs", "wants", "sends"} /\ lock' \in {"free", "usb", "sup", "mod", "dead"}
      /\ answer' \in {"none", "going", "whole", "lost", "usb"}
  <2>1. /\ OneSends /\ mod \in {"runs", "wants", "sends"} /\ lock \in {"free", "usb", "sup", "mod", "dead"}
        /\ answer \in {"none", "going", "whole", "lost", "usb"}
        /\ usb \in [at : {"reads", "console", "wants", "sends"}, todo : Seq(Texts)]
    BY DEF IInv, TypesAgree
  <2>2. CASE Console_Done
    BY <1>1, <2>1, <2>2 DEF OneSends, Console_Done, KeepsOthers
  <2>3. CASE UsbTakes
    BY <1>1, <2>1, <2>3 DEF OneSends, UsbTakes, CanTake
  <2>4. CASE UsbSends
    BY <1>1, <2>1, <2>4 DEF OneSends, UsbSends, Releases, Splices
  <2>5. CASE ModuleLogs
    BY <1>1, <2>1, <2>5 DEF OneSends, ModuleLogs
  <2>6. CASE ModuleTakes
    BY <1>1, <2>1, <2>6 DEF OneSends, ModuleTakes, CanTake, ModuleRuns
  <2>7. CASE ModuleSends
    BY <1>1, <2>1, <2>7 DEF OneSends, ModuleSends, Releases, Splices
  <2> QED
    BY <2>2, <2>3, <2>4, <2>5, <2>6, <2>7
<1>6. TypesAgree'
  BY <1>1, <1>2, <1>3, <1>5, ParserStays DEF IInv, TypesAgree
<1> QED
  BY <1>2, <1>4, <1>5, <1>6 DEF IInv

LEMMA TakesFrameKeepsIInv ==
  ASSUME IInv, TakesFrame
  PROVE  IInv'
<1>1. /\ UNCHANGED <<parser, buf, line, usb, mod, lock, pc, early, answer>>
      /\ sup.at = "idle" /\ sup' = [at |-> "frame", item |-> ready, piece |-> 0]
      /\ ready # NoFrame /\ ready' = NoFrame
      /\ ready \in Frames \cup {NoFrame}
  BY DEF TakesFrame, IInv, TypesAgree
<1>2. ParserAgrees' /\ BufferFollows' /\ FrameFollows'
  BY <1>1, ParserStays
<1>3. FrameHolds'
  BY <1>1, ParserStays DEF IInv, FrameHolds
<1>4. OneSends' /\ LineHolds'
  BY <1>1 DEF IInv, OneSends, LineHolds
<1>5. TypesAgree'
  BY <1>1, <1>2 DEF IInv, TypesAgree
<1> QED
  BY <1>2, <1>3, <1>4, <1>5 DEF IInv

LEMMA HandlesKeepsIInv ==
  ASSUME IInv, Handles
  PROVE  IInv'
<1>1. /\ UNCHANGED <<parser, buf, ready, line, usb, pc, early>>
      /\ sup.at = "frame" /\ answer' = "none"
      /\ UNCHANGED <<mod, lock>> \/ DeletesTask
      /\ sup' = [sup EXCEPT !.at = "wants", !.piece = 1]
      /\ sup.item \in Frames \cup {NoFrame}
  BY DEF Handles, IInv, TypesAgree
<1>2. ParserAgrees' /\ BufferFollows' /\ FrameFollows'
  BY <1>1, ParserStays
<1>3. sup' = [at |-> "wants", item |-> sup.item, piece |-> 1]
  BY <1>1 DEF IInv, TypesAgree
<1>4. FrameHolds' /\ LineHolds'
  BY <1>1, <1>3, ParserStays DEF IInv, FrameHolds, LineHolds
<1>5. OneSends'
  BY <1>1, <1>3 DEF IInv, OneSends, DeletesTask
<1>6. TypesAgree'
  BY <1>1, <1>2, <1>3 DEF IInv, TypesAgree, DeletesTask
<1> QED
  BY <1>2, <1>4, <1>5, <1>6 DEF IInv

LEMMA SupervisorTakesKeepsIInv ==
  ASSUME IInv, SupervisorTakes
  PROVE  IInv'
<1>1. /\ UNCHANGED <<parser, buf, ready, line, usb, mod, pc, early, answer>>
      /\ sup.at = "wants" /\ lock = "free" /\ lock' = "sup"
      /\ sup' = [at |-> "reply", item |-> sup.item, piece |-> sup.piece]
      /\ sup.item \in Frames \cup {NoFrame} /\ sup.piece \in Nat
  BY DEF SupervisorTakes, CanTake, IInv, TypesAgree
<1>2. ParserAgrees' /\ BufferFollows' /\ FrameFollows'
  BY <1>1, ParserStays
<1>3. FrameHolds' /\ LineHolds'
  BY <1>1, ParserStays DEF IInv, FrameHolds, LineHolds
<1>4. OneSends'
  BY <1>1 DEF IInv, OneSends
<1>5. TypesAgree'
  BY <1>1, <1>2 DEF IInv, TypesAgree
<1> QED
  BY <1>2, <1>3, <1>4, <1>5 DEF IInv

\* A response goes on with its next piece, and the supervisor keeps the module
\* from running until it has the lock again.
LEMMA SupervisorSendsKeepsIInv ==
  ASSUME IInv, SupervisorSends
  PROVE  IInv'
<1>1. /\ UNCHANGED <<parser, buf, ready, line, usb, mod, pc>>
      /\ sup.at = "reply" /\ lock' = "free" /\ lock = "sup" /\ mod # "sends" /\ usb.at # "sends"
      /\ sup.item \in Frames \cup {NoFrame} /\ sup.piece \in Nat
      /\ answer \in {"none", "going", "whole", "lost", "usb"}
      /\ early \subseteq {"frame", "line"}
  BY DEF SupervisorSends, Releases, IInv, TypesAgree, OneSends
<1>2. /\ answer' \in {"none", "going", "whole", "lost", "usb"}
      /\ answer' = "going" => \/ answer = "going" /\ sup.item # NoFrame /\ sup.piece # 3
                              \/ answer = "going" /\ sup.item = NoFrame
                              \/ sup.item # NoFrame /\ sup.piece = 1
  BY <1>1 DEF SupervisorSends
<1>3. CASE sup.item # NoFrame /\ sup.piece < 3
  <2>1. PICK n \in sup.piece + 1 .. 3 : sup' = [sup EXCEPT !.at = "wants", !.piece = n]
    BY <1>1, <1>3 DEF SupervisorSends
  <2>2. early' = early
    BY <1>3 DEF SupervisorSends
  <2>3. sup' = [at |-> "wants", item |-> sup.item, piece |-> n] /\ n \in Nat
    <3>1. sup \in [at : {"idle", "frame", "wants", "reply", "line"},
                  item : Frames \cup {NoFrame}, piece : Nat]
      BY DEF IInv, TypesAgree
    <3>2. n \in Nat
      BY <1>1
    <3> QED
      BY <2>1, <3>1, <3>2
  <2>4. answer' = "going" => n \in {2, 3}
    <3>1. answer' = "going" => sup.piece \in {1, 2}
      BY <1>1, <1>2, <1>3 DEF IInv, OneSends
    <3> QED
      BY <1>1, <3>1
  <2>5. OneSends'
    BY <1>1, <1>3, <2>3, <2>4 DEF IInv, OneSends
  <2>6. FrameHolds' /\ LineHolds'
    BY <1>1, <2>2, <2>3, ParserStays DEF IInv, FrameHolds, LineHolds
  <2>7. TypesAgree'
    BY <1>1, <1>2, <2>2, <2>3, ParserStays DEF IInv, TypesAgree
  <2> QED
    BY <1>1, <2>5, <2>6, <2>7, ParserStays DEF IInv
<1>4. CASE ~ (sup.item # NoFrame /\ sup.piece < 3)
  <2>1. /\ sup' = [at |-> "idle", item |-> NoFrame, piece |-> 0]
        /\ early' = IF ready = NoFrame THEN early \ {"frame"} ELSE early
    BY <1>4 DEF SupervisorSends
  <2>2. answer' # "going"
    BY <1>1, <1>2, <1>4 DEF IInv, OneSends
  <2>3. OneSends'
    BY <1>1, <2>1, <2>2 DEF IInv, OneSends
  <2>4. FrameHolds'
    BY <1>1, <2>1, ParserStays DEF IInv, FrameHolds
  <2>5. LineHolds'
    BY <1>1, <2>1 DEF IInv, LineHolds
  <2>6. TypesAgree'
    BY <1>1, <1>2, <2>1, ParserStays DEF IInv, TypesAgree
  <2> QED
    BY <1>1, <2>3, <2>4, <2>5, <2>6, ParserStays DEF IInv
<1> QED
  BY <1>3, <1>4

LEMMA TakesLineKeepsIInv ==
  ASSUME IInv, TakesLine
  PROVE  IInv'
<1>1. /\ UNCHANGED <<parser, buf, ready, usb, mod, lock, pc, early, answer>>
      /\ sup.at = "idle" /\ line.ready
      /\ sup' = [at |-> "line", item |-> NoFrame, piece |-> line.holds]
      /\ line \in [pos : Nat, cr : BOOLEAN, ready : BOOLEAN, holds : Nat, made : Nat]
      /\ line' = [line EXCEPT !.ready = FALSE]
  BY DEF TakesLine, IInv, TypesAgree
<1>2. /\ line' \in [pos : Nat, cr : BOOLEAN, ready : BOOLEAN, holds : Nat, made : Nat]
      /\ line'.holds = line.holds /\ line.holds \in Nat
  BY <1>1
<1>3. ParserAgrees' /\ BufferFollows' /\ FrameFollows'
  BY <1>1, ParserStays
<1>4. FrameHolds'
  BY <1>1, ParserStays DEF IInv, FrameHolds
<1>5. LineHolds' /\ OneSends'
  BY <1>1, <1>2 DEF IInv, LineHolds, OneSends
<1>6. TypesAgree'
  BY <1>1, <1>2, <1>3 DEF IInv, TypesAgree
<1> QED
  BY <1>3, <1>4, <1>5, <1>6 DEF IInv

LEMMA ExecutesKeepsIInv ==
  ASSUME IInv, Executes
  PROVE  IInv'
<1>1. /\ UNCHANGED <<parser, buf, ready, line, usb, pc, answer>>
      /\ sup.at = "line" /\ sup' = [at |-> "wants", item |-> NoFrame, piece |-> 0]
      /\ UNCHANGED <<mod, lock>> \/ DeletesTask
      /\ early' = IF line.ready THEN early ELSE early \ {"line"}
  BY DEF Executes
<1>2. ParserAgrees' /\ BufferFollows' /\ FrameFollows'
  BY <1>1, ParserStays
<1>3. FrameHolds'
  BY <1>1, ParserStays DEF IInv, FrameHolds
<1>4. LineHolds'
  BY <1>1 DEF IInv, LineHolds
<1>5. OneSends'
  BY <1>1 DEF IInv, OneSends, DeletesTask
<1>6. TypesAgree'
  BY <1>1, <1>2 DEF IInv, TypesAgree, DeletesTask
<1> QED
  BY <1>2, <1>3, <1>4, <1>5, <1>6 DEF IInv

LEMMA ScansKeepsIInv ==
  ASSUME IInv, Scans
  PROVE  IInv'
<1>1. /\ UNCHANGED <<parser, buf, ready, line, usb, sup, pc, early, answer>>
      /\ sup.at = "idle" /\ DeletesTask
  BY DEF Scans
<1>2. ParserAgrees' /\ BufferFollows' /\ FrameFollows'
  BY <1>1, ParserStays
<1>3. FrameHolds' /\ LineHolds'
  BY <1>1, ParserStays DEF IInv, FrameHolds, LineHolds
<1>4. OneSends'
  BY <1>1 DEF IInv, OneSends, DeletesTask
<1>5. TypesAgree'
  BY <1>1, <1>2 DEF IInv, TypesAgree, DeletesTask
<1> QED
  BY <1>2, <1>3, <1>4, <1>5 DEF IInv

-----------------------------------------------------------------------------
(* The theorems. *)

LEMMA InitIInv == Init => IInv
<1> SUFFICES ASSUME Init PROVE IInv
  OBVIOUS
<1>1. /\ parser = [st |-> "magic", pos |-> 0, got |-> <<>>, len |-> 0]
      /\ MagicLen \in Nat \ {0} /\ MaxPayload \in Nat /\ 0 \in 0 .. MaxPayload
  BY Lengths DEF Init, Hunting
<1>2. ParserAgrees
  BY <1>1, EmptySeq DEF ParserAgrees, Stages
<1>3. buf \in [1 .. MaxPayload -> Bytes]
  <2>1. Key("old") \in Bytes
    BY TypedBytes DEF Texts
  <2> QED
    BY <2>1 DEF Init
<1>4. TypesAgree
  BY <1>2, <1>3 DEF TypesAgree, Init
<1>5. OneSends /\ BufferFollows /\ FrameHolds /\ FrameFollows
  BY <1>1 DEF Init, OneSends, BufferFollows, FrameHolds, FrameFollows
<1>6. LineHolds
  BY DEF Init, LineHolds
<1> QED
  BY <1>4, <1>5, <1>6 DEF IInv

LEMMA NextKeepsIInv == IInv /\ [Next]_parts => IInv'
<1> SUFFICES ASSUME IInv, [Next]_parts PROVE IInv'
  OBVIOUS
<1>1. CASE UNCHANGED parts
  BY <1>1, ParserStays DEF parts, IInv, TypesAgree, OneSends, FrameHolds, LineHolds
<1>2. CASE (\E f \in Frames : BeginsFrame(f)) \/ BreaksOff
  BY <1>2, PCKeepsIInv
<1>3. CASE SendsByte
  BY <1>3, SendsByteKeepsIInv
<1>4. CASE \E c \in Typed : Types(c)
  BY <1>4, TypesKeepsIInv
<1>5. CASE UsbStep \/ ModStep \/ ModuleLogs
  BY <1>5, ConsoleKeepsIInv, WritersKeepIInv DEF UsbStep, ModStep
<1>6. CASE SupStep
  BY <1>6, TakesFrameKeepsIInv, HandlesKeepsIInv, SupervisorTakesKeepsIInv, SupervisorSendsKeepsIInv,
     TakesLineKeepsIInv, ExecutesKeepsIInv DEF SupStep
<1>7. CASE Scans
  BY <1>7, ScansKeepsIInv
<1> QED
  BY <1>1, <1>2, <1>3, <1>4, <1>5, <1>6, <1>7 DEF Next

\* Whatever is sent, typed or broken off, and whichever task writes.
THEOREM TransportInvariant == Spec => []IInv
<1>1. Init => IInv
  BY InitIInv
<1>2. IInv /\ [Next]_parts => IInv'
  BY NextKeepsIInv
<1> QED
  BY <1>1, <1>2, PTL DEF Spec

\* The supervisor reads the frame and the line it took, although the receive
\* task may write both buffers, unless the PC did not wait (protocol.c:202,
\* console.c:109).
THEOREM BuffersAlwaysHoldStill == Spec => []BuffersHoldStill
<1>1. IInv => BuffersHoldStill
  BY DEF IInv, FrameHolds, Holds, LineHolds, BuffersHoldStill
<1> QED
  BY <1>1, TransportInvariant, PTL

\* No module's output comes into the middle of a response, although the lock is
\* given between its pieces (protocol.c:228-232).
THEOREM ResponsesStayWhole == Spec => []ResponsesAreWhole
<1>1. IInv => ResponsesAreWhole
  BY DEF IInv, TypesAgree, ResponsesAreWhole
<1> QED
  BY <1>1, TransportInvariant, PTL

\* A frame that begins while the parser looks for a magic arrives, whatever was
\* typed or broken off before it (protocol.c:97-118).
THEOREM FramesAreAlwaysFound == Spec => FramesAreFound
<1>1. IInv /\ [Next]_parts =>
        [pc.frame # NoFrame /\ pc'.frame = NoFrame /\ pc'.found => ready' = pc.frame]_parts
  <2> SUFFICES ASSUME IInv, Next, pc.frame # NoFrame, pc'.frame = NoFrame, pc'.found
               PROVE  ready' = pc.frame
    OBVIOUS
  <2>1. NoFrame \notin Frames
    BY Lengths
  <2>2. CASE SendsByte
    <3>1. PICK f, k : f = pc.frame /\ k = pc.pos
      OBVIOUS
    <3>2. ~ (k < Size(f)) /\ k \in 1 .. Size(f) /\ Size(f) \in Nat /\ pc.found
      <4>1. /\ pc \in [frame : Frames \cup {NoFrame}, pos : Nat, found : BOOLEAN, begun : Nat, keys : Nat]
            /\ f \in Frames /\ k \in 1 .. Size(f)
        BY <3>1 DEF IInv, TypesAgree
      <4>2. Size(f) \in Nat
        BY <4>1, Lengths
      <4>3. pc' = IF k < Size(f) THEN [pc EXCEPT !.pos = @ + 1]
                  ELSE [pc EXCEPT !.frame = NoFrame, !.pos = 0]
        BY <2>2, <3>1 DEF SendsByte
      <4>4. pc'.found = pc.found /\ (k < Size(f) => pc'.frame = f)
        BY <3>1, <4>1, <4>3
      <4> QED
        BY <2>1, <4>1, <4>2, <4>4
    <3> QED
      BY <2>2, <3>1, <3>2, FrameEnds
  <2>3. CASE BreaksOff
    BY <2>3 DEF BreaksOff, IInv, TypesAgree
  <2>4. CASE ~ SendsByte /\ ~ BreaksOff
    <3>1. CASE \E f \in Frames : BeginsFrame(f)
      BY <3>1 DEF BeginsFrame
    <3>2. CASE \E c \in Typed : Types(c)
      BY <3>2 DEF Types
    <3>3. UsbStep \/ ModStep => UNCHANGED pc
      BY DEF UsbStep, ModStep, Line_Ignores, Line_Ends, Line_Shrinks, Line_Grows, Console_Done,
         KeepsOthers, UsbTakes, UsbSends, ModuleTakes, ModuleSends
    <3>4. SupStep => UNCHANGED pc
      BY DEF SupStep, TakesFrame, Handles, SupervisorTakes, SupervisorSends, TakesLine, Executes
    <3>5. ModuleLogs \/ Scans => UNCHANGED pc
      BY DEF ModuleLogs, Scans
    <3> QED
      BY <2>4, <3>1, <3>2, <3>3, <3>4, <3>5 DEF Next
  <2> QED
    BY <2>2, <2>3, <2>4
<1> QED
  BY <1>1, TransportInvariant, PTL DEF Spec, FramesAreFound

==============================================================================
