------------------------------- MODULE Persist -------------------------------
(***************************************************************************)
(* The flash store of saved modules (src/mdl/tests/hil/common/             *)
(* board_persist.c): two banks, one flash operation per step, a power cut  *)
(* or a failing operation between any two of them.                         *)
(*                                                                         *)
(* A bank is what bank_valid() reads of it: the magic word, the sequence   *)
(* number, the table of entries (by the checksum recorded for each), and   *)
(* the images whose bytes are in the bank.  A sector erase and a word      *)
(* program each happen or do not; two images with one checksum are equal.  *)
(* The image to save is read from the caller's buffer in three places:     *)
(* for its name, for its bytes and for its checksum.                       *)
(***************************************************************************)
EXTENDS Integers, FiniteSets

CONSTANTS
  Images,        \* what a buffer may hold; an image has a name
  MaxEntries,    \* MAX_ENTRIES
  Fits(_),       \* the entries of a set fit into BANK_SIZE
  SeqMod         \* 2^32, the range of the sequence number

Banks  == {0, 1}
NoBank == 2
NoImage == [name |-> "", bytes |-> ""]

ASSUME StoreAssumption ==
  /\ IsFiniteSet(Images) /\ NoImage \notin Images
  /\ MaxEntries \in Nat \ {0}
  /\ SeqMod \in Nat /\ SeqMod > 2
  /\ \A S \in SUBSET Images : Fits(S) \in BOOLEAN

VARIABLES
  bank,   \* the two banks in flash
  op,     \* the flash operation that comes next
  src,    \* src_bank of the save that runs
  table,  \* the entries of the header under construction
  left,   \* the entries of the old bank still to carry over
  buf     \* the buffer that holds the image to save

vars == <<bank, op, src, table, left, buf>>

SaveOps   == {"clear", "clear2", "carry", "crc", "header", "magic", "old", "old2"}
ForgetOps == {"forget0", "forget0b", "forget1", "forget1b"}
Bank      == [magic : BOOLEAN, seq : 0 .. SeqMod - 1,
              table : SUBSET Images, body : SUBSET Images]

TypeOK ==
  /\ bank \in [Banks -> Bank]
  /\ op \in SaveOps \cup ForgetOps \cup {"idle"}
  /\ src \in Banks \cup {NoBank}
  /\ table \in SUBSET Images
  /\ left \in SUBSET Images
  /\ buf \in Images \cup {NoImage}

-----------------------------------------------------------------------------
(* Reading the store *)

\* The difference is signed: half of the range counts as newer.
Newer(x, y) ==
  LET d == IF x >= y THEN x - y ELSE x - y + SeqMod
  IN  0 < d /\ 2 * d < SeqMod

NextSeq_NoWrap(x) == x + 1
NextSeq(x) == IF x = SeqMod - 1 THEN 0 ELSE x + 1

\* bank_valid()
Valid(b) ==
  /\ bank[b].magic /\ bank[b].table # {}
  /\ Cardinality(bank[b].table) <= MaxEntries
  /\ bank[b].table \subseteq bank[b].body

\* active_bank()
Active ==
  IF Valid(0) /\ Valid(1) THEN (IF Newer(bank[1].seq, bank[0].seq) THEN 1 ELSE 0)
  ELSE IF Valid(0) THEN 0 ELSE IF Valid(1) THEN 1 ELSE NoBank

Other(b) == IF b = 0 THEN 1 ELSE 0
dst      == Other(src)

TableOf(b) == IF b = NoBank THEN {} ELSE bank[b].table

-----------------------------------------------------------------------------
(* board_persist_save(): one action per flash operation *)

Init ==
  /\ bank = [b \in Banks |-> [magic |-> FALSE, seq |-> 0, table |-> {}, body |-> {}]]
  /\ op = "idle" /\ src = NoBank /\ table = {} /\ left = {} /\ buf = NoImage

SaveBegins(i) ==
  /\ op = "idle" /\ Fits({i})
  /\ src' = Active
  /\ table' = {} /\ left' = TableOf(Active) /\ buf' = i
  /\ op' = "clear"
  /\ UNCHANGED bank

\* The first sector holds the header, so the images are out of reach with it.
EraseHeader(b, from, to) ==
  /\ op = from /\ op' = to
  /\ bank' = [bank EXCEPT ![b].magic = FALSE, ![b].seq = SeqMod - 1, ![b].table = {}]
  /\ UNCHANGED <<src, table, left, buf>>

EraseImages(b, from, to) ==
  /\ op = from /\ op' = to
  /\ bank' = [bank EXCEPT ![b].body = {}]
  /\ UNCHANGED <<src, table, left, buf>>

\* same_name(): the new image supersedes this entry.
Supersede(j) ==
  /\ op = "carry" /\ j \in left /\ j.name = buf.name
  /\ left' = left \ {j}
  /\ UNCHANGED <<bank, op, src, table, buf>>

HasRoomFor(j) == Cardinality(table) < MaxEntries /\ Fits(table \cup {j})

CarryOver(j) ==
  /\ op = "carry" /\ j \in left /\ j.name # buf.name /\ HasRoomFor(j)
  /\ bank'  = [bank EXCEPT ![dst].body = @ \cup {j}]
  /\ table' = table \cup {j}
  /\ left'  = left \ {j}
  /\ UNCHANGED <<op, src, buf>>

WriteImage ==
  /\ op = "carry" /\ left = {} /\ HasRoomFor(buf)
  /\ bank' = [bank EXCEPT ![dst].body = @ \cup {buf}]
  /\ op' = "crc"
  /\ UNCHANGED <<src, table, left, buf>>

\* The checksum of the new entry is computed from the buffer, not from flash.
RecordImage ==
  /\ op = "crc" /\ op' = "header"
  /\ table' = table \cup {buf}
  /\ UNCHANGED <<bank, src, left, buf>>

WriteHeader_SameSeq ==
  /\ op = "header" /\ op' = "magic"
  /\ bank' = [bank EXCEPT ![dst].table = table,
                          ![dst].seq = IF src = NoBank THEN 1 ELSE bank[src].seq]
  /\ UNCHANGED <<src, table, left, buf>>

\* Every word of the header but the magic.
WriteHeader ==
  /\ op = "header" /\ op' = "magic"
  /\ bank' = [bank EXCEPT ![dst].table = table,
                          ![dst].seq = IF src = NoBank THEN 1 ELSE NextSeq(bank[src].seq)]
  /\ UNCHANGED <<src, table, left, buf>>

WriteMagic_EraseAnyway ==
  /\ op = "magic" /\ op' = "old" /\ src' = dst
  /\ bank' = [bank EXCEPT ![dst].magic = TRUE]
  /\ UNCHANGED <<table, left, buf>>

WriteMagic ==
  /\ op = "magic" /\ op' = IF src = NoBank THEN "idle" ELSE "old"
  /\ bank' = [bank EXCEPT ![dst].magic = TRUE]
  /\ UNCHANGED <<src, table, left, buf>>

\* "full": an entry does not fit, and the save returns false.
Full ==
  /\ op = "carry" /\ op' = "idle"
  /\ \/ \E j \in left : j.name # buf.name /\ ~HasRoomFor(j)
     \/ left = {} /\ ~HasRoomFor(buf)
  /\ UNCHANGED <<bank, src, table, left, buf>>

\* A flash operation does not report FLASH_OPERATE_DONE.
OperationFails ==
  /\ op # "idle" /\ op' = "idle"
  /\ UNCHANGED <<bank, src, table, left, buf>>

ClearBank   == EraseHeader(dst, "clear", "clear2") \/ EraseImages(dst, "clear2", "carry")
EraseOld    == src # NoBank /\ (EraseHeader(src, "old", "old2") \/ EraseImages(src, "old2", "idle"))

(* board_persist_forget() *)

ForgetBegins ==
  /\ op = "idle" /\ op' = "forget0"
  /\ UNCHANGED <<bank, src, table, left, buf>>

Forget ==
  \/ EraseHeader(0, "forget0", "forget0b") \/ EraseImages(0, "forget0b", "forget1")
  \/ EraseHeader(1, "forget1", "forget1b") \/ EraseImages(1, "forget1b", "idle")

(* The environment *)

\* The flash keeps its contents, the locals and the buffer are gone.
PowerCut ==
  /\ op' = "idle" /\ src' = NoBank /\ table' = {} /\ left' = {} /\ buf' = NoImage
  /\ UNCHANGED bank

Next ==
  \/ \E i \in Images : SaveBegins(i) \/ Supersede(i) \/ CarryOver(i)
  \/ ClearBank \/ WriteImage \/ RecordImage \/ WriteHeader \/ WriteMagic \/ EraseOld
  \/ Full \/ OperationFails
  \/ ForgetBegins \/ Forget
  \/ PowerCut

\* Nobody writes the caller's buffer during a save: it is the payload of the
\* frame that asked for it, and the PC waits for the answer.
Spec == Init /\ [][Next]_vars

-----------------------------------------------------------------------------
(* Properties *)

Promise == INSTANCE Store WITH
  saved  <- TableOf(Active),
  shadow <- IF Valid(0) /\ Valid(1) THEN TableOf(Other(Active)) ELSE {},
  busy   <- IF op \in SaveOps THEN "save" ELSE IF op \in ForgetOps THEN "forget" ELSE "no"

(* persist.h:40-44: a save adds or replaces one image in one step, at      *)
(* whichever flash operation it fails or the power is cut.                 *)
SavesAreAtomic == Promise!Spec

(* board_persist.c:58-61: two valid banks are the new one and the one it   *)
(* replaces, and the sequence number tells them apart, also when it wraps  *)
(* round; the bank a save is working on is never the one that is active.   *)
NewBankWins ==
  /\ Valid(0) /\ Valid(1) =>
       bank[Active].seq = NextSeq(bank[Other(Active)].seq)
  /\ op \in {"clear2", "carry", "crc", "header", "magic"} =>
       Active = src /\ ~bank[dst].magic
  /\ op \in {"old", "old2"} => Active = dst /\ buf \in bank[dst].table

(* persist.h:30-32: one entry per name, so a boot never brings a module up *)
(* twice.                                                                  *)
OneEntryPerName ==
  \A b \in Banks : Valid(b) =>
    \A i, j \in bank[b].table : i.name = j.name => i = j

(* persist.h:40-44 "on failure the PREVIOUS set is still intact": at every *)
(* point of a save one bank holds a good set, unless there was none.       *)
ASetSurvives == op \in SaveOps /\ src # NoBank => Active # NoBank

=============================================================================
