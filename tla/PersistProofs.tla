---------------------------- MODULE PersistProofs ----------------------------
(***************************************************************************)
(* The flash store keeps a good set through any save, and implements its   *)
(* promise (Store), for any images, any number of entries, any capacity    *)
(* and any width of the sequence number.                                   *)
(***************************************************************************)
EXTENDS Persist, FiniteSetTheorems, TLAPS

ClearOps  == {"clear", "clear2"}
BuildOps  == {"carry", "crc", "header", "magic"}
CommitOps == {"old", "old2"}

\* What the new set keeps of the old one.
Carried == {j \in TableOf(src) : j.name # buf.name}

\* Two valid banks were written one after the other.
Successive ==
  Valid(0) /\ Valid(1) =>
    \E b \in Banks : bank[b].seq = NextSeq(bank[Other(b)].seq)

\* Before the commit the old bank decides, and the table under
\* construction holds what has been copied.
BeforeMagic ==
  /\ op \in ClearOps \cup BuildOps => buf \in Images /\ Active = src
  /\ op \in {"clear2"} \cup BuildOps => ~bank[dst].magic
  /\ op \in ClearOps => table = {} /\ left = TableOf(src)
  /\ op \in BuildOps =>
       table \subseteq bank[dst].body /\ Cardinality(table) <= MaxEntries
  /\ op = "carry" => left \subseteq TableOf(src) /\ table = Carried \ left
  /\ op = "crc" =>
       /\ table = Carried /\ buf \in bank[dst].body
       /\ Cardinality(table) < MaxEntries
  /\ op \in {"header", "magic"} => table = Carried \cup {buf}
  /\ op = "magic" =>
       /\ bank[dst].table = table
       /\ src # NoBank => bank[dst].seq = NextSeq(bank[src].seq)

\* After it the new bank decides.
AfterMagic ==
  /\ op \in CommitOps =>
       src \in Banks /\ Valid(dst) /\ Active = dst /\ buf \in bank[dst].table
  /\ op = "old2" => ~bank[src].magic

\* A forget takes bank 0 first.
ForgetOrder ==
  /\ op \in {"forget0b", "forget1", "forget1b"} => ~bank[0].magic
  /\ op = "forget1b" => ~bank[1].magic

IInv ==
  TypeOK /\ OneEntryPerName /\ Successive /\ BeforeMagic /\ AfterMagic /\ ForgetOrder

-----------------------------------------------------------------------------
(* Sequence numbers *)

\* The successor of a sequence number is newer, never older, also where the
\* number wraps round, and it is another number.
LEMMA SuccessorIsNewer ==
  ASSUME NEW x \in 0 .. SeqMod - 1
  PROVE  /\ NextSeq(x) \in 0 .. SeqMod - 1
         /\ Newer(NextSeq(x), x) /\ ~Newer(x, NextSeq(x))
  BY StoreAssumption DEF NextSeq, Newer

\* Every subset of the images is finite.
LEMMA TablesAreFinite ==
  ASSUME NEW S \in SUBSET Images
  PROVE  IsFiniteSet(S) /\ Cardinality(S) \in Nat
  BY StoreAssumption, FS_Subset, FS_CardinalityType

\* One more entry makes the table longer by one at the most.
LEMMA OneMoreEntry ==
  ASSUME NEW S \in SUBSET Images, NEW i \in Images, Cardinality(S) < MaxEntries
  PROVE  Cardinality(S \cup {i}) <= MaxEntries
  <1>1. IsFiniteSet(S) /\ Cardinality(S) \in Nat
    BY TablesAreFinite
  <1>2. Cardinality(S \cup {i}) \in {Cardinality(S), Cardinality(S) + 1}
    BY <1>1, FS_AddElement
  <1> QED BY <1>1, <1>2, StoreAssumption

\* The active bank is one of the two, and valid, unless none is.
LEMMA ActiveIsValid ==
  /\ Active \in Banks \cup {NoBank}
  /\ Active = NoBank => ~Valid(0) /\ ~Valid(1)
  /\ Active # NoBank => Valid(Active)
  BY DEF Active, Banks, NoBank

\* The other bank, of either bank and of none.
LEMMA OtherBank ==
  /\ Other(0) = 1 /\ Other(1) = 0 /\ Other(NoBank) = 0
  /\ dst \in Banks /\ dst # src
  BY DEF Other, dst, Banks, NoBank

\* Two valid banks hold different sequence numbers and the active one is the
\* later.
LEMMA LaterBankIsActive ==
  ASSUME TypeOK, NEW b \in Banks, Valid(0), Valid(1),
         bank[b].seq = NextSeq(bank[Other(b)].seq)
  PROVE  Active = b
  <1>1. bank[Other(b)].seq \in 0 .. SeqMod - 1
    BY OtherBank DEF TypeOK, Bank, Banks
  <1>2. Newer(bank[b].seq, bank[Other(b)].seq) /\ ~Newer(bank[Other(b)].seq, bank[b].seq)
    BY <1>1, SuccessorIsNewer
  <1>3. CASE b = 0
    BY <1>2, <1>3, OtherBank DEF Active
  <1>4. CASE b = 1
    BY <1>2, <1>4, OtherBank DEF Active
  <1> QED BY <1>3, <1>4 DEF Banks

-----------------------------------------------------------------------------
(* What a step does to the banks *)

\* A step that leaves flash alone leaves the valid and the active bank.
LEMMA FlashUntouched ==
  ASSUME bank' = bank
  PROVE  /\ \A b \in Banks : Valid(b)' <=> Valid(b)
         /\ Active' = Active
         /\ \A b \in Banks \cup {NoBank} : TableOf(b)' = TableOf(b)
  <1>1. \A b \in Banks : Valid(b)' <=> Valid(b)
    BY DEF Valid
  <1>2. Active' = Active
    BY <1>1 DEF Active, Banks
  <1> QED BY <1>1, <1>2 DEF TableOf

\* A step on a bank that has no magic, and gets none, does so too.
LEMMA UnmarkedBankChanges ==
  ASSUME NEW b \in Banks, bank'[Other(b)] = bank[Other(b)],
         ~bank[b].magic, ~bank'[b].magic
  PROVE  /\ ~Valid(b) /\ ~Valid(b)' /\ (Valid(Other(b))' <=> Valid(Other(b)))
         /\ Active' = Active
         /\ TableOf(Active)' = TableOf(Active)
  <1>1. ~Valid(b) /\ ~Valid(b)' /\ (Valid(Other(b))' <=> Valid(Other(b)))
    BY DEF Valid
  <1>2. Active' = Active
    BY <1>1, OtherBank DEF Active, Banks
  <1>3. Active = Other(b) \/ Active = NoBank
    BY <1>1, OtherBank DEF Active, Banks
  <1> QED BY <1>1, <1>2, <1>3 DEF TableOf

\* Without its header a bank is invalid, and the other one decides.
LEMMA HeaderIsErased ==
  ASSUME NEW b \in Banks, bank'[Other(b)] = bank[Other(b)], ~bank'[b].magic
  PROVE  /\ ~Valid(b)' /\ (Valid(Other(b))' <=> Valid(Other(b)))
         /\ Active' = IF Valid(Other(b)) THEN Other(b) ELSE NoBank
         /\ TableOf(Active)' = IF Valid(Other(b)) THEN TableOf(Other(b)) ELSE {}
  <1>1. ~Valid(b)' /\ (Valid(Other(b))' <=> Valid(Other(b)))
    BY DEF Valid
  <1>2. Active' = IF Valid(Other(b)) THEN Other(b) ELSE NoBank
    BY <1>1, OtherBank DEF Active, Banks
  <1>3. Other(b) # NoBank
    BY OtherBank DEF Banks, NoBank
  <1> QED BY <1>1, <1>2, <1>3 DEF TableOf

\* What an erase of the sector with the header writes.
LEMMA HeaderEraseWrites ==
  ASSUME TypeOK, NEW b \in Banks, NEW from, NEW to, EraseHeader(b, from, to)
  PROVE  /\ bank' \in [Banks -> Bank]
         /\ bank'[Other(b)] = bank[Other(b)]
         /\ ~bank'[b].magic
  <1>1. Other(b) \in Banks /\ Other(b) # b
    BY OtherBank DEF Banks
  <1>2. SeqMod - 1 \in 0 .. SeqMod - 1
    BY StoreAssumption
  <1> DEFINE r == [bank[b] EXCEPT !.magic = FALSE, !.seq = SeqMod - 1, !.table = {}]
  <1>3. bank' = [bank EXCEPT ![b] = r]
    BY DEF EraseHeader, TypeOK, Bank
  <1>4. r \in Bank /\ ~r.magic
    BY <1>2 DEF TypeOK, Bank
  <1> QED BY <1>1, <1>3, <1>4 DEF TypeOK

\* What an erase of the sectors with the images writes.
LEMMA ImageEraseWrites ==
  ASSUME TypeOK, NEW b \in Banks, NEW from, NEW to, EraseImages(b, from, to)
  PROVE  /\ bank' \in [Banks -> Bank]
         /\ bank'[Other(b)] = bank[Other(b)]
         /\ bank'[b].magic = bank[b].magic
  <1>1. Other(b) \in Banks /\ Other(b) # b
    BY OtherBank DEF Banks
  <1> DEFINE r == [bank[b] EXCEPT !.body = {}]
  <1>2. bank' = [bank EXCEPT ![b] = r]
    BY DEF EraseImages, TypeOK, Bank
  <1>3. r \in Bank /\ r.magic = bank[b].magic
    BY DEF TypeOK, Bank
  <1> QED BY <1>1, <1>2, <1>3 DEF TypeOK

\* A step after which only banks are valid that were so and are unchanged
\* keeps the order of the banks and the names in them.
LEMMA NothingNewIsValid ==
  ASSUME OneEntryPerName, Successive,
         \A b \in Banks : Valid(b)' => Valid(b) /\ bank'[b] = bank[b]
  PROVE  OneEntryPerName' /\ Successive'
  <1>1. OneEntryPerName'
    BY DEF OneEntryPerName
  <1>2. Successive'
    <2>1. SUFFICES ASSUME Valid(0)', Valid(1)' PROVE Successive'
      BY DEF Successive
    <2>2. Valid(0) /\ Valid(1) /\ bank'[0] = bank[0] /\ bank'[1] = bank[1]
      BY <2>1 DEF Banks
    <2>3. PICK b \in Banks : bank[b].seq = NextSeq(bank[Other(b)].seq)
      BY <2>2 DEF Successive
    <2>4. bank'[b] = bank[b] /\ bank'[Other(b)] = bank[Other(b)]
      BY <2>2, OtherBank DEF Banks
    <2> QED BY <2>3, <2>4 DEF Successive, Other, NextSeq
  <1> QED BY <1>1, <1>2

\* What a copied image writes.
LEMMA CopyWrites ==
  ASSUME TypeOK, NEW j \in Images, bank' = [bank EXCEPT ![dst].body = @ \cup {j}]
  PROVE  /\ bank' \in [Banks -> Bank]
         /\ bank'[Other(dst)] = bank[Other(dst)]
         /\ bank'[dst].magic = bank[dst].magic
         /\ bank'[dst].body = bank[dst].body \cup {j}
  <1>1. dst \in Banks /\ Other(dst) \in Banks /\ Other(dst) # dst
    BY OtherBank DEF Banks
  <1> DEFINE r == [bank[dst] EXCEPT !.body = @ \cup {j}]
  <1>2. bank' = [bank EXCEPT ![dst] = r]
    OBVIOUS
  <1>3. bank[dst] \in Bank
    BY <1>1 DEF TypeOK
  <1>4. r \in Bank /\ r.magic = bank[dst].magic /\ r.body = bank[dst].body \cup {j}
    BY <1>3 DEF Bank
  <1> HIDE DEF r
  <1> QED BY <1>1, <1>2, <1>4 DEF TypeOK

\* What the header writes, before its magic.
LEMMA HeaderWrites ==
  ASSUME TypeOK, WriteHeader
  PROVE  /\ bank' \in [Banks -> Bank]
         /\ bank'[Other(dst)] = bank[Other(dst)]
         /\ bank'[dst].magic = bank[dst].magic
         /\ bank'[dst].body = bank[dst].body
         /\ bank'[dst].table = table
         /\ src # NoBank => bank'[dst].seq = NextSeq(bank[src].seq)
  <1>1. dst \in Banks /\ Other(dst) \in Banks /\ Other(dst) # dst
    BY OtherBank DEF Banks
  <1> DEFINE n == IF src = NoBank THEN 1 ELSE NextSeq(bank[src].seq)
             r == [bank[dst] EXCEPT !.table = table, !.seq = n]
  <1>2. bank' = [bank EXCEPT ![dst] = r]
    BY DEF WriteHeader
  <1>3. bank[dst] \in Bank
    BY <1>1 DEF TypeOK
  <1>4. n \in 0 .. SeqMod - 1
    <2>1. CASE src = NoBank
      BY <2>1, StoreAssumption
    <2>2. CASE src # NoBank
      <3>1. bank[src].seq \in 0 .. SeqMod - 1
        BY <2>2 DEF TypeOK, Bank
      <3> QED BY <2>2, <3>1, SuccessorIsNewer
    <2> QED BY <2>1, <2>2
  <1>5. src # NoBank => n = NextSeq(bank[src].seq)
    OBVIOUS
  <1> HIDE DEF n
  <1>6. /\ r \in Bank /\ r.magic = bank[dst].magic /\ r.body = bank[dst].body
        /\ r.table = table /\ r.seq = n
    BY <1>3, <1>4 DEF Bank, TypeOK
  <1> HIDE DEF r
  <1> QED BY <1>1, <1>2, <1>5, <1>6 DEF TypeOK

\* What the magic writes.
LEMMA MagicWrites ==
  ASSUME TypeOK, WriteMagic
  PROVE  /\ bank' \in [Banks -> Bank]
         /\ bank'[Other(dst)] = bank[Other(dst)]
         /\ bank'[dst].magic /\ bank'[dst].table = bank[dst].table
         /\ bank'[dst].seq = bank[dst].seq /\ bank'[dst].body = bank[dst].body
  <1>1. dst \in Banks /\ Other(dst) \in Banks /\ Other(dst) # dst
    BY OtherBank DEF Banks
  <1> DEFINE r == [bank[dst] EXCEPT !.magic = TRUE]
  <1>2. bank' = [bank EXCEPT ![dst] = r]
    BY DEF WriteMagic
  <1>3. bank[dst] \in Bank
    BY <1>1 DEF TypeOK
  <1>4. /\ r \in Bank /\ r.magic /\ r.body = bank[dst].body
        /\ r.table = bank[dst].table /\ r.seq = bank[dst].seq
    BY <1>3 DEF Bank
  <1> HIDE DEF r
  <1> QED BY <1>1, <1>2, <1>4 DEF TypeOK

-----------------------------------------------------------------------------
(* The steps, one group of actions after the other *)

Quiet ==
  \/ \E i \in Images : SaveBegins(i) \/ Supersede(i)
  \/ RecordImage \/ Full \/ OperationFails \/ ForgetBegins \/ PowerCut

\* The steps that write no flash keep the invariant.
LEMMA QuietStep ==
  ASSUME IInv, Quiet
  PROVE  IInv'
  <1> USE DEF IInv
  <1>1. bank' = bank
    BY DEF Quiet, SaveBegins, Supersede, RecordImage, Full, OperationFails, ForgetBegins, PowerCut
  <1>2. /\ \A b \in Banks : Valid(b)' <=> Valid(b)
        /\ Active' = Active
        /\ \A b \in Banks \cup {NoBank} : TableOf(b)' = TableOf(b)
    BY <1>1, FlashUntouched
  <1>3. OneEntryPerName' /\ Successive'
    BY <1>1, <1>2, NothingNewIsValid
  <1>4. Active \in Banks \cup {NoBank}
    BY ActiveIsValid
  <1>5. TableOf(Active) \in SUBSET Images
    BY <1>4 DEF TableOf, TypeOK, Bank
  <1>6. ASSUME NEW i \in Images, SaveBegins(i) PROVE IInv'
    <2>1. TypeOK'
      BY <1>1, <1>4, <1>5, <1>6 DEF SaveBegins, TypeOK, SaveOps
    <2>2. BeforeMagic'
      BY <1>1, <1>2, <1>6 DEF SaveBegins, BeforeMagic, ClearOps, BuildOps, TableOf
    <2>3. AfterMagic' /\ ForgetOrder'
      BY <1>6 DEF SaveBegins, AfterMagic, ForgetOrder, CommitOps
    <2> QED BY <1>3, <2>1, <2>2, <2>3
  <1>7. ASSUME NEW j \in Images, Supersede(j) PROVE IInv'
    <2>1. TypeOK' /\ op' = "carry" /\ op = "carry" /\ UNCHANGED <<src, table, buf>>
      BY <1>1, <1>7 DEF Supersede, TypeOK, SaveOps
    <2>2. dst' = dst /\ Carried' = Carried /\ TableOf(src)' = TableOf(src)
      BY <1>1, <2>1 DEF dst, Carried, TableOf
    <2>3. table' = Carried' \ left'
      BY <1>7, <2>1, <2>2 DEF Supersede, BeforeMagic, Carried
    <2>4. BeforeMagic'
      BY <1>1, <1>2, <1>7, <2>1, <2>2, <2>3 DEF Supersede, BeforeMagic, ClearOps, BuildOps
    <2>5. AfterMagic' /\ ForgetOrder'
      BY <2>1 DEF AfterMagic, ForgetOrder, CommitOps
    <2> QED BY <1>3, <2>1, <2>4, <2>5
  <1>8. CASE RecordImage
    <2>1. buf \in Images /\ op = "crc" /\ op' = "header" /\ UNCHANGED <<src, left, buf>>
      BY <1>8 DEF RecordImage, BeforeMagic, BuildOps
    <2>2. TypeOK'
      BY <1>1, <1>8, <2>1 DEF RecordImage, TypeOK, SaveOps
    <2>3. dst' = dst /\ Carried' = Carried
      BY <1>1, <2>1 DEF dst, Carried, TableOf
    <2>4. Cardinality(table') <= MaxEntries
      BY <1>8, <2>1, OneMoreEntry DEF RecordImage, BeforeMagic, TypeOK
    <2>5. BeforeMagic'
      BY <1>1, <1>2, <1>8, <2>1, <2>3, <2>4 DEF RecordImage, BeforeMagic, ClearOps, BuildOps
    <2>6. AfterMagic' /\ ForgetOrder'
      BY <2>1 DEF AfterMagic, ForgetOrder, CommitOps
    <2> QED BY <1>3, <2>2, <2>5, <2>6
  <1>9. CASE Full \/ OperationFails \/ ForgetBegins \/ PowerCut
    <2>1. op' \in {"idle", "forget0"}
      BY <1>9 DEF Full, OperationFails, ForgetBegins, PowerCut
    <2>2. TypeOK'
      BY <1>1, <1>9, <2>1
      DEF Full, OperationFails, ForgetBegins, PowerCut, TypeOK, SaveOps, ForgetOps
    <2>3. BeforeMagic' /\ AfterMagic' /\ ForgetOrder'
      BY <2>1 DEF BeforeMagic, AfterMagic, ForgetOrder, ClearOps, BuildOps, CommitOps
    <2> QED BY <1>3, <2>2, <2>3
  <1> QED BY <1>6, <1>7, <1>8, <1>9 DEF Quiet

\* The bank a save builds up is not the active one.
LEMMA ActiveIsTheSource ==
  ASSUME TypeOK, Active = src
  PROVE  /\ src # NoBank => Other(dst) = src /\ Valid(src)
         /\ src = NoBank => ~Valid(0) /\ ~Valid(1)
         /\ TableOf(src) \in SUBSET Images
  <1>1. src # NoBank => Other(dst) = src
    BY OtherBank DEF dst, Banks, NoBank, TypeOK
  <1>2. TableOf(src) \in SUBSET Images
    BY DEF TableOf, TypeOK, Bank
  <1> QED BY <1>1, <1>2, ActiveIsValid

\* Clearing the bank keeps the invariant.
LEMMA ClearStep ==
  ASSUME IInv, ClearBank
  PROVE  IInv' /\ Active' = Active /\ TableOf(Active)' = TableOf(Active)
  <1> USE DEF IInv
  <1>1. op \in ClearOps /\ buf \in Images /\ Active = src /\ dst \in Banks
    BY OtherBank DEF ClearBank, EraseHeader, EraseImages, ClearOps, BeforeMagic
  <1>2. UNCHANGED <<src, table, left, buf>> /\ dst' = dst
    BY DEF ClearBank, EraseHeader, EraseImages, dst
  <1>0. PICK d \in Banks : d = dst
    BY <1>1
  <1>3. /\ bank' \in [Banks -> Bank] /\ bank'[Other(dst)] = bank[Other(dst)]
        /\ ~bank'[dst].magic
    <2>1. CASE EraseHeader(dst, "clear", "clear2")
      BY <1>1, <2>1, HeaderEraseWrites
    <2>2. CASE EraseImages(dst, "clear2", "carry")
      <3>1. op = "clear2"
        BY <2>2 DEF EraseImages
      <3> QED BY <1>1, <2>2, <3>1, ImageEraseWrites DEF BeforeMagic
    <2> QED BY <2>1, <2>2 DEF ClearBank
  <1>4. /\ ~Valid(d)' /\ (Valid(Other(d))' <=> Valid(Other(d)))
        /\ Active' = IF Valid(Other(d)) THEN Other(d) ELSE NoBank
        /\ TableOf(Active)' = IF Valid(Other(d)) THEN TableOf(Other(d)) ELSE {}
    BY <1>0, <1>3, HeaderIsErased
  <1>5. Active' = Active /\ TableOf(Active)' = TableOf(Active)
    <2>1. CASE src = NoBank
      <3>1. ~Valid(Other(d))
        BY <1>0, <1>1, <2>1, ActiveIsTheSource, OtherBank DEF Banks
      <3> QED BY <1>1, <1>4, <2>1, <3>1 DEF TableOf
    <2>2. CASE src # NoBank
      BY <1>0, <1>1, <1>4, <2>2, ActiveIsTheSource
    <2> QED BY <2>1, <2>2
  <1>6. TableOf(src)' = TableOf(src)
    BY <1>1, <1>2, <1>5 DEF TableOf
  <1>7. OneEntryPerName' /\ Successive'
    <2>1. \A b \in Banks : b = d \/ b = Other(d)
      BY OtherBank DEF Banks
    <2>2. \A b \in Banks : Valid(b)' => Valid(b) /\ bank'[b] = bank[b]
      BY <1>0, <1>3, <1>4, <2>1
    <2> QED BY <2>2, NothingNewIsValid
  <1>8. TypeOK'
    BY <1>2, <1>3 DEF ClearBank, EraseHeader, EraseImages, TypeOK, SaveOps
  <1>9. BeforeMagic'
    <2>1. op' \in {"clear2", "carry"} /\ table' = {} /\ left' = TableOf(src)'
      BY <1>1, <1>2, <1>6 DEF ClearBank, EraseHeader, EraseImages, BeforeMagic
    <2>2. Cardinality({}) = 0 /\ 0 <= MaxEntries
      BY FS_EmptySet, StoreAssumption
    <2>3. Cardinality(table') <= MaxEntries
      BY <2>1, <2>2
    <2>4. table' = Carried' \ left'
      BY <2>1 DEF Carried
    <2> QED BY <1>1, <1>2, <1>3, <1>5, <2>1, <2>3, <2>4
        DEF BeforeMagic, ClearOps, BuildOps
  <1>10. AfterMagic' /\ ForgetOrder'
    <2>1. op' \in {"clear2", "carry"}
      BY DEF ClearBank, EraseHeader, EraseImages
    <2> QED BY <2>1 DEF AfterMagic, ForgetOrder, CommitOps
  <1> QED BY <1>5, <1>7, <1>8, <1>9, <1>10

Build == (\E i \in Images : CarryOver(i)) \/ WriteImage \/ WriteHeader

\* Building the new set keeps the invariant and the active bank.
LEMMA BuildStep ==
  ASSUME IInv, Build
  PROVE  IInv' /\ Active' = Active /\ TableOf(Active)' = TableOf(Active)
  <1> USE DEF IInv
  <1>1. op \in {"carry", "header"} /\ op' \in {"carry", "crc", "magic"}
    BY DEF Build, CarryOver, WriteImage, WriteHeader
  <1>2. buf \in Images /\ Active = src /\ dst \in Banks /\ ~bank[dst].magic
    BY <1>1, OtherBank DEF BeforeMagic, BuildOps
  <1>3. UNCHANGED <<src, buf>> /\ dst' = dst
    BY DEF Build, CarryOver, WriteImage, WriteHeader, dst
  <1>4. /\ bank' \in [Banks -> Bank] /\ bank'[Other(dst)] = bank[Other(dst)]
        /\ ~bank'[dst].magic
    <2>1. ASSUME NEW j \in Images, CarryOver(j)
          PROVE  bank' = [bank EXCEPT ![dst].body = @ \cup {j}]
      BY <2>1 DEF CarryOver
    <2>2. CASE WriteImage
      BY <1>2, <2>2, CopyWrites DEF WriteImage
    <2>3. CASE WriteHeader
      BY <1>2, <2>3, HeaderWrites
    <2> QED BY <1>2, <2>1, <2>2, <2>3, CopyWrites DEF Build
  <1>0. PICK d \in Banks : d = dst
    BY <1>2
  <1>5. /\ ~Valid(d)' /\ (Valid(Other(d))' <=> Valid(Other(d)))
        /\ Active' = Active /\ TableOf(Active)' = TableOf(Active)
    BY <1>0, <1>2, <1>4, UnmarkedBankChanges
  <1>6. TableOf(src)' = TableOf(src) /\ Carried' = Carried
    BY <1>2, <1>3, <1>5 DEF TableOf, Carried
  <1>7. OneEntryPerName' /\ Successive'
    <2>1. \A b \in Banks : b = d \/ b = Other(d)
      BY OtherBank DEF Banks
    <2>2. \A b \in Banks : Valid(b)' => Valid(b) /\ bank'[b] = bank[b]
      BY <1>0, <1>4, <1>5, <2>1
    <2> QED BY <2>2, NothingNewIsValid
  <1>8. AfterMagic' /\ ForgetOrder'
    BY <1>1 DEF AfterMagic, ForgetOrder, CommitOps
  <1>9. ASSUME NEW j \in Images, CarryOver(j) PROVE IInv'
    <2>1. /\ op = "carry" /\ op' = "carry" /\ j \in left /\ j.name # buf.name
          /\ Cardinality(table) < MaxEntries
          /\ table' = table \cup {j} /\ left' = left \ {j}
          /\ bank'[dst].body = bank[dst].body \cup {j}
      BY <1>9, CopyWrites DEF CarryOver, HasRoomFor
    <2>2. TypeOK'
      BY <1>3, <1>4, <2>1 DEF TypeOK, SaveOps
    <2>3. Cardinality(table') <= MaxEntries
      BY <2>1, OneMoreEntry DEF TypeOK
    <2>4. j \in Carried /\ table = Carried \ left
      BY <2>1 DEF BeforeMagic, Carried
    <2>5. table' = Carried' \ left'
      BY <1>6, <2>1, <2>4
    <2>6. left' \subseteq TableOf(src)' /\ table' \subseteq bank'[dst].body
      BY <1>6, <2>1 DEF BeforeMagic, BuildOps
    <2>7. BeforeMagic'
      BY <1>2, <1>3, <1>4, <1>5, <2>1, <2>3, <2>5, <2>6 DEF BeforeMagic, ClearOps, BuildOps
    <2> QED BY <1>7, <1>8, <2>2, <2>7
  <1>10. ASSUME WriteImage PROVE IInv'
    <2>1. /\ op = "carry" /\ op' = "crc" /\ left = {}
          /\ Cardinality(table) < MaxEntries
          /\ UNCHANGED <<table, left>>
          /\ bank'[dst].body = bank[dst].body \cup {buf}
      BY <1>2, <1>10, CopyWrites DEF WriteImage, HasRoomFor
    <2>2. TypeOK'
      BY <1>3, <1>4, <2>1 DEF TypeOK, SaveOps
    <2>3. table = Carried /\ table \subseteq bank[dst].body
      BY <2>1 DEF BeforeMagic, BuildOps
    <2>4. Cardinality(table') <= MaxEntries
      BY <2>1, TablesAreFinite, StoreAssumption DEF TypeOK
    <2>5. BeforeMagic'
      BY <1>2, <1>3, <1>4, <1>5, <1>6, <2>1, <2>3, <2>4 DEF BeforeMagic, ClearOps, BuildOps
    <2> QED BY <1>7, <1>8, <2>2, <2>5
  <1>11. ASSUME WriteHeader PROVE IInv'
    <2>1. /\ op = "header" /\ op' = "magic" /\ UNCHANGED <<table, left>>
          /\ bank'[dst].body = bank[dst].body /\ bank'[dst].table = table
          /\ src # NoBank => bank'[dst].seq = NextSeq(bank[src].seq)
      BY <1>11, HeaderWrites DEF WriteHeader
    <2>2. TypeOK'
      BY <1>3, <1>4, <2>1 DEF TypeOK, SaveOps
    <2>3. /\ table = Carried \cup {buf} /\ table \subseteq bank[dst].body
          /\ Cardinality(table) <= MaxEntries
      BY <2>1 DEF BeforeMagic, BuildOps
    <2>4. src # NoBank => bank'[src] = bank[src]
      BY <1>2, <1>4, ActiveIsTheSource
    <2>5. BeforeMagic'
      BY <1>2, <1>3, <1>4, <1>5, <1>6, <2>1, <2>3, <2>4
      DEF BeforeMagic, ClearOps, BuildOps, NextSeq
    <2> QED BY <1>7, <1>8, <2>2, <2>5
  <1> QED BY <1>5, <1>9, <1>10, <1>11 DEF Build

\* The set that was saved before, while it is still in flash.
Shadow == IF Valid(0) /\ Valid(1) THEN TableOf(Other(Active)) ELSE {}

\* The magic makes the new set the active one, in one step.
LEMMA MagicStep ==
  ASSUME IInv, WriteMagic
  PROVE  /\ IInv'
         /\ buf \in Images
         /\ TableOf(Active)' = {j \in TableOf(Active) : j.name # buf.name} \cup {buf}
         /\ Shadow' = TableOf(Active)
  <1> USE DEF IInv
  <1>1. /\ op = "magic" /\ buf \in Images /\ Active = src /\ dst \in Banks
        /\ table = Carried \cup {buf} /\ bank[dst].table = table
        /\ table \subseteq bank[dst].body /\ Cardinality(table) <= MaxEntries
        /\ src # NoBank => bank[dst].seq = NextSeq(bank[src].seq)
    BY OtherBank DEF WriteMagic, BeforeMagic, BuildOps
  <1>2. UNCHANGED <<src, table, left, buf>> /\ dst' = dst
    BY DEF WriteMagic, dst
  <1>3. PICK d \in Banks : d = dst
    BY <1>1
  <1>4. /\ bank' \in [Banks -> Bank] /\ bank'[Other(d)] = bank[Other(d)]
        /\ bank'[d].magic /\ bank'[d].table = bank[d].table
        /\ bank'[d].seq = bank[d].seq /\ bank'[d].body = bank[d].body
    BY <1>3, MagicWrites
  <1>5. TypeOK'
    BY <1>2, <1>4 DEF WriteMagic, TypeOK, SaveOps
  <1>6. Valid(d)' /\ (Valid(Other(d))' <=> Valid(Other(d)))
    BY <1>1, <1>3, <1>4 DEF Valid
  <1>7. src # NoBank => Other(d) = src /\ Valid(src) /\ src \in Banks
    BY <1>1, <1>3, ActiveIsTheSource DEF TypeOK
  <1>8. src = NoBank => ~Valid(0) /\ ~Valid(1)
    BY <1>1, ActiveIsTheSource
  <1>9. Active' = d
    <2>1. CASE src = NoBank
      <3>1. ~Valid(Other(d))'
        BY <1>6, <1>8, <2>1, OtherBank DEF Banks
      <3> QED BY <1>6, <3>1, OtherBank DEF Active, Banks
    <2>2. CASE src # NoBank
      <3>1. bank[src].seq \in 0 .. SeqMod - 1
        BY <1>7, <2>2 DEF TypeOK, Bank
      <3>2. bank'[src].seq = bank[src].seq /\ bank'[d].seq = NextSeq(bank[src].seq)
        BY <1>1, <1>3, <1>4, <1>7, <2>2
      <3>3. Newer(bank'[d].seq, bank'[src].seq) /\ ~Newer(bank'[src].seq, bank'[d].seq)
        BY <3>1, <3>2, SuccessorIsNewer
      <3>4. Valid(0)' /\ Valid(1)'
        BY <1>6, <1>7, <2>2, OtherBank DEF Banks
      <3>5. CASE d = 0
        BY <1>7, <2>2, <3>3, <3>4, <3>5, OtherBank DEF Active
      <3>6. CASE d = 1
        BY <1>7, <2>2, <3>3, <3>4, <3>6, OtherBank DEF Active
      <3> QED BY <3>5, <3>6 DEF Banks
    <2> QED BY <2>1, <2>2
  <1>10. TableOf(Active)' = Carried \cup {buf}
    BY <1>1, <1>3, <1>4, <1>9 DEF TableOf, Banks, NoBank
  <1>11. Carried = {j \in TableOf(Active) : j.name # buf.name}
    BY <1>1 DEF Carried
  <1>12. OneEntryPerName'
    <2>1. SUFFICES ASSUME NEW b \in Banks, Valid(b)',
                          NEW i \in bank'[b].table, NEW j \in bank'[b].table,
                          i.name = j.name
                   PROVE  i = j
      BY DEF OneEntryPerName
    <2>2. CASE b = d
      <3>1. i \in Carried \cup {buf} /\ j \in Carried \cup {buf}
        BY <1>1, <1>3, <1>4, <2>2
      <3>2. CASE i \in Carried /\ j \in Carried
        <4>1. src # NoBank /\ i \in bank[src].table /\ j \in bank[src].table
          BY <3>2 DEF Carried, TableOf
        <4> QED BY <1>7, <2>1, <4>1 DEF OneEntryPerName
      <3> QED BY <2>1, <3>1, <3>2 DEF Carried
    <2>3. CASE b = Other(d)
      BY <1>4, <1>6, <2>1, <2>3 DEF OneEntryPerName
    <2> QED BY <2>2, <2>3, OtherBank DEF Banks
  <1>13. Successive'
    <2>1. CASE src = NoBank
      <3>1. ~Valid(Other(d))'
        BY <1>6, <1>8, <2>1, OtherBank DEF Banks
      <3> QED BY <3>1, OtherBank DEF Successive, Banks
    <2>2. CASE src # NoBank
      <3>1. bank'[d].seq = NextSeq(bank'[Other(d)].seq)
        BY <1>1, <1>3, <1>4, <1>7, <2>2
      <3> QED BY <3>1 DEF Successive, NextSeq, Other
    <2> QED BY <2>1, <2>2
  <1>14. AfterMagic'
    <2>1. op' \in {"idle", "old"} /\ (op' = "old" => src \in Banks)
      BY <1>7 DEF WriteMagic
    <2> QED BY <1>1, <1>2, <1>3, <1>4, <1>6, <1>9, <2>1 DEF AfterMagic, CommitOps
  <1>15. BeforeMagic' /\ ForgetOrder'
    BY DEF WriteMagic, BeforeMagic, ForgetOrder, ClearOps, BuildOps
  <1>16. Shadow' = TableOf(Active)
    <2>1. CASE src = NoBank
      <3>1. ~Valid(Other(d))'
        BY <1>6, <1>8, <2>1, OtherBank DEF Banks
      <3> QED BY <1>1, <2>1, <3>1, OtherBank DEF Shadow, TableOf, Banks
    <2>2. CASE src # NoBank
      <3>1. Valid(0)' /\ Valid(1)'
        BY <1>6, <1>7, <2>2, OtherBank DEF Banks
      <3>2. Other(Active)' = src
        BY <1>7, <1>9, <2>2 DEF Other
      <3> QED BY <1>1, <1>4, <1>7, <2>2, <3>1, <3>2 DEF Shadow, TableOf
    <2> QED BY <2>1, <2>2
  <1> QED BY <1>1, <1>5, <1>10, <1>11, <1>12, <1>13, <1>14, <1>15, <1>16

\* An erase takes what is shadowed, or what is saved while the older set is
\* still there.
LEMMA ErasedBank ==
  ASSUME IInv, NEW b \in Banks, bank' \in [Banks -> Bank],
         bank'[Other(b)] = bank[Other(b)], ~bank'[b].magic
  PROVE  /\ OneEntryPerName' /\ Successive'
         /\ Shadow' = {}
         /\ Active # b => Active' = Active /\ TableOf(Active)' = TableOf(Active)
         /\ Active = b => TableOf(Active)' = Shadow
  <1>1. /\ ~Valid(b)' /\ (Valid(Other(b))' <=> Valid(Other(b)))
        /\ Active' = IF Valid(Other(b)) THEN Other(b) ELSE NoBank
        /\ TableOf(Active)' = IF Valid(Other(b)) THEN TableOf(Other(b)) ELSE {}
    BY HeaderIsErased
  <1>2. \A c \in Banks : c = b \/ c = Other(b)
    BY OtherBank DEF Banks
  <1>3. OneEntryPerName' /\ Successive'
    <2>1. \A c \in Banks : Valid(c)' => Valid(c) /\ bank'[c] = bank[c]
      BY <1>1, <1>2
    <2> QED BY <2>1, NothingNewIsValid DEF IInv
  <1>4. Shadow' = {}
    BY <1>1, <1>2 DEF Shadow, Banks
  <1>5. ASSUME Active # b
        PROVE  Active' = Active /\ TableOf(Active)' = TableOf(Active)
    <2>1. CASE Active = NoBank
      <3>1. ~Valid(Other(b))
        BY <2>1, ActiveIsValid, OtherBank DEF Banks
      <3> QED BY <1>1, <2>1, <3>1 DEF TableOf
    <2>2. CASE Active # NoBank
      <3>1. Active = Other(b) /\ Valid(Other(b))
        BY <1>2, <1>5, <2>2, ActiveIsValid
      <3> QED BY <1>1, <3>1
    <2> QED BY <2>1, <2>2
  <1>6. ASSUME Active = b
        PROVE  TableOf(Active)' = Shadow
    <2>1. Valid(b)
      BY <1>6, ActiveIsValid DEF Banks, NoBank
    <2>2. Valid(0) /\ Valid(1) <=> Valid(Other(b))
      BY <2>1, OtherBank DEF Banks
    <2> QED BY <1>1, <1>6, <2>2 DEF Shadow
  <1> QED BY <1>3, <1>4, <1>5, <1>6

\* Erasing the old bank keeps the invariant and the saved set.
LEMMA OldStep ==
  ASSUME IInv, EraseOld
  PROVE  IInv' /\ TableOf(Active)' = TableOf(Active) /\ Shadow' = {}
  <1> USE DEF IInv
  <1>1. /\ op \in CommitOps /\ op' \in {"old2", "idle"}
        /\ src \in Banks /\ Valid(dst) /\ Active = dst /\ buf \in bank[dst].table
    BY DEF EraseOld, EraseHeader, EraseImages, CommitOps, AfterMagic
  <1>2. UNCHANGED <<src, table, left, buf>> /\ dst' = dst
    BY DEF EraseOld, EraseHeader, EraseImages, dst
  <1>3. PICK s \in Banks : s = src
    BY <1>1
  <1>4. /\ bank' \in [Banks -> Bank] /\ bank'[Other(s)] = bank[Other(s)]
        /\ ~bank'[s].magic
    <2>1. CASE EraseHeader(src, "old", "old2")
      BY <1>3, <2>1, HeaderEraseWrites
    <2>2. CASE EraseImages(src, "old2", "idle")
      <3>1. ~bank[src].magic
        BY <2>2 DEF EraseImages, AfterMagic
      <3> QED BY <1>3, <2>2, <3>1, ImageEraseWrites
    <2> QED BY <2>1, <2>2 DEF EraseOld
  <1>5. Active # s /\ Other(s) = dst
    BY <1>1, <1>3, OtherBank DEF dst
  <1>6. /\ OneEntryPerName' /\ Successive' /\ Shadow' = {}
        /\ Active' = Active /\ TableOf(Active)' = TableOf(Active)
    BY <1>4, <1>5, ErasedBank
  <1>7. TypeOK'
    BY <1>1, <1>2, <1>4 DEF TypeOK, SaveOps
  <1>8. AfterMagic'
    <2>1. Valid(Other(s))'
      BY <1>1, <1>4, <1>5 DEF Valid
    <2>2. Valid(dst)' /\ buf' \in bank'[dst'].table
      BY <1>1, <1>2, <1>4, <1>5, <2>1 DEF Valid
    <2> QED BY <1>1, <1>2, <1>3, <1>4, <1>6, <2>2 DEF AfterMagic, CommitOps
  <1>9. BeforeMagic' /\ ForgetOrder'
    BY <1>1 DEF BeforeMagic, ForgetOrder, ClearOps, BuildOps
  <1> QED BY <1>6, <1>7, <1>8, <1>9

\* A forget keeps the invariant and exposes no more than the older set.
LEMMA ForgetStep ==
  ASSUME IInv, Forget
  PROVE  /\ IInv' /\ Shadow' = {}
         /\ TableOf(Active)' \in {TableOf(Active), Shadow}
         /\ op \in ForgetOps /\ op' \in ForgetOps \cup {"idle"}
         /\ op' = "idle" => TableOf(Active)' = TableOf(Active)
  <1> USE DEF IInv
  <1>1. op \in ForgetOps /\ op' \in {"forget0b", "forget1", "forget1b", "idle"}
    BY DEF Forget, EraseHeader, EraseImages, ForgetOps
  <1>2. UNCHANGED <<src, table, left, buf>>
    BY DEF Forget, EraseHeader, EraseImages
  <1> DEFINE Erased(b) ==
        /\ bank' \in [Banks -> Bank] /\ bank'[Other(b)] = bank[Other(b)]
        /\ ~bank'[b].magic
  <1>3. /\ OneEntryPerName' /\ Successive' /\ Shadow' = {}
        /\ TableOf(Active)' \in {TableOf(Active), Shadow}
        /\ op' = "idle" => TableOf(Active)' = TableOf(Active)
        /\ bank' \in [Banks -> Bank]
        /\ ForgetOrder'
    <2>1. CASE EraseHeader(0, "forget0", "forget0b") \/ EraseImages(0, "forget0b", "forget1")
      <3>1. Erased(0)
        <4>1. 0 \in Banks
          BY DEF Banks
        <4>2. EraseImages(0, "forget0b", "forget1") => ~bank[0].magic
          BY DEF EraseImages, ForgetOrder
        <4> QED BY <2>1, <4>1, <4>2, HeaderEraseWrites, ImageEraseWrites
      <3>2. op' \in {"forget0b", "forget1"}
        BY <2>1 DEF EraseHeader, EraseImages
      <3> QED BY <3>1, <3>2, ErasedBank DEF ForgetOrder, Banks
    <2>2. CASE EraseHeader(1, "forget1", "forget1b") \/ EraseImages(1, "forget1b", "idle")
      <3>1. op \in {"forget1", "forget1b"} /\ op' \in {"forget1b", "idle"} /\ ~bank[0].magic
        BY <2>2 DEF EraseHeader, EraseImages, ForgetOrder
      <3>2. Erased(1)
        <4>1. 1 \in Banks
          BY DEF Banks
        <4>2. EraseImages(1, "forget1b", "idle") => ~bank[1].magic
          BY DEF EraseImages, ForgetOrder
        <4> QED BY <2>2, <4>1, <4>2, HeaderEraseWrites, ImageEraseWrites
      <3>3. op' = "idle" => ~bank[1].magic
        BY <2>2 DEF EraseHeader, EraseImages, ForgetOrder
      <3>4. op' = "idle" => Active # 1
        BY <3>3, ActiveIsValid DEF Valid, Banks, NoBank
      <3>5. ~bank'[0].magic
        BY <3>1, <3>2, OtherBank
      <3>6. 1 \in Banks
        BY DEF Banks
      <3> QED BY <3>1, <3>2, <3>4, <3>5, <3>6, ErasedBank DEF ForgetOrder
    <2> QED BY <2>1, <2>2 DEF Forget
  <1>4. TypeOK'
    BY <1>1, <1>2, <1>3 DEF TypeOK, ForgetOps
  <1>5. BeforeMagic' /\ AfterMagic'
    BY <1>1 DEF BeforeMagic, AfterMagic, ClearOps, BuildOps, CommitOps
  <1>6. op' \in ForgetOps \cup {"idle"}
    BY <1>1 DEF ForgetOps
  <1> QED BY <1>1, <1>3, <1>4, <1>5, <1>6

-----------------------------------------------------------------------------
(* The theorems *)

\* The store starts in the invariant: nothing is saved.
LEMMA InitialStore == Init => IInv
  <1> SUFFICES ASSUME Init PROVE IInv
    OBVIOUS
  <1>1. bank \in [Banks -> Bank] /\ ~Valid(0) /\ ~Valid(1)
    BY StoreAssumption DEF Init, Bank, Valid, Banks
  <1>2. TypeOK
    BY <1>1 DEF Init, TypeOK
  <1>3. OneEntryPerName /\ Successive
    BY <1>1 DEF OneEntryPerName, Successive, Banks
  <1>4. BeforeMagic /\ AfterMagic /\ ForgetOrder
    BY DEF Init, BeforeMagic, AfterMagic, ForgetOrder, ClearOps, BuildOps, CommitOps
  <1> QED BY <1>2, <1>3, <1>4 DEF IInv

\* Every step keeps the invariant.
LEMMA StoreStep == IInv /\ [Next]_vars => IInv'
  <1> SUFFICES ASSUME IInv, [Next]_vars PROVE IInv'
    OBVIOUS
  <1>1. CASE UNCHANGED vars
    BY <1>1 DEF vars, IInv, TypeOK, OneEntryPerName, Successive, BeforeMagic, AfterMagic,
                ForgetOrder, Valid, Active, TableOf, Carried, dst
  <1>2. CASE Quiet
    BY <1>2, QuietStep
  <1>3. CASE ClearBank
    BY <1>3, ClearStep
  <1>4. CASE Build
    BY <1>4, BuildStep
  <1>5. CASE WriteMagic
    BY <1>5, MagicStep
  <1>6. CASE EraseOld
    BY <1>6, OldStep
  <1>7. CASE Forget
    BY <1>7, ForgetStep
  <1> QED BY <1>1, <1>2, <1>3, <1>4, <1>5, <1>6, <1>7 DEF Next, Quiet, Build

\* IInv is an invariant of the store.
THEOREM StoreInvariant == Spec => []IInv
  <1> QED BY InitialStore, StoreStep, PTL DEF Spec

\* The variables keep their types, the sequence number its width included.
THEOREM StoreTypes == Spec => []TypeOK
  <1>1. IInv => TypeOK
    BY DEF IInv
  <1> QED BY <1>1, StoreInvariant, PTL

\* persist.h:30-32: no boot brings one name up twice.
THEOREM NamesStaySingle == Spec => []OneEntryPerName
  <1>1. IInv => OneEntryPerName
    BY DEF IInv
  <1> QED BY <1>1, StoreInvariant, PTL

\* board_persist.c:58-61: the sequence number tells the new bank from the old
\* one, whatever the width it wraps round at, and a save never works on the
\* bank that a boot would read.
THEOREM NewBankAlwaysWins == Spec => []NewBankWins
  <1>1. ASSUME IInv PROVE NewBankWins
    <2> USE <1>1 DEF IInv
    <2>1. ASSUME Valid(0), Valid(1)
          PROVE  bank[Active].seq = NextSeq(bank[Other(Active)].seq)
      <3>1. PICK b \in Banks : bank[b].seq = NextSeq(bank[Other(b)].seq)
        BY <2>1 DEF Successive
      <3>2. Active = b
        BY <2>1, <3>1, LaterBankIsActive
      <3> QED BY <3>1, <3>2
    <2>2. op \in {"clear2", "carry", "crc", "header", "magic"} =>
            Active = src /\ ~bank[dst].magic
      BY DEF BeforeMagic, ClearOps, BuildOps
    <2>3. op \in {"old", "old2"} => Active = dst /\ buf \in bank[dst].table
      BY DEF AfterMagic, CommitOps
    <2> QED BY <2>1, <2>2, <2>3 DEF NewBankWins
  <1> QED BY <1>1, StoreInvariant, PTL

\* persist.h:40-44: while a save runs, at any of its flash operations, a good
\* set is in flash, unless the store was empty.
THEOREM ASetAlwaysSurvives == Spec => []ASetSurvives
  <1>1. ASSUME IInv PROVE ASetSurvives
    <2>1. SUFFICES ASSUME op \in SaveOps, src # NoBank PROVE Active # NoBank
      BY DEF ASetSurvives
    <2>2. CASE op \in ClearOps \cup BuildOps
      BY <1>1, <2>1, <2>2 DEF IInv, BeforeMagic
    <2>3. CASE op \in CommitOps
      BY <1>1, <2>3, OtherBank DEF IInv, AfterMagic, Banks, NoBank
    <2> QED BY <2>1, <2>2, <2>3 DEF SaveOps, ClearOps, BuildOps, CommitOps
  <1> QED BY <1>1, StoreInvariant, PTL

\* What the promise sees of the store.
Busy == IF op \in SaveOps THEN "save" ELSE IF op \in ForgetOps THEN "forget" ELSE "no"
Seen == <<TableOf(Active), Shadow, Busy>>

\* Every step of the flash store is a step of its promise or shows nothing of
\* it.
LEMMA StepIsPromised ==
  ASSUME IInv, [Next]_vars
  PROVE  [Promise!Next]_Seen
  <1>0. Busy' \in {"no", "save", "forget"}
    BY DEF Busy
  <1>1. ASSUME bank' = bank PROVE [Promise!Next]_Seen
    <2>1. Active' = Active /\ TableOf(Active)' = TableOf(Active) /\ Shadow' = Shadow
      <3>1. /\ \A b \in Banks : Valid(b)' <=> Valid(b)
            /\ Active' = Active
            /\ \A b \in Banks \cup {NoBank} : TableOf(b)' = TableOf(b)
        BY <1>1, FlashUntouched
      <3> QED BY <1>1, <3>1, ActiveIsValid DEF Shadow, TableOf, Banks
    <2> QED BY <1>0, <2>1 DEF Promise!Next, Promise!Call, Shadow, Busy
  <1>2. CASE UNCHANGED vars \/ Quiet
    <2>1. bank' = bank
      BY <1>2 DEF vars, Quiet, SaveBegins, Supersede, RecordImage, Full, OperationFails,
                  ForgetBegins, PowerCut
    <2> QED BY <1>1, <2>1
  <1>3. CASE ClearBank
    <2>1. TableOf(Active)' = TableOf(Active) /\ Busy = "save" /\ Busy' = "save"
      BY <1>3, ClearStep DEF ClearBank, EraseHeader, EraseImages, Busy, SaveOps
    <2>2. Shadow' = {}
      <3>1. ~bank'[dst'].magic /\ dst' \in Banks
        BY <1>3, ClearStep, OtherBank DEF ClearBank, EraseHeader, EraseImages, IInv,
           BeforeMagic, BuildOps, dst, Other, Banks
      <3> QED BY <3>1 DEF Shadow, Valid, Banks
    <2> QED BY <2>1, <2>2 DEF Promise!Next, Promise!Settle, Shadow, Busy
  <1>4. CASE Build
    <2>1. /\ TableOf(Active)' = TableOf(Active)
          /\ op \in {"carry", "header"} /\ op' \in {"carry", "crc", "magic"}
          /\ dst' = dst
      BY <1>4, BuildStep DEF Build, CarryOver, WriteImage, WriteHeader, dst
    <2>2. ~bank[dst].magic /\ ~bank'[dst'].magic /\ dst \in Banks
      BY <1>4, <2>1, BuildStep, OtherBank DEF IInv, BeforeMagic, BuildOps
    <2>3. Shadow' = {} /\ Shadow = {}
      BY <2>1, <2>2 DEF Shadow, Valid, Banks
    <2>4. Busy = "save" /\ Busy' = "save"
      BY <2>1 DEF Busy, SaveOps
    <2> QED BY <2>1, <2>3, <2>4 DEF Promise!Next, Promise!Settle, Shadow, Busy
  <1>5. CASE WriteMagic
    <2>1. Busy = "save" /\ Busy' \in {"no", "save"}
      BY <1>5 DEF WriteMagic, Busy, SaveOps, ForgetOps
    <2>2. Promise!Commit(buf)
      BY <1>5, <2>1, MagicStep DEF Promise!Commit, Shadow, Busy
    <2> QED BY <1>5, <2>2, MagicStep DEF Promise!Next
  <1>6. CASE EraseOld
    <2>1. Busy = "save" /\ Busy' \in {"no", "save"}
      BY <1>6 DEF EraseOld, EraseHeader, EraseImages, Busy, SaveOps, ForgetOps
    <2> QED BY <1>6, <2>1, OldStep DEF Promise!Next, Promise!Settle, Shadow, Busy
  <1>7. CASE Forget
    <2>1. /\ Shadow' = {} /\ TableOf(Active)' \in {TableOf(Active), Shadow}
          /\ op \in ForgetOps /\ op' \in ForgetOps \cup {"idle"}
      BY <1>7, ForgetStep
    <2>2. Busy = "forget" /\ Busy' \in {"no", "forget"}
      BY <2>1 DEF Busy, SaveOps, ForgetOps
    <2> QED BY <2>1, <2>2 DEF Promise!Next, Promise!Settle, Promise!Expose, Shadow, Busy
  <1> QED BY <1>2, <1>3, <1>4, <1>5, <1>6, <1>7 DEF Next, Quiet, Build

\* The flash store implements its promise: a save takes effect in one step, at
\* any failure and at any power cut.
THEOREM StoreKeepsItsPromise == Spec => SavesAreAtomic
  <1>1. Init => Promise!Init
    <2>1. ASSUME Init PROVE ~Valid(0) /\ ~Valid(1) /\ op = "idle"
      BY <2>1 DEF Init, Valid, Banks
    <2> QED BY <2>1 DEF Promise!Init, Active, TableOf, SaveOps, ForgetOps
  <1>2. ASSUME IInv, [Next]_vars PROVE [Promise!Next]_Seen
    BY <1>2, StepIsPromised
  <1> QED BY <1>1, <1>2, StoreInvariant, PTL
      DEF Spec, SavesAreAtomic, Promise!Spec, Seen, Shadow, Busy

=============================================================================
