------------------------------ MODULE Formats ------------------------------
(***************************************************************************)
(* What is written around the data of an archive, as sequences of bytes:   *)
(* the CRC (crc.cpp), the terminator that tells from the end of the file   *)
(* where the catalogue is (terminateur.cpp), the elastic buffers that hide *)
(* the size of what is encrypted (elastic.cpp), typed values (tlv.cpp,     *)
(* tlv_list.cpp), the header of a slice (header.cpp) and the one of the    *)
(* archive (header_version.hpp, archive_version.cpp).                      *)
(***************************************************************************)
EXTENDS Numbers, FiniteSetsExt

CONSTANTS BlockSize,   \* BLOCK_SIZE of a terminator
          Single,      \* SINGLE_MARK
          IntWidth,    \* bytes of the size of an elastic buffer
          LabelSize, MagicSize,
          Zero,        \* the character zero
          Dro,         \* three characters a database of old begins with
          OffsetFlag,  \* VERSION_FLAG_INITIAL_OFFSET
          Widths,      \* CRCs to compute
          DataSize,    \* bytes they are computed of
          Pieces,      \* sizes of the pieces these come in
          Inputs       \* what to write

VARIABLES crc,         \* a CRC being computed
          crc_size,    \* its width
          computed,    \* the bytes it was given
          input,       \* what is written
          bytes,       \* the file
          step,        \* "asked", "written", "cut", "changed" or "read"
          got          \* what was read

crcVars == <<crc, crc_size, computed>>
fileVars == <<input, bytes, step, got>>

\* What a read gives, and what is left to read.
Got(v, rest) == [ok |-> TRUE, v |-> v, rest |-> rest]
Fail == [ok |-> FALSE, v |-> <<>>, rest |-> <<>>]
After(f, n) == SubSeq(f, n + 1, Len(f))
Take(f, n) == IF Len(f) < n THEN Fail ELSE Got(SubSeq(f, 1, n), After(f, n))
Then(r, Next(_, _)) == IF r.ok THEN Next(r.v, r.rest) ELSE Fail
ReadNumber(f) ==
  LET Number(build) == Got(Value(build.number), After(f, build.used))
  IN IF IsNumber(f) THEN Number(BuildFromFile(f)) ELSE Fail
WriteNumber(n) == Dump(From(n))

-----------------------------------------------------------------------------
(* A CRC is the data, cut in pieces of its width, added bit by bit. *)

NewCrc(width) == [cyclic |-> Zeros(width), pointer |-> 0]

\* Bytes that do not go past the end; the pointer comes back there.
Xored(c, block) ==
  [cyclic |-> [i \in DOMAIN c.cyclic |-> IF i - c.pointer \in DOMAIN block
                                         THEN c.cyclic[i] ^^ block[i - c.pointer] ELSE c.cyclic[i]],
   pointer |-> IF c.pointer + Len(block) = Len(c.cyclic) THEN 0 ELSE c.pointer + Len(block)]
\* B_compute_block, and T_compute for blocks of one byte.
Blocks(c, buffer, size) ==
  LET done[k \in 0..(Len(buffer) \div size)] ==
        IF k = 0 THEN c ELSE Xored(done[k - 1], SubSeq(buffer, (k - 1) * size + 1, k * size))
  IN done[Len(buffer) \div size]

\* Faulty: the pointer is not looked at before blocks are used.
ComputeUnaligned(c, buffer, address) ==
  LET width == Len(c.cyclic)
      wide == {b \in {2, 4, 8} : (width % b) = 0 /\ (address % b) = 0}
      size == Max({1} \cup wide)
      begun == IF wide = {} THEN c ELSE Blocks([c EXCEPT !.pointer = 0], buffer, size)
  IN Blocks(begun, After(buffer, IF wide = {} THEN 0 ELSE Len(buffer) - (Len(buffer) % size)), 1)
\* n_compute: bytes up to the end of the field, blocks as wide as the field
\* and the address allow, and the bytes that are left.
Compute(c, buffer, address) ==
  LET width == Len(c.cyclic)
      initial == IF c.pointer = 0 THEN 0 ELSE Min({width - c.pointer, Len(buffer)})
      begun == Xored(c, SubSeq(buffer, 1, initial))
      left == After(buffer, initial)
      wide == {b \in {2, 4, 8} : (width % b) = 0 /\ ((address + initial) % b) = 0}
      size == Max({1} \cup wide)
      blocks == IF begun.pointer = 0 /\ wide # {} THEN Len(left) - (Len(left) % size) ELSE 0
  IN Blocks(Blocks(begun, SubSeq(left, 1, blocks), size), After(left, blocks), 1)
\* crc_i, of a width that a machine integer may not hold.
ComputeAny(c, buffer) == Blocks(c, buffer, 1)
ComputeAt(c, offset, buffer, address) ==
  Compute([c EXCEPT !.pointer = offset % Len(c.cyclic)], buffer, address)
Crc(width, data) == ComputeAny(NewCrc(width), data).cyclic

CrcDump(cyclic) == WriteNumber(Len(cyclic)) \o cyclic
\* How much could be read of the field is not looked at: the rest of it is what
\* the memory held.
CrcRead(f, memory) ==
  LET width == ReadNumber(f)
      Byte(i) == IF i <= Len(width.rest) THEN width.rest[i] ELSE memory
  IN IF ~width.ok \/ width.v = 0 THEN Fail
     ELSE Got([i \in 1..width.v |-> Byte(i)], After(width.rest, width.v))


\* The data a CRC is computed of: some bytes that are not the same.
Data == [i \in 1..DataSize |-> (i * i + i \div 3) % Radix]
CrcInit == crc_size \in Widths /\ crc = NewCrc(crc_size) /\ computed = {}

\* The next bytes, at any address of the memory.
ComputeNext(n, address) ==
  LET at == Cardinality(computed)
  IN /\ computed = 1..at /\ at + n <= DataSize /\ crc.pointer = at % crc_size
     /\ crc' = Compute(crc, SubSeq(Data, at + 1, at + n), address)
     /\ computed' = 1..(at + n) /\ UNCHANGED crc_size
\* Bytes that tell their offset, in any order.
ComputePiece(offset, n, address) ==
  LET piece == (offset + 1)..(offset + n)
  IN /\ piece \subseteq (1..DataSize) \ computed
     /\ crc' = ComputeAt(crc, offset, SubSeq(Data, offset + 1, offset + n), address)
     /\ computed' = computed \cup piece /\ UNCHANGED crc_size
CrcNext == \E n \in Pieces, address \in {0, 1, 2, 4} :
             ComputeNext(n, address) \/ \E k \in 0..2 : ComputePiece(5 * k, n, address)

\* Whatever the pieces the data comes in, their order and wherever these are in
\* memory, a CRC is the sum of the bytes that have the same place in its width,
\* as a CRC of any width computes it byte by byte.
CrcIsOfThePosition ==
  LET Cell(i) == FoldSet(LAMBDA k, sum : Data[k] ^^ sum, 0, {k \in computed : (k % crc_size) = (i % crc_size)})
  IN /\ crc.cyclic = [i \in 1..crc_size |-> Cell(i)]
     /\ computed = 1..Cardinality(computed) => crc.cyclic = Crc(crc_size, SubSeq(Data, 1, Cardinality(computed)))

-----------------------------------------------------------------------------
(* What is asked for is written, the file may be cut or changed, and is read. *)

Dumps(kind, file) == step = "asked" /\ input.kind = kind /\ step' = "written" /\ bytes' = file /\ UNCHANGED <<input, got>>
Reads(kind, v) == /\ step \in {"written", "cut", "changed"} /\ input.kind = kind
                  /\ step' = "read" /\ got' = [from |-> step, v |-> v] /\ UNCHANGED <<input, bytes>>
Cut == /\ step = "written" /\ step' = "cut" /\ UNCHANGED <<input, got>>
       /\ \E k \in 0..(Len(bytes) - 1) : bytes' = SubSeq(bytes, 1, k)
Change(i) == /\ step = "written" /\ step' = "changed" /\ UNCHANGED <<input, got>>
             /\ \E byte \in (0..(Radix - 1)) \ {bytes[i]} : bytes' = [bytes EXCEPT ![i] = byte]
Result(kind) == step = "read" /\ input.kind = kind

DumpCrc == Dumps("crc", CrcDump(input.cyclic))
ReadCrc == Reads("crc", CrcRead(bytes \o input.tail, input.memory))

-----------------------------------------------------------------------------
(* terminateur: a bit for each block the position takes, from the end. *)

Leading(n) == Radix - 2^(BitsOfAByte - n)
TerminateurDump(pos) ==
  LET size == Len(WriteNumber(pos))
      padding == IF (size % BlockSize) = 0 THEN 0 ELSE BlockSize - (size % BlockSize)
      nbbit == (size + padding) \div BlockSize
      last_byte == nbbit % BitsOfAByte
  IN WriteNumber(pos) \o Zeros(padding)
     \o <<IF last_byte = 0 THEN 0 ELSE Leading(last_byte)>>
     \o [i \in 1..(nbbit \div BitsOfAByte) |-> Radix - 1]

\* The file ends where the terminator does.
ReadCatalogue(f) ==
  LET others == {i \in DOMAIN f : f[i] # Radix - 1}
      at == Max(others)
      bits == CHOOSE n \in 0..BitsOfAByte : f[at] = Leading(n)
      t_start == at - 1 - ((Len(f) - at) * BitsOfAByte + bits) * BlockSize
  IN IF others = {} THEN Fail
     ELSE IF f[at] \notin {Leading(n) : n \in 1..BitsOfAByte} \cup {0} THEN Fail
     ELSE IF t_start < 0 THEN Fail
     ELSE LET pos == ReadNumber(After(f, t_start))
          IN IF pos.ok THEN Got([pos |-> pos.v, t_start |-> t_start], <<>>) ELSE Fail

DumpTerminateur == Dumps("terminateur", input.before \o TerminateurDump(input.pos))
ReadTerminateur == Reads("terminateur", ReadCatalogue(bytes))

-----------------------------------------------------------------------------
(* elastic: two marks around its own size, in a base that leaves them out. *)

LowMark == Radix - 1
HighMark == Radix - 2
Base == Radix - 2
MaxLength == Base^IntWidth - 1

\* The lowest digit comes first, be it that the function says the contrary.
Digits(taille) ==
  LET n == CHOOSE k \in 1..(taille + 1) : taille < Base^k /\ (k = 1 \/ taille >= Base^(k - 1))
  IN [i \in 1..n |-> (taille \div Base^(i - 1)) % Base]

\* Where marks are, and the other bytes, are drawn; randomize leaves marks out.
Filler == 0..(Radix - 1) \ {Single, LowMark, HighMark}
Places(taille) ==
  LET len == IF taille > 2 THEN Len(Digits(taille)) ELSE 0
  IN IF len + 2 < taille THEN 0..(taille - len - 3) ELSE {0}
ElasticDump(taille, cur, filler) ==
  LET core == <<LowMark>> \o Digits(taille) \o <<HighMark>>
  IN CASE taille = 1 -> <<Single>>
       [] taille = 2 -> <<LowMark, HighMark>>
       [] OTHER -> [i \in 1..cur |-> filler] \o core \o [i \in 1..(taille - cur - Len(core)) |-> filler]

\* The bytes as they are met, forward or backward.
Size(met, forward) ==
  LET first_mark == IF forward THEN LowMark ELSE HighMark
      last_mark == IF forward THEN HighMark ELSE LowMark
      begins == {i \in DOMAIN met : met[i] \in {Single, first_mark}}
      begin == Min(begins)
      ends == {i \in DOMAIN met : i > begin /\ met[i] = last_mark}
      n == Min(ends) - begin - 1
      taille == FoldSet(LAMBDA k, sum : sum + met[begin + k] * Base^(IF forward THEN k - 1 ELSE n - k), 0, 1..n)
  IN IF begins = {} THEN Fail
     ELSE IF met[begin] = Single THEN (IF begin = 1 THEN Got(1, <<>>) ELSE Fail)
     ELSE IF ends = {} \/ n > IntWidth THEN Fail
     ELSE IF n = 0 THEN Got(2, After(met, Min(ends)))
     ELSE IF taille < 3 THEN Fail ELSE Got(taille, After(met, Min(ends)))
ReadElastic(met, forward) ==
  LET size == Size(met, forward)
      count == Len(met) - Len(size.rest)
  IN IF ~size.ok THEN Fail
     ELSE IF size.v = 1 THEN Got(1, After(met, 1))
     ELSE IF count > size.v THEN Fail
     ELSE Got(size.v, After(met, Min({size.v, Len(met)})))

\* Read from one of its ends, with something else at the other.
DumpBuffer == /\ input.kind = "elastic"
              /\ \E cur \in Places(input.taille), filler \in {0, Max(Filler)} :
                   (cur < 2 \/ cur = Max(Places(input.taille))) /\ Dumps("elastic", ElasticDump(input.taille, cur, filler))
ReadBuffer(forward, other) ==
  LET met == IF forward THEN bytes ELSE [i \in DOMAIN bytes |-> bytes[Len(bytes) + 1 - i]]
  IN Reads("elastic", [size |-> Size(met, forward), over |-> ReadElastic(met \o other, forward), other |-> other])

-----------------------------------------------------------------------------
(* tlv: a type on two bytes, a length and as many bytes. *)

TlvWrite(t) == <<t.type \div Radix, t.type % Radix>> \o WriteNumber(Len(t.value)) \o t.value
ReadTlv(f) ==
  Then(Take(f, 2), LAMBDA type, f1 :
    Then(ReadNumber(f1), LAMBDA length, f2 :
      Then(Take(f2, length), LAMBDA value, f3 : Got([type |-> Value(type), value |-> value], f3))))

TlvListDump(list) ==
  LET dump[i \in 0..Len(list)] == IF i = 0 THEN WriteNumber(Len(list)) ELSE dump[i - 1] \o TlvWrite(list[i])
  IN dump[Len(list)]
ReadTlvList(f) ==
  Then(ReadNumber(f), LAMBDA count, f1 :
    LET read[i \in 0..count] ==
          IF i = 0 THEN Got(<<>>, f1)
          ELSE Then(read[i - 1], LAMBDA before, f2 : Then(ReadTlv(f2), LAMBDA one, f3 : Got(Append(before, one), f3)))
    IN read[count])

-----------------------------------------------------------------------------
(* The header of a slice.  Sizes that are not given are Null. *)

Null == -1
ExtensionNone == 1
ExtensionSize == 2
ExtensionTlv == 3
TlvSize == 1
TlvFirstSize == 2
TlvDataName == 3

BuildTlvList(h) ==
  LET Tlv(type, value) == [type |-> type, value |-> value]
  IN (IF h.first_size = Null THEN <<>> ELSE <<Tlv(TlvFirstSize, WriteNumber(h.first_size))>>)
     \o (IF h.slice_size = Null THEN <<>> ELSE <<Tlv(TlvSize, WriteNumber(h.slice_size))>>)
     \o <<Tlv(TlvDataName, h.data_name)>>
WriteHeader(h) ==
  h.magic \o h.internal_name \o <<h.flag>>
  \o (IF ~h.old_header THEN <<ExtensionTlv>> \o TlvListDump(BuildTlvList(h))
      ELSE IF h.first_size # Null /\ h.slice_size # Null /\ h.first_size # h.slice_size
      THEN <<ExtensionSize>> \o WriteNumber(h.slice_size) ELSE <<ExtensionNone>>)

\* What is known of a type is kept, the last one if there are two; the user is
\* asked for the others.
Filled(h, t, accepted) ==
  CASE t.type = TlvSize -> Then(ReadNumber(t.value), LAMBDA n, rest : Got([h EXCEPT !.slice_size = n], <<>>))
    [] t.type = TlvFirstSize -> Then(ReadNumber(t.value), LAMBDA n, rest : Got([h EXCEPT !.first_size = n], <<>>))
    [] t.type = TlvDataName -> Then(Take(t.value, LabelSize), LAMBDA name, rest : Got([h EXCEPT !.data_name = name], <<>>))
    [] OTHER -> IF accepted THEN Got(h, <<>>) ELSE Fail
FillFrom(h, list, accepted) ==
  LET fill[i \in 0..Len(list)] ==
        IF i = 0 THEN Got(h, <<>>) ELSE Then(fill[i - 1], LAMBDA before, rest : Filled(before, list[i], accepted))
  IN fill[Len(list)]

\* The size of the file is known of a plain file, and Null of a pipe.
ReadExtension(h, extension, f, fileSize, lax, accepted) ==
  CASE extension = ExtensionNone -> Got([h EXCEPT !.slice_size = fileSize, !.old_header = TRUE], f)
    [] extension = ExtensionSize ->
         Then(ReadNumber(f), LAMBDA size, f1 :
           IF fileSize = Null /\ ~lax THEN Fail
           ELSE Got([h EXCEPT !.slice_size = size, !.first_size = fileSize, !.old_header = TRUE], f1))
    [] extension = ExtensionTlv ->
         Then(ReadTlvList(f), LAMBDA list, f1 :
           Then(FillFrom(h, list, accepted), LAMBDA last, rest :
             Got([last EXCEPT !.slice_size = IF @ = Null THEN fileSize ELSE @], f1)))
    [] OTHER -> IF lax THEN Got([h EXCEPT !.slice_size = 0], f) ELSE Fail
ReadHeader(f, fileSize, lax, accepted) ==
  Then(Take(f, MagicSize + LabelSize + 2), LAMBDA begin, f1 :
    LET h == [magic |-> SubSeq(begin, 1, MagicSize), internal_name |-> SubSeq(begin, MagicSize + 1, MagicSize + LabelSize),
              data_name |-> Zeros(LabelSize), flag |-> begin[MagicSize + LabelSize + 1], first_size |-> Null,
              slice_size |-> Null, old_header |-> FALSE]
    IN Then(ReadExtension(h, begin[MagicSize + LabelSize + 2], f1, fileSize, lax, accepted), LAMBDA read, f2 :
         Got([read EXCEPT !.data_name = IF @ = Zeros(LabelSize) THEN h.internal_name ELSE @], f2)))

SizesOf(h) == [first |-> IF h.first_size = Null THEN h.slice_size ELSE h.first_size, others |-> h.slice_size]
\* With a value of a type to come, or without.
DumpHeader ==
  LET h == input.header
      list == Append(BuildTlvList(h), [type |-> input.type, value |-> <<1>>])
  IN Dumps("slice", IF input.type = Null THEN WriteHeader(h)
                    ELSE h.magic \o h.internal_name \o <<h.flag, ExtensionTlv>> \o TlvListDump(list))
ReadSlice(piped, lax, accepted) ==
  Reads("slice", [piped |-> piped, accepted |-> accepted, header |->
    ReadHeader(bytes \o (IF step = "cut" THEN <<>> ELSE input.tail), IF piped THEN Null ELSE SizesOf(input.header).first,
               lax, accepted)])

-----------------------------------------------------------------------------
(* The edition of a format and the header of the archive. *)

EmptyValue == Zero * Radix + Zero
ToChar(v) == IF v < Radix - Zero THEN v + Zero ELSE v - (Radix - Zero)
ToDigit(c) == IF c < Zero THEN c + Radix - Zero ELSE c - Zero
DumpEdition(e) == <<ToChar(e.version \div Radix), ToChar(e.version % Radix), ToChar(e.fix), 0>>

\* fix is left as it was by an edition older than 8, unset in a new object.
ReadEdition(f) ==
  Then(Take(f, 3), LAMBDA tmp, f1 :
    LET version == ToDigit(tmp[1]) * Radix + ToDigit(tmp[2])
        Edition(fix) == [version |-> version, fix |-> fix, droot |-> FALSE]
    IN IF tmp = Dro THEN Got([version |-> 0, fix |-> 0, droot |-> TRUE], f1)
       ELSE IF version < 8 THEN (IF tmp[3] = 0 THEN Got(Edition(0), f1) ELSE Fail)
       ELSE Then(Take(f1, 1), LAMBDA more, f2 : IF more = <<0>> THEN Got(Edition(ToDigit(tmp[3])), f2) ELSE Fail))

HeaderCrcSize == 2
HasOffset(flag) == (flag & OffsetFlag) # 0
WriteHeaderVersion(h) ==
  LET without == h.flag - (h.flag & OffsetFlag)
      data == DumpEdition(h.edition) \o <<h.algo_zip>> \o h.cmd_line \o <<0>>
              \o (IF h.initial_offset = 0 THEN <<without>>
                  ELSE <<without + OffsetFlag>> \o WriteNumber(h.initial_offset))
  IN data \o CrcDump(Crc(HeaderCrcSize, data))

\* The offset of an archive that does not have one is where the header ends.
ReadString(f) ==
  LET End(ends) == IF ends = {} THEN Fail ELSE Got(SubSeq(f, 1, Min(ends) - 1), After(f, Min(ends)))
  IN End({i \in DOMAIN f : f[i] = 0})
ReadHeaderVersion(f, memory) ==
  Then(ReadEdition(f), LAMBDA edition, f1 :
    Then(Take(f1, 1), LAMBDA algo, f2 :
      Then(ReadString(f2), LAMBDA cmd_line, f3 :
        Then(IF edition.version > 1 THEN Take(f3, 1) ELSE Got(<<0>>, f3), LAMBDA flag, f4 :
          Then(IF HasOffset(flag[1]) THEN ReadNumber(f4) ELSE Got(0, f4), LAMBDA offset, f5 :
            Then(IF edition.version > 7 THEN CrcRead(f5, memory) ELSE Got(<<>>, f5), LAMBDA sum, f6 :
              IF \/ edition.version = EmptyValue
                 \/ edition.version > 7 /\ sum # Crc(HeaderCrcSize, SubSeq(f, 1, Len(f) - Len(f5)))
              THEN Fail
              ELSE Got([edition |-> edition, algo_zip |-> algo[1], cmd_line |-> cmd_line, flag |-> flag[1],
                        initial_offset |-> IF offset = 0 THEN Len(f) - Len(f6) ELSE offset], f6)))))))

\* Archives of old have shorter headers, without a CRC.
WriteOldVersion(h) ==
  <<ToChar(0), ToChar(h.edition.version), 0, h.algo_zip>> \o h.cmd_line \o <<0>>
  \o (IF h.edition.version > 1 THEN <<h.flag>> ELSE <<>>)
DumpVersion ==
  Dumps("version", IF input.header.edition.version > 7 THEN WriteHeaderVersion(input.header) ELSE WriteOldVersion(input.header))
ChangeComment == \E i \in 5..(5 + Len(input.header.cmd_line)) : Change(i)
ReadVersion == Reads("version", ReadHeaderVersion(bytes \o (IF step = "cut" THEN <<>> ELSE input.tail), input.memory))

FormatsInit == input \in Inputs /\ bytes = <<>> /\ step = "asked" /\ got = <<>>
FormatsNext ==
  \/ DumpCrc \/ ReadCrc \/ DumpTerminateur \/ ReadTerminateur \/ DumpBuffer
  \/ \E forward \in BOOLEAN, other \in {<<>>, <<7, 6>>, <<1, 1, 6, 7>>} : ReadBuffer(forward, other)
  \/ DumpHeader
  \/ \E piped, lax, accepted \in BOOLEAN : ReadSlice(piped, lax, accepted)
  \/ DumpVersion \/ ReadVersion
  \/ input.kind \in {"slice", "version"} /\ input.tail = <<>> /\ Cut
  \/ input.kind = "version" /\ input.tail = <<>> /\ input.header.edition.version > 7 /\ ChangeComment

-----------------------------------------------------------------------------
(* What is written is read back. *)

CrcReadsBack == Result("crc") => got.v = Got(input.cyclic, input.tail)
\* The position is found from the end, whatever the file holds before.
TerminateurReadsBack ==
  Result("terminateur") => got.v = Got([pos |-> input.pos, t_start |-> Len(input.before)], <<>>)
\* An elastic buffer has the size that was asked for, and is passed over whole,
\* from either of its ends, whatever comes after it.
ElasticIsPassedOver ==
  Result("elastic") => /\ Len(bytes) = input.taille /\ got.v.size.v = input.taille
                       /\ got.v.over = Got(input.taille, got.v.other)

\* The sizes of the first slice and of the others are recovered from any slice
\* (of the old format, from the first one and its size), the data name from
\* the new format, and a header that is cut is refused; a value of a type to
\* come is passed over if the user wants, and refused else.
HeaderReadsBack ==
  Result("slice") =>
    LET h == input.header
        read == got.v.header
        name == IF h.data_name = Zeros(LabelSize) THEN h.internal_name ELSE h.data_name
    IN CASE got.from = "cut" -> ~read.ok
         [] input.type # Null /\ ~got.v.accepted -> ~read.ok
         [] OTHER ->
              /\ (got.v.piped /\ h.old_header) \/ read.ok
              /\ read.ok => /\ <<read.v.magic, read.v.internal_name, read.v.flag, read.v.old_header>> =
                                 <<h.magic, h.internal_name, h.flag, h.old_header>>
                            /\ ~h.old_header => read.v.data_name = name
                            /\ read.rest = input.tail
                            /\ (~h.old_header \/ ~got.v.piped) => SizesOf(read.v) = SizesOf(h)
\* The header of an archive is read as it was written, its offset known, and
\* one that is cut before the last two bytes, or of which a byte of the comment
\* has changed, is refused.
HeaderVersionReadsBack ==
  Result("version") =>
    LET h == input.header
        flag == h.flag - (h.flag & OffsetFlag) + (IF h.initial_offset = 0 THEN 0 ELSE OffsetFlag)
        written == IF h.edition.version > 7 THEN Len(WriteHeaderVersion(h)) ELSE Len(WriteOldVersion(h))
        expected == [h EXCEPT !.initial_offset = IF @ = 0 THEN written ELSE @,
                              !.flag = IF h.edition.version > 7 THEN flag ELSE @,
                              !.edition.fix = IF h.edition.version > 7 THEN @ ELSE 0]
    IN CASE got.from = "written" -> got.v = Got(expected, input.tail)
         [] got.from = "changed" -> ~got.v.ok
         [] got.from = "cut" -> Len(bytes) < written - (IF h.edition.version > 7 THEN HeaderCrcSize ELSE 0) => ~got.v.ok
=============================================================================
