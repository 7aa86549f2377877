------------------------------ MODULE GifRaster ------------------------------
(***************************************************************************)
(* getLZWRaster of qrcode.js: the pixels of the QR image, compressed for a *)
(* GIF.  The table of strings and the width of a code grow while codes are *)
(* written; the reader of the GIF grows a table of its own, one entry      *)
(* behind, and is told nothing but the codes.  The two have to agree on    *)
(* the width of every code that stands for pixels, through the growth of   *)
(* the tables and through the moment at which they are full; on the width  *)
(* of the end code they may differ.                                        *)
(***************************************************************************)
EXTENDS Integers, Sequences

CONSTANT TableLimit  \* 0xfff: a table of this size takes no more strings

(* All that matters of 0xfff is this: an odd number is never a power of    *)
(* two, so the table is never full at the moment the width grows.          *)
ASSUME TableLimitAssumption ==
  /\ TableLimit \in Nat /\ TableLimit >= 8
  /\ TableLimit % 2 = 1

Pixels == {0, 1}

(* With the code size that write asks for, 2.                              *)
clearCode == 4
endCode == 5
Single == {<<i>> : i \in 0 .. endCode}

VARIABLES
  (* the writer *)
  table,      \* _map: the codes of the strings in the table
  size,       \* _size
  bitLength,
  capacity,   \* 1 << bitLength
  s,          \* the string that has been read and not been written
  out,        \* the bit stream and the byte stream below it
  bits,       \* history: the bits of the codes written, in order
  fed,        \* history: the pixels consumed
  (* the reader *)
  dict,       \* its table, from codes to strings
  known,      \* the size of it
  room,       \* 1 << the width of the next code
  prev,       \* the string of the code before, if any
  read        \* the pixels it has made out

reader == <<dict, known, room, prev, read>>
rasterVars == <<table, size, bitLength, capacity, s, out, bits, fed, reader>>

-----------------------------------------------------------------------------
(* bitOutputStream: low bits first; the bytes that are full go to the byte *)
(* stream, fewer than eight bits stay in the buffer.                       *)

(* 1 << i, and the bit of num there.                                       *)
PowerOf2[i \in Nat] == IF i = 0 THEN 1 ELSE 2 * PowerOf2[i - 1]

BitOf(num, i) == (num \div PowerOf2[i]) % 2

LowBitsFirst(code, length) == [i \in 1 .. length |-> BitOf(code, i - 1)]

EmptyStream == [bytes |-> <<>>, bitBuffer |-> 0, bitLength |-> 0]

(* The bytes of value that are full once it has so many bits.              *)
FullBytes(value, full) == [i \in 1 .. full |-> (value \div PowerOf2[8 * (i - 1)]) % 256]

(* Mutant: what did not fit the byte is written over by what comes next.   *)
PutBitsAfresh(o, data, length) ==
  LET value == data * PowerOf2[o.bitLength] + o.bitBuffer
      full == (o.bitLength + length) \div 8
  IN [bytes     |-> o.bytes \o FullBytes(value, full),
      bitBuffer |-> IF full = 0 THEN value ELSE 0,
      bitLength |-> (o.bitLength + length) % 8]

PutBits(o, data, length) ==
  LET value == data * PowerOf2[o.bitLength] + o.bitBuffer
      full == (o.bitLength + length) \div 8
  IN [bytes     |-> o.bytes \o FullBytes(value, full),
      bitBuffer |-> value \div PowerOf2[8 * full],
      bitLength |-> (o.bitLength + length) % 8]

FlushBits(o) == IF o.bitLength > 0 THEN [o EXCEPT !.bytes = Append(@, o.bitBuffer)] ELSE o

-----------------------------------------------------------------------------
(* The reader: a code that it does not have yet stands for the string      *)
(* before with its own first pixel at the end.                             *)

Meaning(code) == IF code < known THEN dict[code] ELSE Append(prev, Head(prev))

Learns == prev # <<>> /\ known <= TableLimit

Reads(code) ==
  LET string == Meaning(code)
      now == IF Learns THEN known + 1 ELSE known
  IN /\ read' = read \o string
     /\ prev' = string
     /\ known' = now
     /\ dict' = IF Learns
                THEN [x \in 0 .. known |->
                        IF x = known THEN Append(prev, Head(string)) ELSE dict[x]]
                ELSE dict
     /\ room' = IF now = room /\ room <= TableLimit THEN 2 * room ELSE room

-----------------------------------------------------------------------------
RasterInit ==
  /\ table = [k \in Single |-> k[1]] /\ size = endCode + 1
  /\ bitLength = 3 /\ capacity = 8
  /\ s = <<>>
  /\ out = PutBits(EmptyStream, clearCode, 3)
  /\ bits = LowBitsFirst(clearCode, 3) /\ fed = <<>>
  /\ dict = [x \in 0 .. endCode |-> <<x>>] /\ known = endCode + 1 /\ room = 8
  /\ prev = <<>> /\ read = <<>>

Write(code) ==
  /\ out' = PutBits(out, code, bitLength)
  /\ bits' = bits \o LowBitsFirst(code, bitLength)
  /\ Reads(code)

(* Mutant: the width grows as soon as the table is full, not one string    *)
(* later.                                                                  *)
AddEagerly(key) ==
  IF size < TableLimit
  THEN /\ table' = [k \in DOMAIN table \cup {key} |-> IF k = key THEN size ELSE table[k]]
       /\ size' = size + 1
       /\ IF size + 1 = capacity
          THEN bitLength' = bitLength + 1 /\ capacity' = 2 * capacity
          ELSE UNCHANGED <<bitLength, capacity>>
  ELSE UNCHANGED <<table, size, bitLength, capacity>>

(* A string is added, and the width grows when there is no code left.      *)
Add(key) ==
  IF size < TableLimit
  THEN /\ IF size = capacity
          THEN bitLength' = bitLength + 1 /\ capacity' = 2 * capacity
          ELSE UNCHANGED <<bitLength, capacity>>
       /\ table' = [k \in DOMAIN table \cup {key} |-> IF k = key THEN size ELSE table[k]]
       /\ size' = size + 1
  ELSE UNCHANGED <<table, size, bitLength, capacity>>

(* One pixel.  The table always has the string that is pending.            *)
Begins(c) ==
  /\ s = <<>> /\ fed = <<>>
  /\ s' = <<c>>
  /\ UNCHANGED <<table, size, bitLength, capacity, out, bits, reader>>

Extends(c) ==
  /\ s # <<>> /\ Append(s, c) \in DOMAIN table
  /\ s' = Append(s, c)
  /\ UNCHANGED <<table, size, bitLength, capacity, out, bits, reader>>

Emits(c) ==
  /\ s # <<>> /\ Append(s, c) \notin DOMAIN table
  /\ Write(table[s])
  /\ Add(Append(s, c))
  /\ s' = <<c>>

Feed(c) ==
  /\ Begins(c) \/ Extends(c) \/ Emits(c)
  /\ fed' = Append(fed, c)

(* When there are no more pixels: the last string, the end code with the   *)
(* width that the last string had, the bits left in the buffer.            *)
LastCodes ==
  LET o == PutBits(out, table[s], bitLength)
  IN /\ s # <<>>
     /\ out' = FlushBits(PutBits(o, endCode, bitLength))
     /\ bits' = bits \o LowBitsFirst(table[s], bitLength) \o LowBitsFirst(endCode, bitLength)
     /\ Reads(table[s])
     /\ s' = <<>>
     /\ UNCHANGED <<table, size, bitLength, capacity, fed>>

RasterNext == (\E c \in Pixels : Feed(c)) \/ LastCodes

RasterSpec == RasterInit /\ [][RasterNext]_rasterVars

-----------------------------------------------------------------------------
(* Properties.                                                             *)

(* Whatever the pixels are, as long as some of them are pending the next   *)
(* code has the width that the reader expects and fits into it: "length    *)
(* over" (qrcode.js:2103) is never thrown, also when the table has filled  *)
(* up (2166-2173).                                                         *)
WidthsAgree == s # <<>> => capacity = room /\ table[s] < capacity

(* The end code is written with the width of the last string (2179-2182),  *)
(* also where the reader, whose table has grown with that string, is at    *)
(* the next width: it may look for a code of one bit more than was         *)
(* written, and of no other width.                                         *)
EndWidth == fed # <<>> /\ s = <<>> => room \in {capacity, 2 * capacity}

(* At any moment, what the reader has made of the codes is every pixel but *)
(* those of the pending string: its table follows the writer's.            *)
ReaderFollows == fed = read \o s

(* All three: a reader that is told nothing but the codes cuts the stream  *)
(* where the writer did up to the end code, gets the pixels back, and at   *)
(* the end code is at most one bit too wide.                               *)
RasterReadable == WidthsAgree /\ EndWidth /\ ReaderFollows
=============================================================================
