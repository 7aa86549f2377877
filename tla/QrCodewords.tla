----------------------------- MODULE QrCodewords -----------------------------
(***************************************************************************)
(* The codewords of a QR symbol, as qrcode.js computes them: the bits of   *)
(* the data, the padding, the division into blocks, the error correction   *)
(* of each block, and their interleaving.  Pure operators; QrSymbol draws  *)
(* what they return.                                                       *)
(*                                                                         *)
(* A piece of data is [mode, chars]; a character is its code: the char     *)
(* code in a Byte text, the digit in a Numeric one, the value getCode      *)
(* gives it in an Alphanumeric one, and Illegal where the code throws.     *)
(***************************************************************************)
EXTENDS QrTables, Integers, SequencesExt, FiniteSetsExt

QRMode == [Numeric |-> 1, Alphanumeric |-> 2, Byte |-> 4]

QRErrorCorrectionLevel == [L |-> 1, M |-> 0, Q |-> 3, H |-> 2]

Illegal == -1

(* The sum of the values of f.                                             *)
Total(f) == FoldFunction(+, 0, f)

Bit(num, i) == (num \div 2 ^ i) % 2

(* m ^ n, for numbers of at most 18 bits.                                  *)
Xor(m, n) ==
  LET low[k \in 0 .. 18] ==
        IF k = 0 THEN 0
        ELSE low[k - 1] + 2 ^ (k - 1) * ((Bit(m, k - 1) + Bit(n, k - 1)) % 2)
  IN low[18]

XorOf(S, f(_)) ==
  MapThenFoldSet(LAMBDA m, n : Xor(m, n), 0, f, LAMBDA T : CHOOSE x \in T : TRUE, S)

-----------------------------------------------------------------------------
(* The field of 256 elements: EXP_TABLE[i] is the i-th power of 2.         *)

EXP_TABLE ==
  LET grown[p \in Seq(Nat), more \in 0 .. 256] ==  \* by halves: the recursion stays short
        CASE more = 0 -> p
          [] more = 1 -> LET n == Len(p)
                         IN Append(p, IF n < 8 THEN 2 ^ n
                                      ELSE Xor(Xor(p[n - 3], p[n - 4]), Xor(p[n - 5], p[n - 7])))
          [] more > 1 -> grown[grown[p, more \div 2], more - more \div 2]
      all == grown[<<>>, 256]
  IN [i \in 0 .. 255 |-> all[i + 1]]

LOG_TABLE == [n \in 1 .. 255 |-> CHOOSE i \in 0 .. 254 : EXP_TABLE[i] = n]

glog(n) == LOG_TABLE[n]

gexp(n) == EXP_TABLE[IF n < 0 THEN n % 255 ELSE IF n < 256 THEN n ELSE ((n - 1) % 255) + 1]

-----------------------------------------------------------------------------
(* Polynomials over it, the highest power first.  An element that the code *)
(* has not assigned behaves as a zero in every use made of it.             *)

StripZeros(num) ==
  SubSeq(num, Min({i \in DOMAIN num : num[i] # 0} \cup {Len(num) + 1}), Len(num))

qrPolynomial(num, shift) == StripZeros(num) \o [i \in 1 .. shift |-> 0]

multiply(a, e) ==
  qrPolynomial([k \in 1 .. Len(a) + Len(e) - 1 |->
                  XorOf({i \in DOMAIN a : k + 1 - i \in DOMAIN e},
                        LAMBDA i : gexp(glog(a[i]) + glog(e[k + 1 - i])))], 0)

mod(a, e) ==
  LET after[n \in 0 .. Len(a)] ==
        IF n = 0 THEN a
        ELSE LET b == after[n - 1]
                 ratio == glog(Head(b)) - glog(Head(e))
             IN IF Len(b) < Len(e) THEN b
                ELSE qrPolynomial([i \in DOMAIN b |->
                                     IF i \in DOMAIN e THEN Xor(b[i], gexp(glog(e[i]) + ratio))
                                     ELSE b[i]], 0)
  IN after[Len(a)]

getErrorCorrectPolynomial(errorCorrectLength) ==
  LET product[n \in 0 .. errorCorrectLength] ==
        IF n = 0 THEN <<1>> ELSE multiply(product[n - 1], <<1, gexp(n - 1)>>)
  IN product[errorCorrectLength]

-----------------------------------------------------------------------------
(* The bits of the data.                                                   *)

(* qrBitBuffer.put: the highest bit first; bits beyond length are dropped. *)
Bits(num, length) == [i \in 1 .. length |-> Bit(num, length - i)]

getLengthInBits(mode, type) ==
  CASE type < 10 -> [Numeric |-> 10, Alphanumeric |-> 9, Byte |-> 8][mode]
    [] type \in 10 .. 26 -> [Numeric |-> 12, Alphanumeric |-> 11, Byte |-> 16][mode]
    [] type \in 27 .. 40 -> [Numeric |-> 14, Alphanumeric |-> 13, Byte |-> 16][mode]

(* Three digits in ten bits; the rest in four or in seven.                 *)
WriteNumber(c) ==
  FlattenSeq([g \in 1 .. (Len(c) + 2) \div 3 |->
    LET i == 3 * g - 2
    IN CASE i = Len(c)     -> Bits(c[i], 4)
         [] i + 1 = Len(c) -> Bits(c[i] * 10 + c[i + 1], 7)
         [] i + 1 < Len(c) -> Bits(c[i] * 100 + c[i + 1] * 10 + c[i + 2], 10)])

(* Two characters in eleven bits; a last one in six.                       *)
WriteAlphaNum(c) ==
  FlattenSeq([g \in 1 .. (Len(c) + 1) \div 2 |->
    LET i == 2 * g - 1
    IN IF i = Len(c) THEN Bits(c[i], 6) ELSE Bits(c[i] * 45 + c[i + 1], 11)])

(* stringToBytes keeps the low byte of each char code.                     *)
Write8BitByte(c) == [i \in 1 .. 8 * Len(c) |-> Bit(c[(i + 7) \div 8], 7 - ((i - 1) % 8))]

WriteData(data) ==
  CASE data.mode = "Numeric"      -> WriteNumber(data.chars)
    [] data.mode = "Alphanumeric" -> WriteAlphaNum(data.chars)
    [] data.mode = "Byte"         -> Write8BitByte(data.chars)

Writable(dataList) ==
  \A k \in DOMAIN dataList : \A i \in DOMAIN dataList[k].chars : dataList[k].chars[i] # Illegal

Buffer(type, dataList) ==
  FlattenSeq([k \in DOMAIN dataList |->
    LET data == dataList[k]
    IN Bits(QRMode[data.mode], 4)
         \o Bits(Len(data.chars), getLengthInBits(data.mode, type))
         \o WriteData(data)])

-----------------------------------------------------------------------------
(* The blocks of a type and level.                                         *)

getRSBlocks(type, errorCorrectionLevel) ==
  LET row == RS_BLOCK_TABLE[(type - 1) * 4 + [L |-> 1, M |-> 2, Q |-> 3, H |-> 4][errorCorrectionLevel]]
      group(i) == [j \in 1 .. row[3 * i + 1] |->
                     [totalCount |-> row[3 * i + 2], dataCount |-> row[3 * i + 3]]]
  IN IF Len(row) = 3 THEN group(0) ELSE group(0) \o group(1)

TotalDataCount(rsBlocks) == Total([r \in DOMAIN rsBlocks |-> rsBlocks[r].dataCount])

TotalCodeCount(rsBlocks) == Total([r \in DOMAIN rsBlocks |-> rsBlocks[r].totalCount])

Fits(type, errorCorrectionLevel, dataList) ==
  Len(Buffer(type, dataList)) <= 8 * TotalDataCount(getRSBlocks(type, errorCorrectionLevel))

-----------------------------------------------------------------------------
(* createData: the end code if there is room for it, zeros up to a byte,   *)
(* and the two padding bytes in turn.                                      *)

PAD0 == 236
PAD1 == 17

Bytes(bits) == [i \in 1 .. Len(bits) \div 8 |-> Total([j \in 1 .. 8 |-> bits[8 * (i - 1) + j] * 2 ^ (8 - j)])]

Padded(buffer, totalDataCount) ==
  LET ended == IF Len(buffer) + 4 <= 8 * totalDataCount THEN buffer \o Bits(0, 4) ELSE buffer
      bytes == Bytes(ended \o [i \in 1 .. (-Len(ended)) % 8 |-> 0])
  IN bytes \o [i \in 1 .. totalDataCount - Len(bytes) |-> IF i % 2 = 1 THEN PAD0 ELSE PAD1]

(* The error correction of a block: the remainder, aligned to the right.   *)
ErrorCorrection(dcdata, ecCount) ==
  LET rsPoly == getErrorCorrectPolynomial(ecCount)
      modPoly == mod(qrPolynomial(dcdata, ecCount), rsPoly)
  IN [i \in 1 .. ecCount - Len(modPoly) |-> 0] \o modPoly

(* The first of every row, then the second of every row that has one ...   *)
ByColumns(rows) ==
  FlattenSeq([i \in 1 .. Max({Len(rows[r]) : r \in DOMAIN rows}) |->
    LET longer == SelectSeq(rows, LAMBDA row : Len(row) >= i)
    IN [r \in DOMAIN longer |-> longer[r][i]]])

createBytes(bytes, rsBlocks) ==
  LET offset(r) == Total([q \in 1 .. r - 1 |-> rsBlocks[q].dataCount])
      dcdata == [r \in DOMAIN rsBlocks |->
                   SubSeq(bytes, offset(r) + 1, offset(r) + rsBlocks[r].dataCount)]
      ecdata == [r \in DOMAIN rsBlocks |->
                   ErrorCorrection(dcdata[r], rsBlocks[r].totalCount - rsBlocks[r].dataCount)]
  IN ByColumns(dcdata) \o ByColumns(ecdata)

(* For data that fits.                                                     *)
createData(type, errorCorrectionLevel, dataList) ==
  LET rsBlocks == getRSBlocks(type, errorCorrectionLevel)
  IN createBytes(Padded(Buffer(type, dataList), TotalDataCount(rsBlocks)), rsBlocks)

-----------------------------------------------------------------------------
(* BCH codes of the type information and of the type number.               *)

G15 == 2 ^ 10 + 2 ^ 8 + 2 ^ 5 + 2 ^ 4 + 2 ^ 2 + 2 ^ 1 + 2 ^ 0
G18 == 2 ^ 12 + 2 ^ 11 + 2 ^ 10 + 2 ^ 9 + 2 ^ 8 + 2 ^ 5 + 2 ^ 2 + 2 ^ 0
G15_MASK == 2 ^ 14 + 2 ^ 12 + 2 ^ 10 + 2 ^ 4 + 2 ^ 1

getBCHDigit(data) == CHOOSE digit \in 0 .. 31 : data < 2 ^ digit /\ (digit > 0 => data >= 2 ^ (digit - 1))

BCHRemainder(d, g) ==
  LET after[n \in 0 .. 18] ==
        IF n = 0 THEN d
        ELSE LET b == after[n - 1]
                 over == getBCHDigit(b) - getBCHDigit(g)
             IN IF over < 0 THEN b ELSE Xor(b, g * 2 ^ over)
  IN after[18]

getBCHTypeInfo(data) == Xor(data * 2 ^ 10 + BCHRemainder(data * 2 ^ 10, G15), G15_MASK)

getBCHTypeNumber(data) == data * 2 ^ 12 + BCHRemainder(data * 2 ^ 12, G18)

-----------------------------------------------------------------------------
getMaskFunction(maskPattern, i, j) ==
  CASE maskPattern = 0 -> (i + j) % 2 = 0
    [] maskPattern = 1 -> i % 2 = 0
    [] maskPattern = 2 -> j % 3 = 0
    [] maskPattern = 3 -> (i + j) % 3 = 0
    [] maskPattern = 4 -> (i \div 2 + j \div 3) % 2 = 0
    [] maskPattern = 5 -> ((i * j) % 2) + ((i * j) % 3) = 0
    [] maskPattern = 6 -> (((i * j) % 2) + ((i * j) % 3)) % 2 = 0
    [] maskPattern = 7 -> (((i * j) % 3) + ((i + j) % 2)) % 2 = 0
===============================================================================
