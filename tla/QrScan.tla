-------------------------------- MODULE QrScan --------------------------------
(***************************************************************************)
(* What a reader of QR codes makes of a symbol: the reference QrSymbol is  *)
(* compared with.  None of it is code of this repository.  It shares with  *)
(* the encoder the table of the blocks, and nothing else: the positions,   *)
(* the order of the modules, the masks, the words of the format and of the *)
(* version, the field and the check of the codewords are stated anew, in   *)
(* closed form where the encoder has a loop.                               *)
(***************************************************************************)
EXTENDS QrCodewords

(* The centres of the alignment patterns of a type, in both directions:    *)
(* 6, and from the last one back in even steps.                            *)
Centres(type) ==
  LET count == type \div 7 + 2
      last == type * 4 + 10
      step == IF type = 32 THEN 26
              ELSE ((type * 8 + count * 3 + 5) \div (count * 4 - 4)) * 2
  IN IF type = 1 THEN {} ELSE {6} \cup {last - step * k : k \in 0 .. count - 2}

Distance(x, y) ==
  LET a == IF x[1] < y[1] THEN y[1] - x[1] ELSE x[1] - y[1]
      b == IF x[2] < y[2] THEN y[2] - x[2] ELSE x[2] - y[2]
  IN IF a > b THEN a ELSE b

Corners(n) == {<<3, 3>>, <<3, n - 4>>, <<n - 4, 3>>}

Alignments(n, type) == {x \in Centres(type) \X Centres(type) : \A y \in Corners(n) : Distance(x, y) > 5}

(* Where there is no data.                                                 *)
Taken(n, type) ==
  {x \in (0 .. n - 1) \X (0 .. n - 1) :
     \/ x[1] = 6 \/ x[2] = 6
     \/ \E y \in Corners(n) : x[1] - y[1] \in -5 .. 5 /\ x[2] - y[2] \in -5 .. 5
                           /\ x[1] \in (0 .. 8) \cup (n - 8 .. n - 1)
                           /\ x[2] \in (0 .. 8) \cup (n - 8 .. n - 1)
     \/ type >= 7 /\ \/ x[1] < 6 /\ x[2] > n - 12
                     \/ x[2] < 6 /\ x[1] > n - 12}
  \cup UNION {(x[1] - 2 .. x[1] + 2) \X (x[2] - 2 .. x[2] + 2) : x \in Alignments(n, type)}

Looks(m, x, dark) == m[x[1]][x[2]] = IF dark THEN "dark" ELSE "light"

PatternsReadable(m, n, type) ==
  /\ \A x \in Corners(n) : \A y \in (x[1] - 4 .. x[1] + 4) \X (x[2] - 4 .. x[2] + 4) :
       y[1] \in 0 .. n - 1 /\ y[2] \in 0 .. n - 1 => Looks(m, y, Distance(x, y) \in {0, 1, 3})
  /\ \A x \in Alignments(n, type) : \A y \in (x[1] - 2 .. x[1] + 2) \X (x[2] - 2 .. x[2] + 2) :
       Looks(m, y, Distance(x, y) \in {0, 2})
  /\ \A k \in 8 .. n - 9 : Looks(m, <<k, 6>>, k % 2 = 0) /\ Looks(m, <<6, k>>, k % 2 = 0)
  /\ Looks(m, <<n - 8, 8>>, TRUE)

(* The words of the format, for the masks 0 to 7.                          *)
FormatWords ==
  [L |-> <<\h77C4, \h72F3, \h7DAA, \h789D, \h662F, \h6318, \h6C41, \h6976>>,
   M |-> <<\h5412, \h5125, \h5E7C, \h5B4B, \h45F9, \h40CE, \h4F97, \h4AA0>>,
   Q |-> <<\h355F, \h3068, \h3F31, \h3A06, \h24B4, \h2183, \h2EDA, \h2BED>>,
   H |-> <<\h1689, \h13BE, \h1CE7, \h19D0, \h0762, \h0255, \h0D0C, \h083B>>]

VersionWords == [type \in 7 .. 10 |-> <<\h07C94, \h085BC, \h09A99, \h0A4D3>>[type - 6]]

(* The lowest bit first.                                                   *)
Word(m, cells) == Total([k \in {k \in DOMAIN cells : Looks(m, cells[k], TRUE)} |-> 2 ^ (k - 1)])

FormatCopies(n) ==
  {[k \in 1 .. 15 |-> CASE k <= 6 -> <<k - 1, 8>> [] k = 7 -> <<7, 8>> [] k = 8 -> <<8, 8>>
                        [] k = 9 -> <<8, 7>> [] k > 9 -> <<8, 15 - k>>],
   [k \in 1 .. 15 |-> IF k <= 8 THEN <<8, n - k>> ELSE <<n - 16 + k, 8>>]}

FormatReadable(m, n, level, mask) ==
  \A cells \in FormatCopies(n) : Word(m, cells) = FormatWords[level][mask + 1]

VersionReadable(m, n, type) ==
  LET cells == [k \in 1 .. 18 |-> <<(k - 1) \div 3, n - 11 + ((k - 1) % 3)>>]
      turned == [k \in 1 .. 18 |-> <<cells[k][2], cells[k][1]>>]
  IN type >= 7 => Word(m, cells) = VersionWords[type] /\ Word(m, turned) = VersionWords[type]

-----------------------------------------------------------------------------
Inverted(mask, i, j) ==
  CASE mask = 0 -> i % 2 = j % 2
    [] mask = 1 -> i % 2 = 0
    [] mask = 2 -> j % 3 = 0
    [] mask = 3 -> (i + j) % 3 = 0
    [] mask = 4 -> (i \div 2) % 2 = (j \div 3) % 2
    [] mask = 5 -> (i * j) % 6 = 0
    [] mask = 6 -> (i * j) % 6 < 3
    [] mask = 7 -> (i + j) % 2 = ((i * j) % 3) % 2

(* Pairs of columns from the right, upward and downward in turn, column 6  *)
(* left out.                                                               *)
Path(n) ==
  [k \in 1 .. n * (n - 1) |->
     LET pair == (k - 1) \div (2 * n)
         step == (k - 1) % (2 * n)
         right == n - 1 - 2 * pair
     IN <<IF pair % 2 = 0 THEN n - 1 - (step \div 2) ELSE step \div 2,
          (IF right <= 6 THEN right - 1 ELSE right) - (step % 2)>>]

DataBits(m, n, type, mask) ==
  LET taken == Taken(n, type)
      cells == SelectSeq(Path(n), LAMBDA x : x \notin taken)
  IN [k \in DOMAIN cells |->
        IF Looks(m, cells[k], TRUE) # Inverted(mask, cells[k][1], cells[k][2]) THEN 1 ELSE 0]

Number(bits) == Total([k \in {k \in DOMAIN bits : bits[k] = 1} |-> 2 ^ (Len(bits) - k)])

Codewords(bits) == [k \in 1 .. Len(bits) \div 8 |-> Number(SubSeq(bits, 8 * k - 7, 8 * k))]

(* The words of the blocks, the codewords dealt out to them in turn.       *)
Blocks(codewords, type, level) ==
  LET rsBlocks == getRSBlocks(type, level)
      B == DOMAIN rsBlocks
      DataPlace(r, i) == Total([q \in B |-> IF rsBlocks[q].dataCount < i - 1
                                            THEN rsBlocks[q].dataCount ELSE i - 1])
                         + Cardinality({q \in B : q <= r /\ rsBlocks[q].dataCount >= i})
      CheckPlace(r, i) == TotalDataCount(rsBlocks) + (i - 1) * Len(rsBlocks) + r
  IN [r \in B |->
        [data |-> [i \in 1 .. rsBlocks[r].dataCount |-> codewords[DataPlace(r, i)]],
         check |-> [i \in 1 .. rsBlocks[r].totalCount - rsBlocks[r].dataCount |->
                      codewords[CheckPlace(r, i)]]]]

(* The powers of the primitive element: doubling, modulo x^8+x^4+x^3+x^2+1.*)
Alpha ==
  LET grown[p \in Seq(Nat), more \in 0 .. 254] ==
        CASE more = 0 -> p
          [] more = 1 -> LET v == p[Len(p)]
                         IN Append(p, IF v < 128 THEN 2 * v ELSE Xor(2 * v - 256, 29))
          [] more > 1 -> grown[grown[p, more \div 2], more - more \div 2]
      all == grown[<<1>>, 254]
  IN [i \in 0 .. 254 |-> all[i + 1]]

AlphaLog == [v \in 1 .. 255 |-> CHOOSE i \in 0 .. 254 : Alpha[i] = v]

(* The value of the word, its highest power first, at the j-th power.      *)
ValueAt(word, j) ==
  LET term(i) == IF word[i] = 0 THEN 0 ELSE Alpha[(AlphaLog[word[i]] + j * (Len(word) - i)) % 255]
      sum[first \in DOMAIN word, last \in DOMAIN word] ==
        LET middle == (first + last) \div 2
        IN IF first = last THEN term(first) ELSE Xor(sum[first, middle], sum[middle + 1, last])
  IN sum[1, Len(word)]

NoErrors(block) ==
  LET word == block.data \o block.check
  IN \A j \in 0 .. Len(block.check) - 1 : ValueAt(word, j) = 0

(* The characters of count characters from the bits, in groups of size     *)
(* characters of the given base; widths[k] bits for a group of k.          *)
Group(number, base, k) == [i \in 1 .. k |-> (number \div base ^ (k - i)) % base]

Characters(bits, count, base, widths) ==
  LET most == Len(widths)
  IN FlattenSeq([g \in 1 .. (count + most - 1) \div most |->
       LET k == Min({most, count - most * (g - 1)})
           start == widths[most] * (g - 1)
       IN Group(Number(SubSeq(bits, start + 1, start + widths[k])), base, k)])

Size(mode, count) ==
  CASE mode = "Byte" -> 8 * count
    [] mode = "Alphanumeric" -> 11 * (count \div 2) + 6 * (count % 2)
    [] mode = "Numeric" -> 10 * (count \div 3) + <<0, 4, 7>>[(count % 3) + 1]

CountBits(mode, type) ==
  LET band == IF type < 10 THEN 1 ELSE IF type < 27 THEN 2 ELSE 3
  IN [Byte |-> <<8, 16, 16>>, Alphanumeric |-> <<9, 11, 13>>, Numeric |-> <<10, 12, 14>>][mode][band]

Garbage == <<[mode |-> "unknown", chars |-> <<>>]>>

(* Pieces of data until the end code or until there is no room for one.    *)
Pieces(bits, type) ==
  LET from[p \in 0 .. Len(bits)] ==
        LET indicator == Number(SubSeq(bits, p + 1, p + 4))
            mode == CASE indicator = 1 -> "Numeric" [] indicator = 2 -> "Alphanumeric"
                      [] indicator = 4 -> "Byte" [] OTHER -> "unknown"
            start == p + 4 + CountBits(mode, type)
            count == Number(SubSeq(bits, p + 5, start))
            end == start + Size(mode, count)
            text == SubSeq(bits, start + 1, end)
            chars == CASE mode = "Byte" -> Characters(text, count, 256, <<8>>)
                       [] mode = "Alphanumeric" -> Characters(text, count, 45, <<6, 11>>)
                       [] mode = "Numeric" -> Characters(text, count, 10, <<4, 7, 10>>)
        IN IF Len(bits) < p + 4 \/ indicator = 0 THEN <<>>
           ELSE IF mode = "unknown" \/ start > Len(bits) \/ end > Len(bits) THEN Garbage
           ELSE <<[mode |-> mode, chars |-> chars]>> \o from[end]
  IN from[0]

(* The text of a symbol whose codewords are without an error.              *)
DataReadable(m, n, type, level, mask, dataList) ==
  LET blocks == Blocks(Codewords(DataBits(m, n, type, mask)), type, level)
      data == FlattenSeq([r \in DOMAIN blocks |-> blocks[r].data])
      bits == [k \in 1 .. 8 * Len(data) |-> Bit(data[(k + 7) \div 8], 7 - ((k - 1) % 8))]
  IN /\ \A r \in DOMAIN blocks : NoErrors(blocks[r])
     /\ Pieces(bits, type) = dataList
===============================================================================
