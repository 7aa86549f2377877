---------------------------- MODULE QrCodeProofs ----------------------------
(***************************************************************************)
(* The encoder for any requests: the types of its variables, and that a    *)
(* finished symbol has no module undecided; that what is drawn is the data *)
(* as it is now, in the smallest type that holds it; that no other data is *)
(* refused; and that the image decodes to the pixels of the symbol.        *)
(*                                                                         *)
(* A symbol is drawn from the right to the left, and what has been decided *)
(* stays decided: the patterns take column 6, which mapData leaves out,    *)
(* and mapData takes the others two by two.                                *)
(*                                                                         *)
(* The lengths are sums: a sum is the number of pairs of an argument and a *)
(* number up to its value, so sums are added by joining sets, and what     *)
(* FlattenSeq puts together is measured from the front.                    *)
(***************************************************************************)
EXTENDS QrCode, GifProofs

-----------------------------------------------------------------------------
(* The image is that of the symbol that is done.                           *)
Rendered == phase # "none" => Complete /\ _data = PixelsOfSymbol

(* What the parts of the encoder need of each other.                       *)
EncoderInv == request \in Requests /\ _typeNumber \in 0 .. 40 /\ Rendered

(* There is no image at the start.                                         *)
LEMMA EncoderInvInit == Init => EncoderInv
  <1> SUFFICES ASSUME Init PROVE EncoderInv
    OBVIOUS
  <1>1. request \in Requests /\ _typeNumber = request.typeNumber /\ phase = "none"
    BY DEF Init, SymbolInit, ImageInit
  <1> QED BY <1>1, RequestsAssumption DEF EncoderInv, Rendered

(* Min is the least element of a set of numbers that is not empty.         *)
LEMMA LeastOf ==
  ASSUME NEW S, S \subseteq Nat, S # {}
  PROVE  Min(S) \in S /\ \A x \in S : Min(S) <= x
  <1>1. \E x \in S : \A y \in S : x <= y
    <2> SUFFICES ASSUME \A x \in S : \E y \in S : ~(x <= y) PROVE FALSE
      OBVIOUS
    <2> DEFINE T == {n \in Nat : \A m \in 0 .. n : m \notin S}
    <2>1. 0 \in T
      <3>1. 0 \notin S
        OBVIOUS
      <3> QED BY <3>1
    <2>2. ASSUME NEW n \in Nat, n \in T PROVE n + 1 \in T
      <3>1. n + 1 \notin S
        <4> SUFFICES ASSUME n + 1 \in S PROVE FALSE
          OBVIOUS
        <4>1. PICK y \in S : ~(n + 1 <= y)
          OBVIOUS
        <4>2. y \in 0 .. n
          BY <4>1
        <4> QED BY <2>2, <4>2
      <3>2. ASSUME NEW m \in 0 .. n + 1 PROVE m \notin S
        <4>1. CASE m = n + 1
          BY <3>1, <4>1
        <4>2. CASE m # n + 1
          <5>1. m \in 0 .. n
            BY <4>2
          <5> QED BY <2>2, <5>1
        <4> QED BY <4>1, <4>2
      <3> QED BY <3>2
    <2>3. Nat \subseteq T
      <3> HIDE DEF T
      <3> QED BY <2>1, <2>2, SetInduction
    <2>4. PICK x \in S : TRUE
      OBVIOUS
    <2>5. x \in T /\ x \in 0 .. x
      BY <2>3
    <2> QED BY <2>5
  <1> QED BY <1>1 DEF Min

(* make settles on a type (424-453).                                       *)
LEMMA SmallestTypeRange == SmallestType \in 1 .. 40
  <1> DEFINE fitting == {t \in 1 .. 39 : Fits(t, request.level, _dataList)}
  <1>1. CASE fitting = {}
    BY <1>1 DEF SmallestType
  <1>2. CASE fitting # {}
    <2>1. SmallestType = Min(fitting)
      BY <1>2 DEF SmallestType
    <2>2. fitting \subseteq Nat /\ fitting \subseteq 1 .. 39
      OBVIOUS
    <2> HIDE DEF fitting
    <2>3. Min(fitting) \in fitting
      BY <1>2, <2>2, LeastOf
    <2>4. Min(fitting) \in 1 .. 39
      BY <2>2, <2>3
    <2> HIDE DEF fitting
    <2>5. 1 .. 39 \subseteq 1 .. 40
      OBVIOUS
    <2> QED BY <2>1, <2>4, <2>5
  <1> QED BY <1>1, <1>2

(* Once there is a type it stays, also for a second make.                  *)
LEMMA TypeNumberStep ==
  ASSUME EncoderInv, SymbolNext
  PROVE  request' = request /\ _typeNumber' \in 0 .. 40 /\ (_typeNumber >= 1 => _typeNumber' = _typeNumber)
  <1>1. CASE Make
    <2>1. _typeNumber' \in {_typeNumber, SmallestType} /\ request' = request
          /\ (_typeNumber >= 1 => _typeNumber' = _typeNumber)
      <3>1. CASE _typeNumber < 1 /\ ~Writable(_dataList)
        BY <1>1, <3>1 DEF Make, Throw
      <3>2. CASE ~(_typeNumber < 1 /\ ~Writable(_dataList))
        <4>1. _typeNumber' = (IF _typeNumber < 1 THEN SmallestType ELSE _typeNumber)
              /\ request' = request
          BY <1>1, <3>2 DEF Make
        <4>2. _typeNumber \in 0 .. 40
          BY DEF EncoderInv
        <4> QED BY <4>1, <4>2
      <3> QED BY <3>1, <3>2
    <2> QED BY <2>1, SmallestTypeRange DEF EncoderInv
  <1>2. CASE DrawPatterns \/ Cache \/ MapColumn \/ Score \/ AddData
    <2>1. request' = request /\ _typeNumber' = _typeNumber
      BY <1>2 DEF DrawPatterns, Cache, Throw, MapColumn, Score, AddData
    <2> QED BY <2>1 DEF EncoderInv
  <1> QED BY <1>1, <1>2 DEF SymbolNext

-----------------------------------------------------------------------------
(* A finished symbol stays as it is.                                       *)
LEMMA CompleteIsFinal == Complete => ~SymbolNext
  BY DEF Complete, SymbolNext, Make, DrawPatterns, Cache, MapColumn, Score, AddData

(* The pixels of a symbol are pixels, row by row (557-575).                *)
LEMMA PixelsType ==
  ASSUME EncoderInv
  PROVE  width \in Nat /\ PixelsOfSymbol \in Seq(Pixels)
  <1>1. image.cellSize \in Nat /\ image.margin \in Nat \cup {NoMargin}
    BY ImagesAssumption DEF EncoderInv, image
  <1>2. cellSize \in Nat
    BY <1>1 DEF cellSize
  <1>3. margin \in Nat
    BY <1>1, <1>2 DEF margin
  <1>4. width \in Nat
    <2>1. _moduleCount \in Nat
      BY DEF EncoderInv, _moduleCount
    <2>2. _moduleCount * cellSize \in Nat
      BY <1>2, <2>1
    <2> QED BY <1>3, <2>2 DEF width
  <1>5. PICK n \in Nat : n = width * width
    BY <1>4
  <1>6. ASSUME NEW a, NEW b PROVE getPixel(a, b) \in Pixels
    BY DEF getPixel, Pixels
  <1>7. PixelsOfSymbol = [k \in 1 .. n |-> getPixel((k - 1) % width, (k - 1) \div width)]
    BY <1>5 DEF PixelsOfSymbol
  <1> QED BY <1>4, <1>6, <1>7

(* While the symbol stays its pixels do.                                   *)
LEMMA SamePixels ==
  ASSUME UNCHANGED symbolVars
  PROVE  PixelsOfSymbol' = PixelsOfSymbol /\ (Complete' <=> Complete)
         /\ request' = request /\ _typeNumber' = _typeNumber
  <1>1. UNCHANGED <<request, _dataList, _typeNumber, _modules, pc>>
    BY DEF symbolVars
  <1>2. width' = width /\ margin' = margin /\ cellSize' = cellSize
    BY <1>1 DEF width, margin, cellSize, image, _moduleCount
  <1>3. \A a, b : getPixel(a, b)' = getPixel(a, b)
    BY <1>1, <1>2 DEF getPixel
  <1>4. PixelsOfSymbol' = PixelsOfSymbol
    BY <1>1 DEF PixelsOfSymbol, getPixel, width, margin, cellSize, image, _moduleCount
  <1>5. Complete' <=> Complete
    BY <1>1 DEF Complete
  <1> QED BY <1>1, <1>4, <1>5

(* An image is made of a finished symbol only, and a step of the encoder   *)
(* is one of the image or leaves it alone.                                 *)
LEMMA EncoderInvStep ==
  ASSUME EncoderInv, [Next]_vars
  PROVE  EncoderInv' /\ [ImageNext]_<<rasterVars, imageVars>>
  <1>1. CASE Symbol
    <2>1. UNCHANGED <<rasterVars, imageVars>> /\ SymbolNext /\ phase' = phase
      BY <1>1 DEF Symbol, imageVars
    <2>2. phase = "none"
      BY <2>1, CompleteIsFinal DEF EncoderInv, Rendered
    <2> QED BY <2>1, <2>2, TypeNumberStep DEF EncoderInv, Rendered
  <1>2. CASE CreateDataURL
    <2>1. SetPixels(width, PixelsOfSymbol) /\ Complete /\ UNCHANGED symbolVars
      BY <1>2 DEF CreateDataURL
    <2>2. _data' = PixelsOfSymbol
      BY <2>1 DEF SetPixels
    <2> QED BY <2>1, <2>2, PixelsType, SamePixels DEF EncoderInv, Rendered, ImageNext
  <1>3. CASE WriteImage
    <2>1. WriteNext /\ UNCHANGED symbolVars
      BY <1>3 DEF WriteImage
    <2>2. phase # "none" /\ _data' = _data
      BY <2>1 DEF WriteNext, Raster, EndRaster, WriteBlock, WriteLastBlock, WriteBase64, imageVars
    <2> QED BY <2>1, <2>2, SamePixels DEF EncoderInv, Rendered, ImageNext
  <1>4. CASE UNCHANGED vars
    <2>1. UNCHANGED symbolVars /\ UNCHANGED <<rasterVars, imageVars>> /\ UNCHANGED <<phase, _data>>
      BY <1>4 DEF vars, imageVars
    <2> QED BY <2>1, SamePixels DEF EncoderInv, Rendered
  <1> QED BY <1>1, <1>2, <1>3, <1>4 DEF Next

(* The image in the page decodes to the pixels of the symbol, for any      *)
(* requests.                                                               *)
THEOREM QrCodeImageDecodes == Spec => []ImageDecodes
  <1> DEFINE Inv == EncoderInv /\ RasterInv /\ StreamInv /\ ImageInv
  <1>1. Init => Inv
    BY EncoderInvInit, ImageInvInit DEF Init
  <1>2. Inv /\ [Next]_vars => Inv'
    BY EncoderInvStep, ImageInvStep
  <1>3. Inv => ImageDecodes
    BY ImageInvImplies DEF ImageDecodes, EncoderInv, Rendered, GifDecodes
  <1> QED BY <1>1, <1>2, <1>3, PTL DEF Spec

-----------------------------------------------------------------------------
(* A square of n modules by n.                                             *)
Matrix(m, n) == m \in [0 .. n - 1 -> [0 .. n - 1 -> Cells]]

(* What is drawn over m is a drawing, and what was decided stays decided.  *)
DrawnOver(m, d, n) ==
  /\ Matrix(d, n)
  /\ \A r, c \in 0 .. n - 1 : m[r][c] # "null" => d[r][c] # "null"

(* A module that is drawn is decided.                                      *)
LEMMA ModuleType == \A dark : Module(dark) \in Cells /\ Module(dark) # "null"
  BY DEF Module, Cells

(* All modules are there from the start, undecided (47-57).                *)
LEMMA BlankType ==
  ASSUME NEW n \in Nat
  PROVE  Matrix(Blank(n), n)
  BY DEF Matrix, Blank, Cells

(* A position pattern is drawn over all modules in its square and its      *)
(* margin.                                                                 *)
LEMMA ProbeDrawn ==
  ASSUME NEW n \in Nat, NEW m, Matrix(m, n), NEW row \in Int, NEW column \in Int
  PROVE  /\ DrawnOver(m, setupPositionProbePattern(m, row, column), n)
         /\ \A r, c \in 0 .. n - 1 : r - row \in -1 .. 7 /\ c - column \in -1 .. 7
              => setupPositionProbePattern(m, row, column)[r][c] # "null"
  <1> DEFINE d == setupPositionProbePattern(m, row, column)
             inside(r, c) == r - row \in -1 .. 7 /\ c - column \in -1 .. 7
             ring(i, j) == \/ i \in 0 .. 6 /\ j \in {0, 6}
                           \/ j \in 0 .. 6 /\ i \in {0, 6}
                           \/ i \in 2 .. 4 /\ j \in 2 .. 4
  <1>1. DOMAIN m = 0 .. n - 1
    BY DEF Matrix
  <1>2. d = [r \in 0 .. n - 1 |-> [c \in 0 .. n - 1 |->
               IF inside(r, c) THEN Module(ring(r - row, c - column)) ELSE m[r][c]]]
    BY <1>1 DEF setupPositionProbePattern
  <1> HIDE DEF d, ring
  <1>3. ASSUME NEW r \in 0 .. n - 1, NEW c \in 0 .. n - 1
        PROVE  /\ d[r][c] \in Cells
               /\ inside(r, c) => d[r][c] # "null"
               /\ ~inside(r, c) => d[r][c] = m[r][c]
    <2>1. d[r][c] = IF inside(r, c) THEN Module(ring(r - row, c - column)) ELSE m[r][c]
      BY <1>2
    <2>2. m[r][c] \in Cells
      BY DEF Matrix
    <2> QED BY <2>1, <2>2, ModuleType
  <1>4. Matrix(d, n)
    BY <1>2, <1>3 DEF Matrix
  <1> QED BY <1>3, <1>4 DEF DrawnOver, d

(* An alignment pattern is drawn over its square.                          *)
LEMMA AdjustDrawn ==
  ASSUME NEW n \in Nat, NEW m, Matrix(m, n), NEW centres
  PROVE  DrawnOver(m, AdjustPattern(m, centres), n)
  <1> DEFINE d == AdjustPattern(m, centres)
             near(r) == {x \in centres : r - x[1] \in -2 .. 2}
             at0(r, c) == CHOOSE x \in near(r) : c - x[2] \in -2 .. 2
             inside(r, c) == \E x \in near(r) : c - x[2] \in -2 .. 2
             shape(r, c) == r - at0(r, c)[1] \in {-2, 2} \/ c - at0(r, c)[2] \in {-2, 2}
                              \/ <<r, c>> = at0(r, c)
  <1>1. DOMAIN m = 0 .. n - 1
    BY DEF Matrix
  <1>2. d = [r \in 0 .. n - 1 |-> [c \in 0 .. n - 1 |->
               IF inside(r, c) THEN Module(shape(r, c)) ELSE m[r][c]]]
    BY <1>1 DEF AdjustPattern
  <1> HIDE DEF d, inside, shape
  <1>3. ASSUME NEW r \in 0 .. n - 1, NEW c \in 0 .. n - 1
        PROVE  d[r][c] \in Cells /\ (m[r][c] # "null" => d[r][c] # "null")
    <2>1. d[r][c] = IF inside(r, c) THEN Module(shape(r, c)) ELSE m[r][c]
      BY <1>2
    <2>2. m[r][c] \in Cells
      BY DEF Matrix
    <2> QED BY <2>1, <2>2, ModuleType
  <1>4. Matrix(d, n)
    BY <1>2, <1>3 DEF Matrix
  <1> QED BY <1>3, <1>4 DEF DrawnOver, d

(* The timing pattern decides column 6 between the position patterns.      *)
LEMMA TimingDrawn ==
  ASSUME NEW n \in Nat, NEW m, Matrix(m, n)
  PROVE  /\ DrawnOver(m, setupTimingPattern(m, n), n)
         /\ \A r \in 8 .. n - 9 : 6 \in 0 .. n - 1 => setupTimingPattern(m, n)[r][6] # "null"
  <1> DEFINE d == setupTimingPattern(m, n)
             cell(r, c) == IF m[r][c] # "null" THEN m[r][c]
                           ELSE CASE c = 6 /\ r \in 8 .. n - 9 -> Module(r % 2 = 0)
                                  [] r = 6 /\ c \in 8 .. n - 9 -> Module(c % 2 = 0)
                                  [] OTHER                       -> "null"
  <1>1. DOMAIN m = 0 .. n - 1
    BY DEF Matrix
  <1>2. d = [r \in 0 .. n - 1 |-> [c \in 0 .. n - 1 |-> cell(r, c)]]
    BY <1>1 DEF setupTimingPattern
  <1>3. ASSUME NEW r \in 0 .. n - 1, NEW c \in 0 .. n - 1
        PROVE  /\ cell(r, c) \in Cells /\ (m[r][c] # "null" => cell(r, c) = m[r][c])
               /\ c = 6 /\ r \in 8 .. n - 9 => cell(r, c) # "null"
    <2>1. m[r][c] \in Cells
      BY DEF Matrix
    <2>2. CASE m[r][c] # "null"
      BY <2>1, <2>2
    <2>3. CASE m[r][c] = "null" /\ c = 6 /\ r \in 8 .. n - 9
      <3>1. cell(r, c) \in {Module(r % 2 = 0), Module(c % 2 = 0)}
        BY <2>3
      <3> QED BY <2>3, <3>1, ModuleType
    <2>4. CASE m[r][c] = "null" /\ ~(c = 6 /\ r \in 8 .. n - 9)
      <3>1. cell(r, c) \in {Module(c % 2 = 0), "null"}
        BY <2>4
      <3> QED BY <2>4, <3>1, ModuleType DEF Cells
    <2> QED BY <2>2, <2>3, <2>4
  <1> HIDE DEF d, cell
  <1>4. \A r, c \in 0 .. n - 1 : d[r][c] = cell(r, c)
    BY <1>2
  <1>5. Matrix(d, n)
    BY <1>2, <1>3 DEF Matrix
  <1>6. ASSUME NEW r \in 8 .. n - 9, 6 \in 0 .. n - 1 PROVE d[r][6] # "null"
    <2>1. r \in 0 .. n - 1
      OBVIOUS
    <2> QED BY <1>3, <1>4, <1>6, <2>1
  <1> QED BY <1>3, <1>4, <1>5, <1>6 DEF DrawnOver, d

(* The type information is drawn over its modules.                         *)
LEMMA TypeInfoDrawn ==
  ASSUME NEW n \in Nat, NEW m, Matrix(m, n), NEW level, NEW isTest, NEW mask
  PROVE  DrawnOver(m, setupTypeInfo(m, n, level, isTest, mask), n)
  <1> DEFINE bits0 == getBCHTypeInfo(QRErrorCorrectionLevel[level] * 8 + mask)
             Drawn0(i) == Module(~isTest /\ Bit(bits0, i) = 1)
             down(r) == {i \in 0 .. 14 : Vertical(n, i) = r}
             across(c) == {i \in 0 .. 14 : Horizontal(n, i) = c}
             d == setupTypeInfo(m, n, level, isTest, mask)
             cell(r, c) == CASE c = 8 /\ r = n - 8         -> Module(~isTest)
                             [] r = 8 /\ across(c) # {}    -> Drawn0(CHOOSE i \in across(c) : TRUE)
                             [] c = 8 /\ r # n - 8 /\ down(r) # {} -> Drawn0(CHOOSE i \in down(r) : TRUE)
                             [] OTHER                      -> m[r][c]
  <1>1. DOMAIN m = 0 .. n - 1
    BY DEF Matrix
  <1>2. d = [r \in 0 .. n - 1 |-> [c \in 0 .. n - 1 |-> cell(r, c)]]
    BY <1>1 DEF setupTypeInfo
  <1>3. ASSUME NEW r \in 0 .. n - 1, NEW c \in 0 .. n - 1
        PROVE  cell(r, c) \in Cells /\ (m[r][c] # "null" => cell(r, c) # "null")
    <2>1. m[r][c] \in Cells
      BY DEF Matrix
    <2>2. \A i : Drawn0(i) \in Cells /\ Drawn0(i) # "null"
      BY ModuleType
    <2>3. Module(~isTest) \in Cells /\ Module(~isTest) # "null"
      BY ModuleType
    <2> DEFINE a == across(c)
               b == down(r)
    <2> HIDE DEF Drawn0, a, b
    <2>4. cell(r, c) \in {Module(~isTest), Drawn0(CHOOSE i \in a : TRUE), Drawn0(CHOOSE i \in b : TRUE), m[r][c]}
      BY DEF a, b
    <2> QED BY <2>1, <2>2, <2>3, <2>4
  <1> HIDE DEF d, cell
  <1>4. \A r, c \in 0 .. n - 1 : d[r][c] = cell(r, c)
    BY <1>2
  <1>5. Matrix(d, n)
    BY <1>2, <1>3 DEF Matrix
  <1> QED BY <1>3, <1>4, <1>5 DEF DrawnOver, d

(* So is the type number.                                                  *)
LEMMA TypeNumberDrawn ==
  ASSUME NEW n \in Nat, NEW m, Matrix(m, n), NEW type, NEW isTest
  PROVE  DrawnOver(m, setupTypeNumber(m, n, type, isTest), n)
  <1> DEFINE bits0 == getBCHTypeNumber(type)
             Drawn0(long, short) == Module(~isTest /\ Bit(bits0, 3 * long + short) = 1)
             d == setupTypeNumber(m, n, type, isTest)
             cell(r, c) == CASE r \in 0 .. 5 /\ c \in n - 11 .. n - 9 -> Drawn0(r, c - (n - 11))
                             [] c \in 0 .. 5 /\ r \in n - 11 .. n - 9 -> Drawn0(c, r - (n - 11))
                             [] OTHER -> m[r][c]
  <1>1. DOMAIN m = 0 .. n - 1
    BY DEF Matrix
  <1>2. d = [r \in 0 .. n - 1 |-> [c \in 0 .. n - 1 |-> cell(r, c)]]
    BY <1>1 DEF setupTypeNumber
  <1>3. ASSUME NEW r \in 0 .. n - 1, NEW c \in 0 .. n - 1
        PROVE  cell(r, c) \in Cells /\ (m[r][c] # "null" => cell(r, c) # "null")
    <2>1. m[r][c] \in Cells
      BY DEF Matrix
    <2>2. \A i, j : Drawn0(i, j) \in Cells /\ Drawn0(i, j) # "null"
      BY ModuleType
    <2> HIDE DEF Drawn0
    <2>4. cell(r, c) \in {Drawn0(r, c - (n - 11)), Drawn0(c, r - (n - 11)), m[r][c]}
      OBVIOUS
    <2> QED BY <2>1, <2>2, <2>4
  <1> HIDE DEF d, cell
  <1>4. \A r, c \in 0 .. n - 1 : d[r][c] = cell(r, c)
    BY <1>2
  <1>5. Matrix(d, n)
    BY <1>2, <1>3 DEF Matrix
  <1> QED BY <1>3, <1>4, <1>5 DEF DrawnOver, d

(* Column 6 belongs to the patterns.                                       *)
Full(m, n, c) == \A r \in 0 .. n - 1 : m[r][c] # "null"

(* When all patterns are drawn the whole of column 6 is decided: by two    *)
(* position patterns at its ends and the timing pattern between them.      *)
LEMMA PatternsDrawn ==
  ASSUME NEW type \in 1 .. 40, NEW n \in Nat, n = type * 4 + 17, NEW level, NEW isTest, NEW mask
  PROVE  /\ Matrix(Patterns(n, type, level, isTest, mask), n)
         /\ Full(Patterns(n, type, level, isTest, mask), n, 6)
  <1>1. n >= 21 /\ 6 \in 0 .. n - 1 /\ n - 7 \in Int /\ 0 \in Int
    OBVIOUS
  <1> DEFINE blank == Blank(n)
             p1 == setupPositionProbePattern(blank, 0, 0)
             p2 == setupPositionProbePattern(p1, n - 7, 0)
             p3 == setupPositionProbePattern(p2, 0, n - 7)
             adjusted == setupPositionAdjustPattern(p3, type)
             timed == setupTimingPattern(adjusted, n)
             typed == setupTypeInfo(timed, n, level, isTest, mask)
             numbered == setupTypeNumber(typed, n, type, isTest)
  <1>2. Patterns(n, type, level, isTest, mask) = IF type >= 7 THEN numbered ELSE typed
    BY DEF Patterns
  <1>3. Matrix(blank, n)
    BY BlankType
  <1> HIDE DEF blank
  <1>4. /\ DrawnOver(blank, p1, n) /\ Matrix(p1, n)
        /\ \A r, c \in 0 .. n - 1 : r - 0 \in -1 .. 7 /\ c - 0 \in -1 .. 7 => p1[r][c] # "null"
    BY <1>1, <1>3, ProbeDrawn DEF DrawnOver
  <1> HIDE DEF p1
  <1>5. /\ DrawnOver(p1, p2, n) /\ Matrix(p2, n)
        /\ \A r, c \in 0 .. n - 1 : r - (n - 7) \in -1 .. 7 /\ c - 0 \in -1 .. 7 => p2[r][c] # "null"
    BY <1>1, <1>4, ProbeDrawn DEF DrawnOver
  <1> HIDE DEF p2
  <1>6. DrawnOver(p2, p3, n) /\ Matrix(p3, n)
    BY <1>1, <1>5, ProbeDrawn DEF DrawnOver
  <1> HIDE DEF p3
  <1>7. DrawnOver(p3, adjusted, n) /\ Matrix(adjusted, n)
    <2> DEFINE pos == ToSet(PATTERN_POSITION_TABLE[type])
               centres == {x \in pos \X pos : p3[x[1]][x[2]] = "null"}
    <2>1. adjusted = AdjustPattern(p3, centres)
      BY DEF setupPositionAdjustPattern
    <2> HIDE DEF centres, adjusted
    <2>2. DrawnOver(p3, AdjustPattern(p3, centres), n)
      BY <1>6, AdjustDrawn
    <2> QED BY <2>1, <2>2 DEF DrawnOver
  <1> HIDE DEF adjusted
  <1>8. /\ DrawnOver(adjusted, timed, n) /\ Matrix(timed, n)
        /\ \A r \in 8 .. n - 9 : timed[r][6] # "null"
    <2>1. /\ DrawnOver(adjusted, timed, n)
          /\ \A r \in 8 .. n - 9 : 6 \in 0 .. n - 1 => timed[r][6] # "null"
      BY <1>7, TimingDrawn
    <2>2. \A r \in 8 .. n - 9 : timed[r][6] # "null"
      BY <1>1, <2>1
    <2>3. Matrix(timed, n)
      BY <2>1 DEF DrawnOver
    <2> QED BY <2>1, <2>2, <2>3
  <1> HIDE DEF timed
  <1>9. DrawnOver(timed, typed, n) /\ Matrix(typed, n)
    BY <1>8, TypeInfoDrawn DEF DrawnOver
  <1> HIDE DEF typed
  <1>10. DrawnOver(typed, numbered, n) /\ Matrix(numbered, n)
    BY <1>9, TypeNumberDrawn DEF DrawnOver
  <1> HIDE DEF numbered
  <1>11. ASSUME NEW r \in 0 .. n - 1 PROVE timed[r][6] # "null"
    <2>1. CASE r \in 0 .. 7
      <3>1. p1[r][6] # "null"
        BY <1>1, <1>4, <2>1
      <3> QED BY <1>1, <1>5, <1>6, <1>7, <1>8, <3>1 DEF DrawnOver
    <2>2. CASE r \in 8 .. n - 9
      BY <1>8, <2>2
    <2>3. CASE r \in n - 8 .. n - 1
      <3>1. p2[r][6] # "null"
        BY <1>1, <1>5, <2>3
      <3> QED BY <1>1, <1>6, <1>7, <1>8, <3>1 DEF DrawnOver
    <2> QED BY <1>1, <2>1, <2>2, <2>3
  <1>12. Full(typed, n, 6)
    BY <1>1, <1>9, <1>11 DEF DrawnOver, Full
  <1>13. Full(numbered, n, 6)
    BY <1>1, <1>10, <1>12 DEF DrawnOver, Full
  <1> QED BY <1>2, <1>9, <1>10, <1>12, <1>13

(* A penalty is a number, and not a negative one.                          *)
LEMMA LostPointType ==
  ASSUME NEW m, NEW n \in Nat
  PROVE  getLostPoint(m, n) \in Nat
  <1> DEFINE isDark(r, c) == m[r][c] = "dark"
             All(h, w) == (0 .. n - 1 - h) \X (0 .. n - 1 - w)
             same(r, c) == Cardinality({d \in Around :
                      /\ r + d[1] \in DOMAIN m /\ c + d[2] \in DOMAIN m
                      /\ m[r + d[1]][c + d[2]] = m[r][c]})
             crowd == {<<x, same(x[1], x[2])>> : x \in All(0, 0)}
             crowded(k) == Cardinality({x \in crowd : x[2] = k})
             level1 == 4 * crowded(6) + 5 * crowded(7) + 6 * crowded(8)
             level2 == 3 * Cardinality({x \in All(1, 1) :
                  \A i, j \in 0 .. 1 : m[x[1] + i][x[2] + j] = m[x[1]][x[2]]})
             probe == <<TRUE, FALSE, TRUE, TRUE, TRUE, FALSE, TRUE>>
             across == {x \in All(0, 6) : \A k \in 0 .. 6 : isDark(x[1], x[2] + k) = probe[k + 1]}
             down == {x \in All(6, 0) : \A k \in 0 .. 6 : isDark(x[1] + k, x[2]) = probe[k + 1]}
             level3 == 40 * (Cardinality(across) + Cardinality(down))
             darkCount == Cardinality({x \in All(0, 0) : isDark(x[1], x[2])})
             off == 100 * darkCount - 50 * n * n
  <1>1. getLostPoint(m, n) = (level1 + level2 + level3) * n * n + 2 * (IF off < 0 THEN -off ELSE off)
    BY DEF getLostPoint
  <1>2. ASSUME NEW h \in Nat, NEW w \in Nat PROVE IsFiniteSet(All(h, w))
    <2>1. 0 \in Int /\ n - 1 - h \in Int /\ n - 1 - w \in Int
      OBVIOUS
    <2> DEFINE H == 0 .. n - 1 - h
               W == 0 .. n - 1 - w
    <2>2. IsFiniteSet(H) /\ IsFiniteSet(W)
      BY <2>1, FS_Interval
    <2> HIDE DEF H, W
    <2>3. IsFiniteSet(H \X W)
      BY <2>2, FS_Product
    <2> QED BY <2>3 DEF H, W
  <1>3. ASSUME NEW S, NEW T, IsFiniteSet(S), T \subseteq S PROVE Cardinality(T) \in Nat
    BY <1>3, FS_Subset, FS_CardinalityType
  <1>4. IsFiniteSet(crowd)
    <2> DEFINE of == [x \in All(0, 0) |-> <<x, same(x[1], x[2])>>]
               A == All(0, 0)
    <2>1. crowd = {of[x] : x \in A}
      OBVIOUS
    <2>2. IsFiniteSet(A)
      BY <1>2
    <2> HIDE DEF of, A, crowd
    <2>3. of \in Surjection(A, crowd)
      <3>1. of = [x \in A |-> of[x]]
        BY DEF of, A
      <3>2. of \in [A -> crowd] /\ \A y \in crowd : \E x \in A : of[x] = y
        BY <2>1, <3>1
      <3> QED BY <3>2 DEF Surjection
    <2> QED BY <2>2, <2>3, FS_Surjection
  <1>5. \A k : crowded(k) \in Nat
    <2> HIDE DEF crowd
    <2> QED BY <1>3, <1>4
  <1>6. level1 \in Nat
    <2> HIDE DEF crowded
    <2> QED BY <1>5
  <1>7. level2 \in Nat
    <2> DEFINE T == {x \in All(1, 1) : \A i, j \in 0 .. 1 : m[x[1] + i][x[2] + j] = m[x[1]][x[2]]}
    <2>1. T \subseteq All(1, 1) /\ IsFiniteSet(All(1, 1))
      BY <1>2
    <2> HIDE DEF T, All
    <2>2. Cardinality(T) \in Nat
      BY <1>3, <2>1
    <2>3. 3 * Cardinality(T) \in Nat
      BY <2>2
    <2> QED BY <2>3 DEF T, All
  <1>8. level3 \in Nat
    <2>1. across \subseteq All(0, 6) /\ IsFiniteSet(All(0, 6)) /\ down \subseteq All(6, 0) /\ IsFiniteSet(All(6, 0))
      BY <1>2
    <2> HIDE DEF across, down, All
    <2>2. Cardinality(across) \in Nat /\ Cardinality(down) \in Nat
      BY <1>3, <2>1
    <2> QED BY <2>2
  <1>9. darkCount \in Nat
    <2> DEFINE T == {x \in All(0, 0) : isDark(x[1], x[2])}
    <2>1. T \subseteq All(0, 0) /\ IsFiniteSet(All(0, 0))
      BY <1>2
    <2> HIDE DEF T, All
    <2>2. Cardinality(T) \in Nat
      BY <1>3, <2>1
    <2> QED BY <2>2 DEF T, All
  <1> HIDE DEF level1, level2, level3, darkCount
  <1>10. off \in Int
    <2>1. 50 * n * n \in Int
      OBVIOUS
    <2> QED BY <1>9, <2>1
  <1>11. (level1 + level2 + level3) * n * n \in Nat
    <2>1. PICK k \in Nat : k = level1 + level2 + level3
      BY <1>6, <1>7, <1>8
    <2>2. k * n \in Nat
      OBVIOUS
    <2>3. k * n * n \in Nat
      BY <2>2
    <2> QED BY <2>1, <2>3
  <1> HIDE DEF off
  <1>12. 2 * (IF off < 0 THEN -off ELSE off) \in Nat
    BY <1>10
  <1> QED BY <1>1, <1>11, <1>12

-----------------------------------------------------------------------------
(* How far the drawing has come, step by step.                             *)
Kinds ==
  /\ pc \in {"make", "draw", "cache", "map", "score", "made", "thrown"}
  /\ test \in BOOLEAN /\ maskPattern \in 0 .. 7 /\ pattern \in 0 .. 7 /\ minLostPoint \in Nat
  /\ inc \in {-1, 1} /\ placed \in Nat /\ col \in -1 .. 176

(* Right of the column that is next, and in column 6, nothing is undecided *)
(* any more; the pairs of columns are even and odd up to the timing        *)
(* pattern, odd and even after it.                                         *)
Mapping ==
  /\ col \in 1 .. _moduleCount - 1
  /\ (col >= 6) <=> (col % 2 = 0)
  /\ \A c \in col + 1 .. _moduleCount - 1 : Full(_modules, _moduleCount, c)

(* Together, the inductive invariant of the drawing.                       *)
SymbolInv ==
  /\ Kinds
  /\ _modules = <<>> \/ (_typeNumber >= 1 /\ Matrix(_modules, _moduleCount))
  /\ pc \notin {"make", "thrown"} => _typeNumber >= 1
  /\ pc \in {"cache", "map", "score", "made"} => Matrix(_modules, _moduleCount)
  /\ pc \in {"cache", "map"} => Full(_modules, _moduleCount, 6)
  /\ pc = "map" => Mapping
  /\ pc \in {"score", "made"} =>
       \A c \in 0 .. _moduleCount - 1 : Full(_modules, _moduleCount, c)

(* Nothing is drawn at the start.                                          *)
LEMMA SymbolInvInit == Init => SymbolInv
  <1> SUFFICES ASSUME Init PROVE SymbolInv
    OBVIOUS
  <1>1. /\ _modules = <<>> /\ pc = "make" /\ test = FALSE /\ maskPattern = 0 /\ minLostPoint = 0
        /\ pattern = 0 /\ col = 0 /\ inc = -1 /\ placed = 0
    BY DEF Init, SymbolInit
  <1>2. Kinds
    <2>1. test \in BOOLEAN
      BY <1>1
    <2>2. minLostPoint \in Nat /\ placed \in Nat /\ inc \in {-1, 1} /\ col \in -1 .. 176
          /\ maskPattern \in 0 .. 7 /\ pattern \in 0 .. 7
      BY <1>1
    <2> QED BY <1>1, <2>1, <2>2 DEF Kinds
  <1> QED BY <1>1, <1>2 DEF SymbolInv

(* make begins with the first mask, in a type.                             *)
LEMMA MakeStep == ASSUME SymbolInv, EncoderInv, Make PROVE SymbolInv'
  <1>1. CASE _typeNumber < 1 /\ ~Writable(_dataList)
    <2>1. Throw
      BY <1>1 DEF Make
    <2>2. UNCHANGED <<_modules, _typeNumber, test, maskPattern, pattern, minLostPoint, inc, placed, col>>
          /\ pc' = "thrown"
      BY <2>1 DEF Throw, best, place
    <2>3. Kinds'
      BY <2>2 DEF SymbolInv, Kinds
    <2> QED BY <2>2, <2>3 DEF SymbolInv, _moduleCount
  <1>2. CASE ~(_typeNumber < 1 /\ ~Writable(_dataList))
    <2>1. /\ _typeNumber' = (IF _typeNumber < 1 THEN SmallestType ELSE _typeNumber)
          /\ pc' = "draw" /\ test' = TRUE /\ maskPattern' = 0 /\ minLostPoint' = 0 /\ pattern' = 0
          /\ UNCHANGED <<_modules, inc, placed, col>>
      BY <1>2 DEF Make, makeImpl, place
    <2>2. _typeNumber' >= 1 /\ (_typeNumber >= 1 => _typeNumber' = _typeNumber)
      BY <2>1, SmallestTypeRange DEF EncoderInv
    <2>3. Kinds'
      BY <2>1 DEF SymbolInv, Kinds
    <2> QED BY <2>1, <2>2, <2>3 DEF SymbolInv, _moduleCount
  <1> QED BY <1>1, <1>2

(* The drawing begins with the patterns on modules of its own.             *)
LEMMA DrawStep == ASSUME SymbolInv, EncoderInv, DrawPatterns PROVE SymbolInv'
  <1>1. /\ _modules' = Patterns(_moduleCount, _typeNumber, request.level, test, maskPattern)
        /\ pc = "draw" /\ pc' = "cache"
        /\ UNCHANGED <<_typeNumber, test, maskPattern, pattern, minLostPoint, inc, placed, col>>
    BY DEF DrawPatterns, best, place
  <1>2. _typeNumber \in 1 .. 40
    BY <1>1 DEF SymbolInv, EncoderInv
  <1>3. _moduleCount \in Nat /\ _moduleCount = _typeNumber * 4 + 17 /\ _moduleCount' = _moduleCount
    BY <1>1, <1>2 DEF _moduleCount
  <1>4. Matrix(_modules', _moduleCount) /\ Full(_modules', _moduleCount, 6)
    BY <1>1, <1>2, <1>3, PatternsDrawn
  <1>5. Kinds'
    BY <1>1 DEF SymbolInv, Kinds
  <1> QED BY <1>1, <1>2, <1>3, <1>4, <1>5 DEF SymbolInv

(* mapData begins at the right, in an even column.                         *)
LEMMA CacheStep == ASSUME SymbolInv, EncoderInv, Cache PROVE SymbolInv'
  <1>1. pc = "cache" /\ _typeNumber \in 1 .. 40
    BY DEF Cache, SymbolInv, EncoderInv
  <1> DEFINE refused == _dataCache = NoCache /\ (~Writable(_dataList) \/ Overflow)
  <1>2. CASE refused
    <2>1. Throw
      BY <1>2 DEF Cache
    <2>2. UNCHANGED <<_modules, _typeNumber, test, maskPattern, pattern, minLostPoint, inc, placed, col>>
          /\ pc' = "thrown"
      BY <2>1 DEF Throw, best, place
    <2>3. Kinds'
      BY <2>2 DEF SymbolInv, Kinds
    <2> QED BY <2>2, <2>3 DEF SymbolInv, _moduleCount
  <1>3. CASE ~refused
    <2>1. /\ col' = _moduleCount - 1 /\ inc' = -1 /\ placed' = 0 /\ pc' = "map"
          /\ UNCHANGED <<_modules, _typeNumber, test, maskPattern, pattern, minLostPoint>>
      BY <1>3 DEF Cache, best
    <2>2. _moduleCount \in 21 .. 177 /\ _moduleCount' = _moduleCount /\ (_moduleCount - 1) % 2 = 0
      BY <1>1, <2>1 DEF _moduleCount
    <2>3. Kinds'
      BY <2>1, <2>2 DEF SymbolInv, Kinds
    <2>4. Mapping'
      BY <2>1, <2>2 DEF Mapping
    <2>5. Full(_modules', _moduleCount', 6) /\ Matrix(_modules', _moduleCount')
      BY <1>1, <2>1, <2>2 DEF SymbolInv
    <2>6. _typeNumber' >= 1
      BY <1>1, <2>1
    <2> QED BY <2>1, <2>3, <2>4, <2>5, <2>6 DEF SymbolInv
  <1> QED BY <1>2, <1>3

(* The next mask is one of the eight.                                      *)
LEMMA ScoreStep == ASSUME SymbolInv, EncoderInv, Score PROVE SymbolInv'
  <1>1. /\ pc = "score" /\ pc' = "draw" /\ pattern' \in {pattern, maskPattern}
        /\ minLostPoint' \in {minLostPoint, getLostPoint(_modules, _moduleCount)}
        /\ test' \in BOOLEAN /\ maskPattern' \in {maskPattern + 1, pattern'}
        /\ maskPattern' = maskPattern + 1 => maskPattern < 7 \/ maskPattern' = pattern'
        /\ UNCHANGED <<_modules, _typeNumber, inc, placed, col>>
    BY DEF Score, makeImpl, place
  <1>2. _typeNumber \in 1 .. 40
    BY <1>1 DEF SymbolInv, EncoderInv
  <1>3. _moduleCount \in Nat /\ _moduleCount' = _moduleCount
    BY <1>1, <1>2 DEF _moduleCount
  <1>4. Kinds'
    <2>1. minLostPoint' \in Nat
      BY <1>1, <1>3, LostPointType DEF SymbolInv, Kinds
    <2>2. pattern' \in 0 .. 7 /\ maskPattern' \in 0 .. 7
      BY <1>1 DEF SymbolInv, Kinds
    <2> QED BY <1>1, <2>1, <2>2 DEF SymbolInv, Kinds
  <1> QED BY <1>1, <1>2, <1>3, <1>4 DEF SymbolInv

(* addData leaves the symbol as it is.                                     *)
LEMMA AddDataStep == ASSUME SymbolInv, EncoderInv, AddData PROVE SymbolInv'
  <1>1. /\ pc' = "make"
        /\ UNCHANGED <<_modules, _typeNumber, test, maskPattern, pattern, minLostPoint, inc, placed, col>>
    BY DEF AddData, best, place
  <1>2. Kinds'
    BY <1>1 DEF SymbolInv, Kinds
  <1> QED BY <1>1, <1>2 DEF SymbolInv, _moduleCount

(* A pair of columns is decided, the next one is two to the left, and past *)
(* column 6 the pairs begin in odd columns: after column 1 there is none   *)
(* (qrcode.js:216-265).                                                    *)
LEMMA MapStep == ASSUME SymbolInv, EncoderInv, MapColumn PROVE SymbolInv'
  <1> DEFINE n == _moduleCount
             right == SkipTiming(col)
             rows == DOMAIN _modules
             Free(R) == Cardinality({x \in R \X {right, right - 1} : _modules[x[1]][x[2]] = "null"})
             passed(r) == IF inc = -1 THEN {i \in rows : i > r} ELSE {i \in rows : i < r}
             beside(r, c) == IF c < right /\ _modules[r][right] = "null" THEN 1 ELSE 0
             mark(r, c) == DataBit(placed + Free(passed(r)) + beside(r, c))
                             # getMaskFunction(maskPattern, r, c)
             cell(r, c) == IF c \in {right, right - 1} /\ _modules[r][c] = "null"
                           THEN Module(mark(r, c)) ELSE _modules[r][c]
  <1>1. /\ pc = "map"
        /\ _modules' = [r \in rows |-> [c \in rows |-> cell(r, c)]]
        /\ placed' = placed + Free(rows)
        /\ col' = right - 2 /\ inc' = -inc
        /\ pc' = (CASE right - 2 > 0 -> "map" [] right - 2 <= 0 /\ test -> "score"
                     [] right - 2 <= 0 /\ ~test -> "made")
        /\ UNCHANGED <<_typeNumber, test, maskPattern, pattern, minLostPoint>>
    BY DEF MapColumn, best
  <1>2. _typeNumber \in 1 .. 40 /\ Matrix(_modules, n) /\ Full(_modules, n, 6) /\ Mapping /\ Kinds
    BY <1>1 DEF SymbolInv, EncoderInv
  <1>3. n \in 21 .. 177 /\ n' = n
    BY <1>1, <1>2 DEF _moduleCount
  <1>4. rows = 0 .. n - 1
    BY <1>2 DEF Matrix
  <1>5. /\ right \in 1 .. n - 1 /\ right \in Int
        /\ right = (IF col = 6 THEN 5 ELSE col)
    BY <1>2, <1>3 DEF SkipTiming, Mapping
  <1>6. placed' \in Nat
    <2> DEFINE C == {right, right - 1}
               T == {x \in rows \X C : _modules[x[1]][x[2]] = "null"}
    <2>1. IsFiniteSet(rows)
      <3>1. 0 \in Int /\ n - 1 \in Int
        BY <1>3
      <3> HIDE DEF n, rows
      <3> QED BY <1>4, <3>1, FS_Interval
    <2>2. IsFiniteSet(C)
      <3>1. right - 1 \in Int /\ C \subseteq right - 1 .. right
        BY <1>5
      <3> HIDE DEF C, right
      <3> QED BY <1>5, <3>1, FS_Interval, FS_Subset
    <2> HIDE DEF C, rows
    <2>3. IsFiniteSet(rows \X C) /\ T \subseteq rows \X C
      BY <2>1, <2>2, FS_Product
    <2> HIDE DEF T
    <2>4. Cardinality(T) \in Nat
      BY <2>3, FS_Subset, FS_CardinalityType
    <2>5. Free(rows) \in Nat
      BY <2>4 DEF T, C
    <2> HIDE DEF Free
    <2> QED BY <1>1, <1>2, <2>5 DEF Kinds
  <1> HIDE DEF mark
  <1>7. ASSUME NEW r \in 0 .. n - 1, NEW c \in 0 .. n - 1
        PROVE  /\ cell(r, c) \in Cells
               /\ _modules[r][c] # "null" => cell(r, c) # "null"
               /\ c \in {right, right - 1} => cell(r, c) # "null"
    <2>1. _modules[r][c] \in Cells
      BY <1>2 DEF Matrix
    <2> QED BY <2>1, ModuleType
  <1> HIDE DEF cell, right
  <1>8. _modules' = [r \in 0 .. n - 1 |-> [c \in 0 .. n - 1 |-> cell(r, c)]]
    BY <1>1, <1>4
  <1>9. \A r, c \in 0 .. n - 1 : _modules'[r][c] = cell(r, c)
    BY <1>8
  <1>10. Matrix(_modules', n')
    BY <1>3, <1>7, <1>8 DEF Matrix
  <1>11. ASSUME NEW c \in 0 .. n - 1, Full(_modules, n, c) \/ c \in {right, right - 1}
         PROVE  Full(_modules', n', c)
    BY <1>3, <1>7, <1>9, <1>11 DEF Full
  <1>12. ASSUME NEW c \in 0 .. n - 1, c > right - 2 PROVE Full(_modules', n', c)
    <2>1. CASE c > col
      <3>1. c \in col + 1 .. n - 1
        BY <1>2, <1>3, <1>12, <2>1 DEF Mapping
      <3> QED BY <1>2, <1>11, <3>1 DEF Mapping
    <2>2. CASE c <= col
      <3>1. c = 6 \/ c \in {right, right - 1}
        BY <1>2, <1>3, <1>5, <1>12, <2>2 DEF Mapping
      <3> QED BY <1>2, <1>11, <3>1
    <2> QED BY <1>2, <2>1, <2>2 DEF Mapping
  <1>13. Full(_modules', n', 6)
    BY <1>2, <1>3, <1>11
  <1>14. Kinds'
    <2>1. pc' \in {"map", "score", "made"}
      BY <1>1, <1>2, <1>5 DEF Kinds
    <2>2. col' \in -1 .. 176
      BY <1>1, <1>3, <1>5
    <2>3. inc' \in {-1, 1}
      BY <1>1, <1>2 DEF Kinds
    <2> QED BY <1>1, <1>2, <1>6, <2>1, <2>2, <2>3 DEF Kinds
  <1>15. CASE right - 2 > 0
    <2>1. pc' = "map"
      BY <1>1, <1>5, <1>15
    <2>2. col' \in 1 .. n' - 1 /\ ((col' >= 6) <=> (col' % 2 = 0))
      BY <1>1, <1>2, <1>3, <1>5, <1>15 DEF Mapping
    <2>3. \A c \in col' + 1 .. n' - 1 : c \in 0 .. n - 1 /\ c > right - 2
      BY <1>1, <1>3, <1>5, <1>15
    <2>4. Mapping'
      BY <1>12, <2>2, <2>3 DEF Mapping
    <2> QED BY <1>1, <1>2, <1>10, <1>13, <1>14, <2>1, <2>4 DEF SymbolInv
  <1>16. CASE right - 2 <= 0
    <2>1. pc' \in {"score", "made"}
      BY <1>1, <1>2, <1>5, <1>16 DEF Kinds
    <2>2. ASSUME NEW c \in 0 .. n' - 1 PROVE Full(_modules', n', c)
      <3>1. c \in 0 .. n - 1 /\ c > right - 2
        <4>1. 0 .. n' - 1 = 0 .. n - 1
          BY <1>3
        <4>2. c \in 0 .. n - 1
          BY <4>1
        <4>3. n \in Int /\ right = 1
          BY <1>2, <1>3, <1>5, <1>16 DEF Mapping
        <4> HIDE DEF n
        <4> QED BY <4>2, <4>3
      <3> QED BY <1>12, <3>1
    <2> QED BY <1>1, <1>2, <1>10, <1>14, <2>1, <2>2 DEF SymbolInv
  <1> QED BY <1>5, <1>15, <1>16

(* Every step of the encoder keeps the invariant.                          *)
LEMMA SymbolInvStep ==
  ASSUME SymbolInv, EncoderInv, [Next]_vars
  PROVE  SymbolInv'
  <1>1. CASE Symbol
    BY <1>1, MakeStep, DrawStep, CacheStep, MapStep, ScoreStep, AddDataStep DEF Symbol, SymbolNext
  <1>2. CASE UNCHANGED symbolVars
    <2>1. UNCHANGED <<_typeNumber, _modules, pc, test, maskPattern, minLostPoint, pattern, col, inc, placed>>
      BY <1>2 DEF symbolVars, best, place
    <2> QED BY <2>1 DEF SymbolInv, Kinds, Mapping, Full, _moduleCount
  <1> QED BY <1>1, <1>2 DEF Next, CreateDataURL, WriteImage, vars

(* Every variable of the encoder keeps its type and a finished symbol has  *)
(* no module undecided, for any requests.                                  *)
THEOREM QrTypesHold == Spec => []QrTypeOK
  <1> DEFINE Inv == EncoderInv /\ SymbolInv /\ RasterInv /\ StreamInv /\ ImageInv
  <1>1. Init => Inv
    BY EncoderInvInit, SymbolInvInit, ImageInvInit DEF Init
  <1>2. Inv /\ [Next]_vars => Inv'
    BY EncoderInvStep, SymbolInvStep, ImageInvStep
  <1>3. Inv => QrTypeOK
    <2> SUFFICES ASSUME Inv PROVE QrTypeOK
      OBVIOUS
    <2>1. DOMAIN _modules \in {{}, 0 .. _moduleCount - 1}
          /\ \A r \in DOMAIN _modules : _modules[r] \in [DOMAIN _modules -> Cells]
      <3>1. CASE _modules = <<>>
        BY <3>1
      <3>2. CASE Matrix(_modules, _moduleCount)
        BY <3>2 DEF Matrix
      <3> QED BY <3>1, <3>2 DEF SymbolInv
    <2>2. pc = "made" => \A r, c \in DOMAIN _modules : _modules[r][c] # "null"
      BY DEF SymbolInv, Full, Matrix
    <2>3. \A i \in DOMAIN gif : gif[i] \in 0 .. 255
      <3>1. gif \in Seq(0 .. 255)
        BY DEF ImageInv, Octets
      <3>2. ASSUME NEW i \in DOMAIN gif PROVE gif[i] \in 0 .. 255
        <4>1. i \in 1 .. Len(gif)
          BY <3>1
        <4> QED BY <3>1, <4>1, ElementOfSeq
      <3> QED BY <3>2
    <2> QED BY <2>1, <2>2, <2>3 DEF QrTypeOK, EncoderInv, SymbolInv, Kinds, ImageInv
  <1> QED BY <1>1, <1>2, <1>3, PTL DEF Spec

-----------------------------------------------------------------------------
(* The codewords are those of the data as it is now.                       *)
Current ==
  /\ _dataCache = createData(_typeNumber, request.level, _dataList)
  /\ Writable(_dataList) /\ ~Overflow

(* The type is the one that was asked for, or else the smallest that holds *)
(* what was added before the first make.                                   *)
Chosen(t) ==
  IF request.typeNumber # 0 THEN t = request.typeNumber
  ELSE /\ \A u \in 1 .. 39 : u < t => ~Fits(u, request.level, request.dataList)
       /\ t = 40 \/ Fits(t, request.level, request.dataList)

(* What is drawn and what is finished is the data as it is now, in the     *)
(* smallest type; what is refused cannot be written, or is too long for    *)
(* the type that was asked for, or for the one that was settled by the     *)
(* first make, or for type 40 (332-371, 424-453).                          *)
SymbolOfData ==
  /\ pc \in {"map", "score", "made"} => Current
  /\ pc \in {"draw", "cache", "map", "score", "made"} => Chosen(_typeNumber)
  /\ pc = "thrown" =>
       \/ ~Writable(_dataList)
       \/ /\ Overflow
          /\ _typeNumber = 40 \/ request.typeNumber # 0 \/ _dataList # request.dataList

(* With the cache between two drawings: the inductive invariant.           *)
DataInv ==
  /\ _typeNumber < 1 => _typeNumber = request.typeNumber /\ _dataList = request.dataList
  /\ _typeNumber >= 1 => Chosen(_typeNumber)
  /\ _dataCache # NoCache => Current
  /\ _dataCache # NoCache => _typeNumber >= 1
  /\ pc = "make" => _dataCache = NoCache
  /\ pc \in {"map", "score", "made"} => Current
  /\ pc = "thrown" => ~Writable(_dataList) \/ (Overflow /\ _typeNumber >= 1)

(* At the start there is no cache, and a type or none.                     *)
LEMMA DataInvInit == Init => DataInv
  <1> SUFFICES ASSUME Init PROVE DataInv
    OBVIOUS
  <1>1. /\ request \in Requests /\ _typeNumber = request.typeNumber /\ _dataList = request.dataList
        /\ _dataCache = NoCache /\ pc = "make"
    BY DEF Init, SymbolInit
  <1>2. _typeNumber \in 0 .. 40
    BY <1>1, RequestsAssumption
  <1>3. _typeNumber >= 1 => Chosen(_typeNumber)
    BY <1>1, <1>2 DEF Chosen
  <1> QED BY <1>1, <1>3 DEF DataInv

(* Make settles on the smallest type.                                      *)
LEMMA SmallestTypeHolds ==
  ASSUME request.typeNumber = 0, _dataList = request.dataList
  PROVE  Chosen(SmallestType)
  <1> DEFINE fitting == {t \in 1 .. 39 : Fits(t, request.level, _dataList)}
  <1>1. CASE fitting = {}
    <2>1. SmallestType = 40
      BY <1>1 DEF SmallestType
    <2>2. \A u \in 1 .. 39 : ~Fits(u, request.level, request.dataList)
      BY <1>1
    <2> QED BY <2>1, <2>2 DEF Chosen
  <1>2. CASE fitting # {}
    <2>1. SmallestType = Min(fitting)
      BY <1>2 DEF SmallestType
    <2>2. fitting \subseteq Nat
      OBVIOUS
    <2>3. Min(fitting) \in fitting /\ \A u \in fitting : Min(fitting) <= u
      <3> HIDE DEF fitting
      <3> QED BY <1>2, <2>2, LeastOf
    <2> DEFINE t == Min(fitting)
    <2> HIDE DEF t
    <2>4. t \in 1 .. 39 /\ Fits(t, request.level, request.dataList)
      BY <2>3 DEF t
    <2>5. ASSUME NEW u \in 1 .. 39, u < t PROVE ~Fits(u, request.level, request.dataList)
      <3>1. u \in fitting => t <= u
        BY <2>3 DEF t
      <3>2. u \notin fitting
        <4> HIDE DEF fitting
        <4> QED BY <2>4, <2>5, <3>1
      <3> QED BY <3>2
    <2>6. Chosen(t)
      BY <2>4, <2>5 DEF Chosen
    <2> QED BY <2>1, <2>6 DEF t
  <1> QED BY <1>1, <1>2

(* Every step of the symbol keeps the cache and the type those of the      *)
(* data.                                                                   *)
LEMMA SymbolDataStep ==
  ASSUME EncoderInv, SymbolInv, DataInv, SymbolNext
  PROVE  DataInv'
  <1>1. _typeNumber \in 0 .. 40 /\ request' = request /\ _typeNumber' \in 0 .. 40
        /\ (_typeNumber >= 1 => _typeNumber' = _typeNumber)
    BY TypeNumberStep DEF EncoderInv
  <1>2. ASSUME _dataList' = _dataList, _typeNumber' = _typeNumber
        PROVE  (Overflow' <=> Overflow)
    BY <1>1, <1>2 DEF Overflow
  <1>3. ASSUME _typeNumber >= 1 PROVE Chosen(_typeNumber')
    BY <1>1, <1>3 DEF DataInv
  <1>4. Chosen(_typeNumber)' <=> Chosen(_typeNumber')
    BY <1>1 DEF Chosen
  <1>5. CASE Make
    <2>1. _dataList' = _dataList /\ _dataCache' = _dataCache /\ pc = "make"
      BY <1>5 DEF Make, Throw
    <2>2. _dataCache' = NoCache
      BY <2>1 DEF DataInv
    <2>3. CASE _typeNumber < 1 /\ ~Writable(_dataList)
      <3>1. Throw
        BY <1>5, <2>3 DEF Make
      <3>2. pc' = "thrown" /\ _typeNumber' = _typeNumber
        BY <3>1 DEF Throw
      <3> QED BY <1>1, <2>1, <2>2, <2>3, <3>2 DEF DataInv
    <2>4. CASE ~(_typeNumber < 1 /\ ~Writable(_dataList))
      <3>1. /\ _typeNumber' = (IF _typeNumber < 1 THEN SmallestType ELSE _typeNumber)
            /\ pc' = "draw"
        BY <1>5, <2>4 DEF Make, makeImpl
      <3>2. _typeNumber' >= 1
        BY <1>1, <3>1, SmallestTypeRange
      <3>3. Chosen(_typeNumber')
        <4>1. CASE _typeNumber < 1
          <5>1. request.typeNumber = 0 /\ _dataList = request.dataList
            BY <1>1, <4>1 DEF DataInv
          <5> QED BY <3>1, <4>1, <5>1, SmallestTypeHolds
        <4>2. CASE _typeNumber >= 1
          BY <1>3, <4>2
        <4> QED BY <1>1, <4>1, <4>2
      <3> QED BY <1>1, <1>4, <2>2, <3>1, <3>2, <3>3 DEF DataInv
    <2> QED BY <2>3, <2>4
  <1>6. CASE DrawPatterns \/ MapColumn \/ Score
    <2>1. /\ UNCHANGED <<_dataList, _typeNumber, _dataCache>>
          /\ pc \in {"draw", "map", "score"} /\ pc' \in {"cache", "map", "score", "made", "draw"}
          /\ pc' \in {"map", "score", "made"} => pc = "map"
      <3>1. CASE DrawPatterns
        BY <3>1 DEF DrawPatterns
      <3>2. CASE MapColumn
        <4>1. pc = "map" /\ UNCHANGED <<_dataList, _typeNumber, _dataCache>>
          BY <3>2 DEF MapColumn
        <4>2. pc' \in {"map", "score", "made"}
          <5>1. SkipTiming(col) \in Int /\ test \in BOOLEAN
            BY <4>1 DEF SymbolInv, Kinds, SkipTiming
          <5>2. pc' = (CASE SkipTiming(col) - 2 > 0 -> "map"
                         [] SkipTiming(col) - 2 <= 0 /\ test -> "score"
                         [] SkipTiming(col) - 2 <= 0 /\ ~test -> "made")
            BY <3>2 DEF MapColumn
          <5> QED BY <5>1, <5>2
        <4> QED BY <4>1, <4>2
      <3>3. CASE Score
        BY <3>3 DEF Score, makeImpl
      <3> QED BY <1>6, <3>1, <3>2, <3>3
    <2>2. Current' <=> Current
      BY <1>1, <1>2, <2>1 DEF Current
    <2> QED BY <1>1, <1>4, <2>1, <2>2 DEF DataInv
  <1>7. CASE Cache
    <2>1. pc = "cache" /\ UNCHANGED <<_dataList, _typeNumber>>
      BY <1>7 DEF Cache, Throw
    <2>2. _typeNumber >= 1
      BY <2>1 DEF SymbolInv
    <2>3. CASE _dataCache = NoCache /\ (~Writable(_dataList) \/ Overflow)
      <3>1. Throw
        BY <1>7, <2>3 DEF Cache
      <3>2. pc' = "thrown" /\ _dataCache' = NoCache
        BY <2>3, <3>1 DEF Throw
      <3> QED BY <1>1, <1>2, <1>4, <2>1, <2>2, <2>3, <3>2 DEF DataInv
    <2>4. CASE ~(_dataCache = NoCache /\ (~Writable(_dataList) \/ Overflow))
      <3>1. /\ _dataCache' = (IF _dataCache = NoCache
                              THEN createData(_typeNumber, request.level, _dataList)
                              ELSE _dataCache)
            /\ pc' = "map"
        BY <1>7, <2>4 DEF Cache
      <3>2. /\ _dataCache' = createData(_typeNumber, request.level, _dataList)
            /\ Writable(_dataList) /\ ~Overflow
        BY <2>4, <3>1 DEF DataInv, Current
      <3>3. Current'
        BY <1>1, <1>2, <2>1, <3>2 DEF Current
      <3> QED BY <1>1, <1>4, <2>1, <2>2, <3>1, <3>3 DEF DataInv
    <2> QED BY <2>3, <2>4
  <1>8. CASE AddData
    <2>1. pc = "made" /\ pc' = "make" /\ _dataCache' = NoCache /\ _typeNumber' = _typeNumber
      BY <1>8 DEF AddData
    <2>2. _typeNumber >= 1
      BY <2>1 DEF SymbolInv
    <2> QED BY <1>1, <1>4, <2>1, <2>2 DEF DataInv
  <1> QED BY <1>5, <1>6, <1>7, <1>8 DEF SymbolNext

(* So does every step of the encoder.                                      *)
LEMMA DataInvStep ==
  ASSUME EncoderInv, SymbolInv, DataInv, [Next]_vars
  PROVE  DataInv'
  <1>1. CASE Symbol
    BY <1>1, SymbolDataStep DEF Symbol
  <1>2. CASE UNCHANGED symbolVars
    <2>1. UNCHANGED <<request, _dataList, _typeNumber, _dataCache, pc>>
      BY <1>2 DEF symbolVars
    <2>2. (Overflow' <=> Overflow) /\ (Chosen(_typeNumber)' <=> Chosen(_typeNumber))
      BY <2>1 DEF Overflow, Chosen
    <2> QED BY <2>1, <2>2 DEF DataInv, Current
  <1> QED BY <1>1, <1>2 DEF Next, CreateDataURL, WriteImage, vars

(* The symbol is always that of the data as it is now, in the type it      *)
(* ought to have, and nothing is refused that could be drawn, for any      *)
(* requests.                                                               *)
THEOREM SymbolIsOfTheData == Spec => []SymbolOfData
  <1> DEFINE Inv == EncoderInv /\ SymbolInv /\ DataInv /\ RasterInv /\ StreamInv /\ ImageInv
  <1>1. Init => Inv
    BY EncoderInvInit, SymbolInvInit, DataInvInit, ImageInvInit DEF Init
  <1>2. Inv /\ [Next]_vars => Inv'
    BY EncoderInvStep, SymbolInvStep, DataInvStep, ImageInvStep
  <1>3. Inv => SymbolOfData
    <2> SUFFICES ASSUME Inv PROVE SymbolOfData
      OBVIOUS
    <2>1. pc \in {"draw", "cache", "map", "score", "made"} => Chosen(_typeNumber)
      BY DEF SymbolInv, DataInv
    <2>2. ASSUME pc = "thrown", Writable(_dataList)
          PROVE  Overflow /\ (_typeNumber = 40 \/ request.typeNumber # 0 \/ _dataList # request.dataList)
      BY <2>2 DEF DataInv, Chosen, Overflow
    <2> QED BY <2>1, <2>2 DEF SymbolOfData, DataInv
  <1> QED BY <1>1, <1>2, <1>3, PTL DEF Spec

-----------------------------------------------------------------------------
(* The sum of a function counted: as many pairs for each x as f[x] says.   *)
Pairs(f, u) == {p \in u \X Nat : p[2] \in 1 .. f[p[1]]}

(* One element has as many pairs as its value.                             *)
LEMMA PairsOne ==
  ASSUME NEW f, NEW x, f[x] \in Nat
  PROVE  IsFiniteSet(Pairs(f, {x})) /\ Cardinality(Pairs(f, {x})) = f[x]
  <1> DEFINE S == 1 .. f[x]
             g == [i \in S |-> <<x, i>>]
  <1>1. IsFiniteSet(S) /\ Cardinality(S) = f[x]
    <2>1. PICK m \in Nat : m = f[x]
      OBVIOUS
    <2>2. IsFiniteSet(1 .. m) /\ Cardinality(1 .. m) = m
      BY FS_Interval
    <2> QED BY <2>1, <2>2
  <1>2. g \in Bijection(S, Pairs(f, {x}))
    <2>1. \A i \in S : g[i] \in Pairs(f, {x})
      BY DEF Pairs
    <2>2. \A p \in Pairs(f, {x}) : p[2] \in S /\ g[p[2]] = p
      BY DEF Pairs
    <2>3. \A i, j \in S : g[i] = g[j] => i = j
      OBVIOUS
    <2>4. g \in [S -> Pairs(f, {x})]
      BY <2>1
    <2>5. g \in Surjection(S, Pairs(f, {x}))
      BY <2>2, <2>4 DEF Surjection
    <2>6. g \in Injection(S, Pairs(f, {x}))
      BY <2>3, <2>4 DEF Injection, IsInjective
    <2> QED BY <2>5, <2>6 DEF Bijection
  <1>3. ExistsBijection(S, Pairs(f, {x}))
    BY <1>2 DEF ExistsBijection
  <1> QED BY <1>1, <1>3, FS_Bijection

(* Finitely many elements have finitely many pairs.                        *)
LEMMA PairsFinite ==
  ASSUME NEW f, NEW u, IsFiniteSet(u), \A x \in u : f[x] \in Nat
  PROVE  IsFiniteSet(Pairs(f, u)) /\ Cardinality(Pairs(f, u)) \in Nat
  <1> DEFINE P(x) == Pairs(f, {x})
             U == [x \in u |-> P(x)]
             All == {U[x] : x \in u}
  <1>1. IsFiniteSet(All)
    <2>1. U \in Surjection(u, All)
      <3>1. U \in [u -> All]
        OBVIOUS
      <3>2. \A y \in All : \E x \in u : U[x] = y
        OBVIOUS
      <3> QED BY <3>1, <3>2 DEF Surjection
    <2> QED BY <2>1, FS_Surjection
  <1>2. \A T \in All : IsFiniteSet(T)
    <2> SUFFICES ASSUME NEW x \in u PROVE IsFiniteSet(P(x))
      OBVIOUS
    <2>1. f[x] \in Nat
      OBVIOUS
    <2> QED BY <2>1, PairsOne
  <1>3. IsFiniteSet(UNION All)
    <2> HIDE DEF All
    <2> QED BY <1>1, <1>2, FS_UNION
  <1>4. Pairs(f, u) \subseteq UNION All
    <2> SUFFICES ASSUME NEW p \in Pairs(f, u) PROVE p \in UNION All
      OBVIOUS
    <2>1. p[1] \in u /\ p \in P(p[1])
      BY DEF Pairs
    <2>2. U[p[1]] \in All /\ U[p[1]] = P(p[1])
      BY <2>1
    <2> QED BY <2>1, <2>2
  <1> QED BY <1>3, <1>4, FS_Subset, FS_CardinalityType

(* The pairs of two sets that have no element in common add up.            *)
LEMMA PairsMore ==
  ASSUME NEW f, NEW u, NEW t, IsFiniteSet(u), IsFiniteSet(t), u \cap t = {},
         \A x \in u \cup t : f[x] \in Nat
  PROVE  Cardinality(Pairs(f, u \cup t)) = Cardinality(Pairs(f, u)) + Cardinality(Pairs(f, t))
  <1>1. Pairs(f, u \cup t) = Pairs(f, u) \cup Pairs(f, t) /\ Pairs(f, u) \cap Pairs(f, t) = {}
    BY DEF Pairs
  <1>2. IsFiniteSet(Pairs(f, u)) /\ IsFiniteSet(Pairs(f, t))
    BY PairsFinite
  <1>3. Cardinality(Pairs(f, u)) \in Nat /\ Cardinality(Pairs(f, t)) \in Nat /\ Cardinality({}) = 0
    BY <1>2, FS_CardinalityType, FS_EmptySet
  <1>4. Cardinality(Pairs(f, u) \cup Pairs(f, t))
          = Cardinality(Pairs(f, u)) + Cardinality(Pairs(f, t)) - Cardinality(Pairs(f, u) \cap Pairs(f, t))
    BY <1>2, FS_Union
  <1>5. Cardinality(Pairs(f, u) \cap Pairs(f, t)) = 0
    BY <1>1, <1>3
  <1>6. Cardinality(Pairs(f, u \cup t)) = Cardinality(Pairs(f, u) \cup Pairs(f, t))
    BY <1>1
  <1> QED BY <1>3, <1>4, <1>5, <1>6

(* What Total iterates.                                                    *)
Sums(iter, f) ==
  iter = [u \in SUBSET DOMAIN f |->
            IF u = {} THEN 0 ELSE LET x == CHOOSE x \in u : TRUE IN f[x] + iter[u \ {x}]]

(* So the number of pairs is a sum that takes one element after the other. *)
LEMMA PairsSum ==
  ASSUME NEW f, IsFiniteSet(DOMAIN f), \A x \in DOMAIN f : f[x] \in Nat
  PROVE  Sums([u \in SUBSET DOMAIN f |-> Cardinality(Pairs(f, u))], f)
  <1> DEFINE g == [u \in SUBSET DOMAIN f |-> Cardinality(Pairs(f, u))]
  <1>1. ASSUME NEW u \in SUBSET DOMAIN f, u # {}, NEW x \in u
        PROVE  g[u] = f[x] + g[u \ {x}]
    <2>1. IsFiniteSet(u \ {x}) /\ IsFiniteSet({x})
      BY FS_Subset
    <2>2. u = (u \ {x}) \cup {x} /\ (u \ {x}) \cap {x} = {} /\ u \ {x} \in SUBSET DOMAIN f
      OBVIOUS
    <2>3. Cardinality(Pairs(f, u)) = Cardinality(Pairs(f, u \ {x})) + Cardinality(Pairs(f, {x}))
      BY <2>1, <2>2, PairsMore
    <2>4. Cardinality(Pairs(f, {x})) = f[x] /\ f[x] \in Nat
      BY PairsOne
    <2>5. Cardinality(Pairs(f, u \ {x})) \in Nat
      BY <2>1, PairsFinite
    <2> QED BY <2>2, <2>3, <2>4, <2>5
  <1>2. g[{}] = 0
    <2>1. Pairs(f, {}) = {}
      BY DEF Pairs
    <2> QED BY <2>1, FS_EmptySet
  <1> HIDE DEF g
  <1>3. ASSUME NEW u \in SUBSET DOMAIN f
        PROVE  g[u] = IF u = {} THEN 0 ELSE LET x == CHOOSE x \in u : TRUE IN f[x] + g[u \ {x}]
    <2> DEFINE c == CHOOSE x \in u : TRUE
    <2>1. u # {} => c \in u
      OBVIOUS
    <2> HIDE DEF c
    <2>2. g[u] = IF u = {} THEN 0 ELSE f[c] + g[u \ {c}]
      BY <1>1, <1>2, <2>1
    <2> QED BY <2>2 DEF c
  <1>4. g = [u \in SUBSET DOMAIN f |->
            IF u = {} THEN 0 ELSE LET x == CHOOSE x \in u : TRUE IN f[x] + g[u \ {x}]]
    <2>1. g = [u \in SUBSET DOMAIN f |-> g[u]]
      BY DEF g
    <2> DEFINE h == [u \in SUBSET DOMAIN f |->
            IF u = {} THEN 0 ELSE LET x == CHOOSE x \in u : TRUE IN f[x] + g[u \ {x}]]
    <2>2. \A u \in SUBSET DOMAIN f : g[u] = h[u]
      BY <1>3
    <2>3. DOMAIN g = SUBSET DOMAIN f
      BY DEF g
    <2>4. h = [u \in SUBSET DOMAIN f |-> h[u]]
      OBVIOUS
    <2> HIDE DEF h
    <2>5. g = h
      BY <2>1, <2>2, <2>4
    <2> QED BY <2>5 DEF h
  <1> QED BY <1>4 DEF Sums, g

(* The sum is unique.                                                      *)
LEMMA SumsUnique ==
  ASSUME NEW f, IsFiniteSet(DOMAIN f), NEW g, Sums(g, f), NEW h, Sums(h, f)
  PROVE  g[DOMAIN f] = h[DOMAIN f]
  <1> DEFINE T == {n \in Nat : \A u \in SUBSET DOMAIN f : Cardinality(u) = n => g[u] = h[u]}
             next(k, u) == IF u = {} THEN 0 ELSE LET x == CHOOSE x \in u : TRUE IN f[x] + k[u \ {x}]
  <1>1. \A u \in SUBSET DOMAIN f : g[u] = next(g, u) /\ h[u] = next(h, u)
    BY DEF Sums
  <1>2. 0 \in T
    <2> SUFFICES ASSUME NEW u \in SUBSET DOMAIN f, Cardinality(u) = 0 PROVE g[u] = h[u]
      OBVIOUS
    <2>1. u = {}
      BY FS_Subset, FS_EmptySet
    <2> QED BY <2>1, <1>1
  <1>3. ASSUME NEW n \in Nat, n \in T PROVE n + 1 \in T
    <2> SUFFICES ASSUME NEW u \in SUBSET DOMAIN f, Cardinality(u) = n + 1 PROVE g[u] = h[u]
      OBVIOUS
    <2> DEFINE c == CHOOSE x \in u : TRUE
    <2>1. IsFiniteSet(u) /\ u # {}
      BY FS_Subset, FS_EmptySet
    <2>2. c \in u
      BY <2>1
    <2> HIDE DEF c
    <2>3. Cardinality(u \ {c}) = n
      <3>1. Cardinality(u \ {c}) = IF c \in u THEN Cardinality(u) - 1 ELSE Cardinality(u)
        BY <2>1, FS_RemoveElement
      <3> QED BY <2>2, <3>1
    <2>4. g[u \ {c}] = h[u \ {c}]
      BY <1>3, <2>3
    <2>5. g[u] = f[c] + g[u \ {c}] /\ h[u] = f[c] + h[u \ {c}]
      BY <1>1, <2>1 DEF c
    <2> QED BY <2>4, <2>5
  <1>4. Nat \subseteq T
    <2> HIDE DEF T
    <2> QED BY <1>2, <1>3, SetInduction
  <1>5. Cardinality(DOMAIN f) \in Nat
    BY FS_CardinalityType
  <1> QED BY <1>4, <1>5

(* Total, which folds a function, counts its pairs.                        *)
LEMMA TotalCounts ==
  ASSUME NEW f, IsFiniteSet(DOMAIN f), \A x \in DOMAIN f : f[x] \in Nat
  PROVE  Total(f) = Cardinality(Pairs(f, DOMAIN f)) /\ Total(f) \in Nat
  <1> DEFINE g == [u \in SUBSET DOMAIN f |-> Cardinality(Pairs(f, u))]
             sum == CHOOSE iter : Sums(iter, f)
  <1>1. Sums(g, f)
    BY PairsSum
  <1> HIDE DEF g
  <1>2. Sums(sum, f)
    BY <1>1
  <1>3. Total(f) = sum[DOMAIN f]
    BY DEF Total, FoldFunction, FoldFunctionOnSet, MapThenFoldSet, Sums
  <1> HIDE DEF sum
  <1>4. sum[DOMAIN f] = g[DOMAIN f]
    BY <1>1, <1>2, SumsUnique
  <1>5. g[DOMAIN f] = Cardinality(Pairs(f, DOMAIN f))
    BY DEF g
  <1> QED BY <1>3, <1>4, <1>5, PairsFinite

-----------------------------------------------------------------------------
(* A sequence of numbers, summed from the front.                           *)
LEMMA PrefixSums ==
  ASSUME NEW n \in Nat, NEW u \in [1 .. n -> Nat]
  PROVE  \E sums \in [0 .. n -> Nat] :
           /\ sums[0] = 0 /\ sums[n] = Total(u)
           /\ \A i \in 1 .. n : sums[i] = sums[i - 1] + u[i]
  <1> DEFINE sums == [i \in 0 .. n |-> Cardinality(Pairs(u, 1 .. i))]
  <1>1. \A i \in 0 .. n : IsFiniteSet(1 .. i) /\ \A k \in 1 .. i : u[k] \in Nat
    <2> SUFFICES ASSUME NEW i \in 0 .. n PROVE IsFiniteSet(1 .. i) /\ \A k \in 1 .. i : u[k] \in Nat
      OBVIOUS
    <2>1. IsFiniteSet(1 .. i)
      BY FS_Interval
    <2> QED BY <2>1
  <1>2. sums \in [0 .. n -> Nat]
    BY <1>1, PairsFinite
  <1>3. sums[0] = 0
    <2>1. Pairs(u, 1 .. 0) = {}
      BY DEF Pairs
    <2>2. sums[0] = Cardinality(Pairs(u, 1 .. 0))
      OBVIOUS
    <2> QED BY <2>1, <2>2, FS_EmptySet
  <1>4. sums[n] = Total(u)
    <2>1. DOMAIN u = 1 .. n /\ IsFiniteSet(1 .. n)
      BY FS_Interval
    <2> QED BY <2>1, TotalCounts
  <1>5. ASSUME NEW i \in 1 .. n PROVE sums[i] = sums[i - 1] + u[i]
    <2>1. i - 1 \in 0 .. n /\ i \in 0 .. n
      OBVIOUS
    <2>2. 1 .. i = (1 .. i - 1) \cup {i} /\ (1 .. i - 1) \cap {i} = {}
      OBVIOUS
    <2>3. \A k \in (1 .. i - 1) \cup {i} : u[k] \in Nat
      BY <1>1, <2>1, <2>2
    <2>4. IsFiniteSet(1 .. i - 1) /\ IsFiniteSet({i})
      BY <1>1, <2>1, FS_Singleton
    <2>5. Cardinality(Pairs(u, (1 .. i - 1) \cup {i}))
            = Cardinality(Pairs(u, 1 .. i - 1)) + Cardinality(Pairs(u, {i}))
      BY <2>2, <2>3, <2>4, PairsMore
    <2>6. Cardinality(Pairs(u, {i})) = u[i]
      BY PairsOne
    <2>7. sums[i] = Cardinality(Pairs(u, 1 .. i)) /\ sums[i - 1] = Cardinality(Pairs(u, 1 .. i - 1))
      BY <2>1
    <2> HIDE DEF sums
    <2> QED BY <2>2, <2>5, <2>6, <2>7
  <1> HIDE DEF sums
  <1> QED BY <1>2, <1>3, <1>4, <1>5

(* What FlattenSeq iterates.                                               *)
Flattens(f, seqs, n) ==
  f = [i \in 1 .. n |-> IF i = 1 THEN seqs[i] ELSE f[i - 1] \o seqs[i]]

(* There is what FlattenSeq chooses.                                       *)
LEMMA FlattensExists ==
  ASSUME NEW seqs, NEW n \in Nat
  PROVE  \E f : Flattens(f, seqs, n)
  <1> DEFINE T == {k \in Nat : \E f : Flattens(f, seqs, k)}
  <1>1. 0 \in T
    <2> DEFINE f == [i \in 1 .. 0 |-> {}]
    <2>1. Flattens(f, seqs, 0)
      BY DEF Flattens
    <2> QED BY <2>1
  <1>2. ASSUME NEW k \in Nat, k \in T PROVE k + 1 \in T
    <2>1. PICK f : Flattens(f, seqs, k)
      BY <1>2
    <2> DEFINE g == [i \in 1 .. k + 1 |-> IF i <= k THEN f[i]
                                          ELSE IF i = 1 THEN seqs[i] ELSE f[i - 1] \o seqs[i]]
               h == [i \in 1 .. k + 1 |-> IF i = 1 THEN seqs[i] ELSE g[i - 1] \o seqs[i]]
    <2>2. ASSUME NEW i \in 1 .. k + 1 PROVE g[i] = h[i]
      <3>1. CASE i <= k
        <4>1. i \in 1 .. k /\ g[i] = f[i]
          BY <3>1
        <4>2. f[i] = IF i = 1 THEN seqs[i] ELSE f[i - 1] \o seqs[i]
          BY <2>1, <4>1 DEF Flattens
        <4>3. i # 1 => g[i - 1] = f[i - 1]
          BY <3>1
        <4>4. h[i] = IF i = 1 THEN seqs[i] ELSE g[i - 1] \o seqs[i]
          OBVIOUS
        <4> HIDE DEF g, h
        <4> QED BY <4>1, <4>2, <4>3, <4>4
      <3>2. CASE i = k + 1
        <4>1. g[i] = IF i = 1 THEN seqs[i] ELSE f[i - 1] \o seqs[i]
          BY <3>2
        <4>2. i # 1 => g[i - 1] = f[i - 1]
          BY <3>2
        <4>3. h[i] = IF i = 1 THEN seqs[i] ELSE g[i - 1] \o seqs[i]
          OBVIOUS
        <4> HIDE DEF g, h
        <4> QED BY <4>1, <4>2, <4>3
      <3> QED BY <3>1, <3>2
    <2>3. g = [i \in 1 .. k + 1 |-> g[i]] /\ h = [i \in 1 .. k + 1 |-> h[i]]
      OBVIOUS
    <2>4. g = h
      <3> HIDE DEF g, h
      <3> QED BY <2>2, <2>3
    <2>5. Flattens(g, seqs, k + 1)
      <3> HIDE DEF g
      <3> QED BY <2>4 DEF Flattens
    <2> QED BY <2>5
  <1>3. Nat \subseteq T
    <2> HIDE DEF T
    <2> QED BY <1>1, <1>2, SetInduction
  <1> QED BY <1>3

(* The lengths of n sequences over X, added up one by one.                 *)
AddsUp(X, n, seqs, sums) ==
  /\ seqs \in [1 .. n -> Seq(X)] /\ sums \in [0 .. n -> Nat] /\ sums[0] = 0
  /\ \A i \in 1 .. n : sums[i] = sums[i - 1] + Len(seqs[i])

(* What FlattenSeq puts together is as long as the parts are in all.       *)
LEMMA FlattenLength ==
  ASSUME NEW X, NEW n \in Nat, NEW seqs, NEW sums, AddsUp(X, n, seqs, sums)
  PROVE  FlattenSeq(seqs) \in Seq(X) /\ Len(FlattenSeq(seqs)) = sums[n]
  <1> USE DEF AddsUp
  <1>1. Len(seqs) = n
    OBVIOUS
  <1>2. CASE n = 0
    <2>1. FlattenSeq(seqs) = seqs
      BY <1>1, <1>2 DEF FlattenSeq
    <2>2. seqs = <<>>
      BY <1>2
    <2> QED BY <1>2, <2>1, <2>2
  <1>3. CASE n # 0
    <2> DEFINE flatten == CHOOSE f : Flattens(f, seqs, n)
               T == {k \in Nat : k + 1 \in 1 .. n =>
                       flatten[k + 1] \in Seq(X) /\ Len(flatten[k + 1]) = sums[k + 1]}
    <2>1. Flattens(flatten, seqs, n)
      BY FlattensExists
    <2>2. FlattenSeq(seqs) = flatten[n]
      BY <1>1, <1>3 DEF FlattenSeq, Flattens
    <2> HIDE DEF flatten
    <2>3. \A i \in 1 .. n : flatten[i] = IF i = 1 THEN seqs[i] ELSE flatten[i - 1] \o seqs[i]
      BY <2>1 DEF Flattens
    <2>4. 0 \in T
      <3>1. 1 \in 1 .. n
        BY <1>3
      <3>2. flatten[1] = seqs[1] /\ sums[1] = sums[0] + Len(seqs[1])
        BY <2>3, <3>1
      <3>3. seqs[1] \in Seq(X) /\ Len(seqs[1]) \in Nat
        BY <3>1
      <3> QED BY <3>2, <3>3
    <2>5. ASSUME NEW k \in Nat, k \in T PROVE k + 1 \in T
      <3> SUFFICES ASSUME k + 2 \in 1 .. n
                   PROVE  flatten[k + 2] \in Seq(X) /\ Len(flatten[k + 2]) = sums[k + 2]
        OBVIOUS
      <3>1. flatten[k + 1] \in Seq(X) /\ Len(flatten[k + 1]) = sums[k + 1]
        BY <2>5
      <3>2. flatten[k + 2] = flatten[k + 1] \o seqs[k + 2]
        <4>1. flatten[k + 2] = IF k + 2 = 1 THEN seqs[k + 2] ELSE flatten[(k + 2) - 1] \o seqs[k + 2]
          BY <2>3
        <4>2. (k + 2) - 1 = k + 1 /\ k + 2 # 1
          OBVIOUS
        <4> QED BY <4>1, <4>2
      <3>3. sums[k + 2] = sums[k + 1] + Len(seqs[k + 2])
        OBVIOUS
      <3>4. seqs[k + 2] \in Seq(X)
        OBVIOUS
      <3> DEFINE a == flatten[k + 1]
                 b == seqs[k + 2]
      <3>5. a \in Seq(X) /\ b \in Seq(X)
        BY <3>1, <3>4
      <3> HIDE DEF a, b
      <3>6. a \o b \in Seq(X) /\ Len(a \o b) = Len(a) + Len(b)
        BY <3>5
      <3> QED BY <3>1, <3>2, <3>3, <3>6 DEF a, b
    <2>6. Nat \subseteq T
      <3> HIDE DEF T
      <3> QED BY <2>4, <2>5, SetInduction
    <2>7. n - 1 \in T
      <3>1. n - 1 \in Nat
        BY <1>3
      <3> HIDE DEF T
      <3> QED BY <2>6, <3>1
    <2>8. n - 1 + 1 \in 1 .. n /\ n - 1 + 1 = n
      BY <1>3
    <2> QED BY <2>2, <2>7, <2>8
  <1> QED BY <1>2, <1>3

-----------------------------------------------------------------------------
(* What a bit can be; the powers of 2 are left as they are.                *)
SomeBits == {Bit(num, i) : num \in Int, i \in Int}

(* put adds as many bits as it is asked for (qrBitBuffer).                 *)
LEMMA BitsLength ==
  ASSUME NEW num \in Int, NEW length \in Nat
  PROVE  Bits(num, length) \in Seq(SomeBits) /\ Len(Bits(num, length)) = length
  <1>1. \A i \in 1 .. length : Bit(num, length - i) \in SomeBits
    BY DEF SomeBits
  <1>2. Bits(num, length) = [i \in 1 .. length |-> Bit(num, length - i)]
    BY DEF Bits
  <1>3. Bits(num, length) \in [1 .. length -> SomeBits]
    BY <1>1, <1>2
  <1> HIDE DEF Bits
  <1> QED BY <1>3

(* A character of a Byte text takes eight bits.                            *)
LEMMA BytesLength ==
  ASSUME NEW c \in Seq(Int)
  PROVE  Write8BitByte(c) \in Seq(SomeBits) /\ Len(Write8BitByte(c)) = Size("Byte", Len(c))
  <1>1. PICK n \in Nat : n = 8 * Len(c)
    OBVIOUS
  <1>2. ASSUME NEW i \in 1 .. n PROVE Bit(c[(i + 7) \div 8], 7 - ((i - 1) % 8)) \in SomeBits
    <2>1. (i + 7) \div 8 \in 1 .. Len(c)
      BY <1>1
    <2>2. c[(i + 7) \div 8] \in Int
      BY <2>1, ElementOfSeq
    <2>3. 7 - ((i - 1) % 8) \in Int
      OBVIOUS
    <2> QED BY <2>2, <2>3 DEF SomeBits
  <1>3. Write8BitByte(c) \in [1 .. n -> SomeBits]
    BY <1>1, <1>2 DEF Write8BitByte
  <1>4. Size("Byte", Len(c)) = n
    BY <1>1 DEF Size
  <1> HIDE DEF Write8BitByte
  <1> QED BY <1>3, <1>4

(* Three digits take ten bits, two seven, one four.                        *)
LEMMA NumberLength ==
  ASSUME NEW c \in Seq(Int)
  PROVE  WriteNumber(c) \in Seq(SomeBits) /\ Len(WriteNumber(c)) = Size("Numeric", Len(c))
  <1>1. PICK l \in Nat : l = Len(c)
    OBVIOUS
  <1>2. PICK n \in Nat : n = (l + 2) \div 3 /\ 3 * n \in {l, l + 1, l + 2}
    <2>1. (l + 2) \div 3 \in Nat /\ 3 * ((l + 2) \div 3) \in {l, l + 1, l + 2}
      OBVIOUS
    <2> QED BY <2>1
  <1> DEFINE piece(g) ==
               LET i == 3 * g - 2
               IN CASE i = l     -> Bits(c[i], 4)
                    [] i + 1 = l -> Bits(c[i] * 10 + c[i + 1], 7)
                    [] i + 1 < l -> Bits(c[i] * 100 + c[i + 1] * 10 + c[i + 2], 10)
             seqs == [g \in 1 .. n |-> piece(g)]
             bitsOf(g) == IF 3 * g <= l THEN 10 ELSE IF 3 * g = l + 1 THEN 7 ELSE 4
             sums == [g \in 0 .. n |-> IF 3 * g <= l THEN 10 * g
                                       ELSE IF 3 * g = l + 1 THEN 10 * g - 3 ELSE 10 * g - 6]
  <1>3. ASSUME NEW g \in 1 .. n PROVE piece(g) \in Seq(SomeBits) /\ Len(piece(g)) = bitsOf(g)
    <2>1. PICK i \in 1 .. l : i = 3 * g - 2
      BY <1>2
    <2>2. CASE i = l
      <3>1. piece(g) = Bits(c[i], 4)
        BY SMTT(30), <2>1, <2>2
      <3>2. bitsOf(g) = 4
        BY <2>1, <2>2
      <3>3. c[i] \in Int
        BY <1>1, ElementOfSeq
      <3> QED BY <3>1, <3>2, <3>3, BitsLength
    <2>3. CASE i + 1 = l
      <3>1. piece(g) = Bits(c[i] * 10 + c[i + 1], 7) /\ bitsOf(g) = 7
        BY <2>1, <2>3
      <3>2. c[i] \in Int /\ c[i + 1] \in Int
        BY <1>1, <2>3, ElementOfSeq
      <3>3. c[i] * 10 + c[i + 1] \in Int
        BY <3>2
      <3> QED BY <3>1, <3>3, BitsLength
    <2>4. CASE i + 1 < l
      <3>1. piece(g) = Bits(c[i] * 100 + c[i + 1] * 10 + c[i + 2], 10) /\ bitsOf(g) = 10
        BY <2>1, <2>4
      <3>2. c[i] \in Int /\ c[i + 1] \in Int /\ c[i + 2] \in Int
        BY <1>1, <2>4, ElementOfSeq
      <3>3. PICK num \in Int : num = c[i] * 100 + c[i + 1] * 10 + c[i + 2]
        <4>1. PICK x \in Int, y \in Int, z \in Int : x = c[i] /\ y = c[i + 1] /\ z = c[i + 2]
          BY <3>2
        <4>2. x * 100 + y * 10 + z \in Int
          OBVIOUS
        <4> QED BY <4>1, <4>2
      <3>4. piece(g) = Bits(num, 10) /\ bitsOf(g) = 10
        BY <3>1, <3>3
      <3>5. Bits(num, 10) \in Seq(SomeBits) /\ Len(Bits(num, 10)) = 10
        BY BitsLength
      <3> QED BY <3>4, <3>5
    <2>5. i = l \/ i + 1 = l \/ i + 1 < l
      OBVIOUS
    <2> HIDE DEF piece, bitsOf
    <2> QED BY <2>2, <2>3, <2>4, <2>5
  <1>4. WriteNumber(c) = FlattenSeq(seqs)
    BY <1>1, <1>2 DEF WriteNumber
  <1> HIDE DEF piece
  <1>5. seqs \in [1 .. n -> Seq(SomeBits)]
    BY <1>3
  <1>6. sums \in [0 .. n -> Nat] /\ sums[0] = 0
    BY <1>2
  <1>7. ASSUME NEW g \in 1 .. n PROVE sums[g] = sums[g - 1] + Len(seqs[g])
    <2>1. Len(seqs[g]) = bitsOf(g)
      BY <1>3
    <2>2. sums[g] = sums[g - 1] + bitsOf(g)
      BY <1>2
    <2> QED BY <2>1, <2>2
  <1>8. sums[n] = Size("Numeric", l)
    <2>1. PICK q \in Nat, r \in 0 .. 2 : l = 3 * q + r /\ l \div 3 = q /\ (l % 3) = r
      <3>1. l \div 3 \in Nat /\ (l % 3) \in 0 .. 2 /\ l = 3 * (l \div 3) + (l % 3)
        OBVIOUS
      <3> QED BY <3>1
    <2>2. Size("Numeric", l) = 10 * q + <<0, 4, 7>>[r + 1]
      BY <2>1 DEF Size
    <2>3. sums[n] = IF 3 * n <= l THEN 10 * n ELSE IF 3 * n = l + 1 THEN 10 * n - 3 ELSE 10 * n - 6
      OBVIOUS
    <2> HIDE DEF sums
    <2>4. CASE r = 0
      <3>1. 3 * n = l /\ n = q
        BY <1>2, <2>1, <2>4
      <3>2. sums[n] = 10 * n /\ Size("Numeric", l) = 10 * q
        BY <2>2, <2>3, <2>4, <3>1
      <3> QED BY <3>1, <3>2
    <2>5. CASE r = 1
      <3>1. 3 * n = l + 2 /\ n = q + 1
        BY <1>2, <2>1, <2>5
      <3>2. sums[n] = 10 * n - 6 /\ Size("Numeric", l) = 10 * q + 4
        BY <2>2, <2>3, <2>5, <3>1
      <3> QED BY <3>1, <3>2
    <2>6. CASE r = 2
      <3>1. 3 * n = l + 1 /\ n = q + 1
        BY <1>2, <2>1, <2>6
      <3>2. sums[n] = 10 * n - 3 /\ Size("Numeric", l) = 10 * q + 7
        BY <2>2, <2>3, <2>6, <3>1
      <3> QED BY <3>1, <3>2
    <2> QED BY <2>4, <2>5, <2>6
  <1> HIDE DEF seqs, sums
  <1>9. FlattenSeq(seqs) \in Seq(SomeBits) /\ Len(FlattenSeq(seqs)) = sums[n]
    <2>1. AddsUp(SomeBits, n, seqs, sums)
      BY <1>5, <1>6, <1>7 DEF AddsUp
    <2> QED BY <2>1, FlattenLength
  <1> QED BY <1>1, <1>4, <1>8, <1>9

(* Two characters take eleven bits, one six.                               *)
LEMMA AlphaNumLength ==
  ASSUME NEW c \in Seq(Int)
  PROVE  WriteAlphaNum(c) \in Seq(SomeBits) /\ Len(WriteAlphaNum(c)) = Size("Alphanumeric", Len(c))
  <1>1. PICK l \in Nat : l = Len(c)
    OBVIOUS
  <1>2. PICK n \in Nat : n = (l + 1) \div 2 /\ 2 * n \in {l, l + 1}
    <2>1. (l + 1) \div 2 \in Nat /\ 2 * ((l + 1) \div 2) \in {l, l + 1}
      OBVIOUS
    <2> QED BY <2>1
  <1> DEFINE piece(g) ==
               LET i == 2 * g - 1
               IN IF i = l THEN Bits(c[i], 6) ELSE Bits(c[i] * 45 + c[i + 1], 11)
             seqs == [g \in 1 .. n |-> piece(g)]
             bitsOf(g) == IF 2 * g <= l THEN 11 ELSE 6
             sums == [g \in 0 .. n |-> IF 2 * g <= l THEN 11 * g ELSE 11 * g - 5]
  <1>3. ASSUME NEW g \in 1 .. n PROVE piece(g) \in Seq(SomeBits) /\ Len(piece(g)) = bitsOf(g)
    <2>1. PICK i \in 1 .. l : i = 2 * g - 1
      BY <1>2
    <2>2. CASE i = l
      <3>1. piece(g) = Bits(c[i], 6) /\ bitsOf(g) = 6
        BY <2>1, <2>2
      <3>2. c[i] \in Int
        BY <1>1, ElementOfSeq
      <3> QED BY <3>1, <3>2, BitsLength
    <2>3. CASE i # l
      <3>1. piece(g) = Bits(c[i] * 45 + c[i + 1], 11) /\ bitsOf(g) = 11
        BY <2>1, <2>3
      <3>2. c[i] \in Int /\ c[i + 1] \in Int
        BY <1>1, <2>3, ElementOfSeq
      <3>3. c[i] * 45 + c[i + 1] \in Int
        BY <3>2
      <3> QED BY <3>1, <3>3, BitsLength
    <2> QED BY <2>2, <2>3
  <1>4. WriteAlphaNum(c) = FlattenSeq(seqs)
    BY <1>1, <1>2 DEF WriteAlphaNum
  <1> HIDE DEF piece
  <1>5. seqs \in [1 .. n -> Seq(SomeBits)]
    BY <1>3
  <1>6. sums \in [0 .. n -> Nat] /\ sums[0] = 0
    BY <1>2
  <1>7. ASSUME NEW g \in 1 .. n PROVE sums[g] = sums[g - 1] + Len(seqs[g])
    <2>1. Len(seqs[g]) = bitsOf(g)
      BY <1>3
    <2>2. sums[g] = sums[g - 1] + bitsOf(g)
      BY <1>2
    <2> QED BY <2>1, <2>2
  <1>8. sums[n] = Size("Alphanumeric", l)
    <2>1. PICK q \in Nat, r \in 0 .. 1 : l = 2 * q + r /\ l \div 2 = q /\ (l % 2) = r
      <3>1. l \div 2 \in Nat /\ (l % 2) \in 0 .. 1 /\ l = 2 * (l \div 2) + (l % 2)
        OBVIOUS
      <3> QED BY <3>1
    <2>2. Size("Alphanumeric", l) = 11 * q + 6 * r
      BY <2>1 DEF Size
    <2>3. sums[n] = IF 2 * n <= l THEN 11 * n ELSE 11 * n - 5
      OBVIOUS
    <2> HIDE DEF sums
    <2> QED BY <1>2, <2>1, <2>2, <2>3
  <1> HIDE DEF seqs, sums
  <1>9. FlattenSeq(seqs) \in Seq(SomeBits) /\ Len(FlattenSeq(seqs)) = sums[n]
    <2>1. AddsUp(SomeBits, n, seqs, sums)
      BY <1>5, <1>6, <1>7 DEF AddsUp
    <2> QED BY <2>1, FlattenLength
  <1> QED BY <1>1, <1>4, <1>8, <1>9

(* The length of a text is written in as many bits as the standard says    *)
(* (getLengthInBits).                                                      *)
LEMMA LengthBits ==
  ASSUME NEW mode \in DOMAIN QRMode, NEW type \in 1 .. 40
  PROVE  getLengthInBits(mode, type) = CountBits(mode, type) /\ CountBits(mode, type) \in Nat
  <1>1. mode \in {"Numeric", "Alphanumeric", "Byte"}
    BY DEF QRMode
  <1>2. CASE type < 10
    <2>1. /\ CountBits(mode, type) = [Byte |-> 8, Alphanumeric |-> 9, Numeric |-> 10][mode]
      BY <1>1, <1>2 DEF CountBits
    <2>2. getLengthInBits(mode, type) = [Numeric |-> 10, Alphanumeric |-> 9, Byte |-> 8][mode]
      BY <1>2 DEF getLengthInBits
    <2> QED BY <1>1, <2>1, <2>2
  <1>3. CASE type \in 10 .. 26
    <2>1. /\ CountBits(mode, type) = [Byte |-> 16, Alphanumeric |-> 11, Numeric |-> 12][mode]
      BY <1>1, <1>3 DEF CountBits
    <2>2. getLengthInBits(mode, type) = [Numeric |-> 12, Alphanumeric |-> 11, Byte |-> 16][mode]
      BY <1>3 DEF getLengthInBits
    <2> QED BY <1>1, <2>1, <2>2
  <1>4. CASE type \in 27 .. 40
    <2>1. /\ CountBits(mode, type) = [Byte |-> 16, Alphanumeric |-> 13, Numeric |-> 14][mode]
      BY <1>1, <1>4 DEF CountBits
    <2>2. getLengthInBits(mode, type) = [Numeric |-> 14, Alphanumeric |-> 13, Byte |-> 16][mode]
      BY <1>4 DEF getLengthInBits
    <2> QED BY <1>1, <2>1, <2>2
  <1> QED BY <1>2, <1>3, <1>4

-----------------------------------------------------------------------------
(* Two sequences one after the other.                                      *)
LEMMA ConcatLength ==
  ASSUME NEW X, NEW u \in Seq(X), NEW t \in Seq(X)
  PROVE  u \o t \in Seq(X) /\ Len(u \o t) = Len(u) + Len(t)
  OBVIOUS

(* A row of the table of blocks tells of one group of them or of two.      *)
Rows == {row \in Seq(Nat) : Len(row) \in {3, 6}}

(* All 160 rows of the table are of that kind.                             *)
LEMMA RowsOfTable == RS_BLOCK_TABLE \in Seq(Rows) /\ Len(RS_BLOCK_TABLE) = 160
  <1>1. RS_BLOCKS_1_TO_20 \in Seq(Rows) /\ Len(RS_BLOCKS_1_TO_20) = 80
    BY DEF RS_BLOCKS_1_TO_20, Rows
  <1>2. RS_BLOCKS_21_TO_40 \in Seq(Rows) /\ Len(RS_BLOCKS_21_TO_40) = 80
    BY DEF RS_BLOCKS_21_TO_40, Rows
  <1>3. /\ RS_BLOCKS_1_TO_20 \o RS_BLOCKS_21_TO_40 \in Seq(Rows)
        /\ Len(RS_BLOCKS_1_TO_20 \o RS_BLOCKS_21_TO_40) = 80 + 80
    <2> DEFINE u == RS_BLOCKS_1_TO_20
               t == RS_BLOCKS_21_TO_40
    <2>1. u \in Seq(Rows) /\ t \in Seq(Rows) /\ Len(u) = 80 /\ Len(t) = 80
      BY <1>1, <1>2
    <2> HIDE DEF Rows, u, t
    <2>2. u \o t \in Seq(Rows) /\ Len(u \o t) = Len(u) + Len(t)
      BY <2>1, ConcatLength
    <2> QED BY <2>1, <2>2 DEF u, t
  <1> QED BY <1>3 DEF RS_BLOCK_TABLE

(* The levels of error correction, and a block of codewords.               *)
Levels == {"L", "M", "Q", "H"}

(* A block of codewords.                                                   *)
Block == [totalCount : Nat, dataCount : Nat]

(* getRSBlocks finds blocks for every type and level.                      *)
LEMMA BlocksType ==
  ASSUME NEW type \in 1 .. 40, NEW level \in Levels
  PROVE  getRSBlocks(type, level) \in Seq(Block)
  <1>1. PICK k \in 1 .. 4 : k = [L |-> 1, M |-> 2, Q |-> 3, H |-> 4][level]
    BY DEF Levels
  <1>2. PICK row \in Rows : row = RS_BLOCK_TABLE[(type - 1) * 4 + k]
    <2>1. (type - 1) * 4 + k \in 1 .. 160
      OBVIOUS
    <2>2. (type - 1) * 4 + k \in 1 .. Len(RS_BLOCK_TABLE) /\ RS_BLOCK_TABLE \in Seq(Rows)
      BY <2>1, RowsOfTable
    <2>3. RS_BLOCK_TABLE[(type - 1) * 4 + k] \in Rows
      BY <2>2, ElementOfSeq
    <2> QED BY <2>3
  <1> DEFINE block(i) == [totalCount |-> row[3 * i + 2], dataCount |-> row[3 * i + 3]]
             group(i) == [j \in 1 .. row[3 * i + 1] |-> block(i)]
  <1>3. getRSBlocks(type, level) = IF Len(row) = 3 THEN group(0) ELSE group(0) \o group(1)
    BY <1>1, <1>2 DEF getRSBlocks
  <1>4. ASSUME NEW i \in 0 .. 1, 3 * i + 3 <= Len(row) PROVE group(i) \in Seq(Block)
    <2>1. /\ 3 * i + 1 \in 1 .. Len(row) /\ 3 * i + 2 \in 1 .. Len(row)
          /\ 3 * i + 3 \in 1 .. Len(row) /\ row \in Seq(Nat)
      BY <1>4 DEF Rows
    <2>2. row[3 * i + 1] \in Nat /\ row[3 * i + 2] \in Nat /\ row[3 * i + 3] \in Nat
      BY <2>1, ElementOfSeq
    <2>3. block(i) \in Block
      BY <2>2 DEF Block
    <2> HIDE DEF block
    <2> QED BY <2>2, <2>3
  <1>5. Len(row) \in {3, 6}
    BY DEF Rows
  <1> HIDE DEF group
  <1>6. CASE Len(row) = 3
    BY <1>3, <1>4, <1>6
  <1>7. CASE Len(row) = 6
    <2>1. group(0) \in Seq(Block) /\ group(1) \in Seq(Block)
      BY <1>4, <1>7
    <2> QED BY <1>3, <1>7, <2>1
  <1> QED BY <1>5, <1>6, <1>7

(* They hold so many codewords of data.                                    *)
LEMMA DataCountType ==
  ASSUME NEW type \in 1 .. 40, NEW level \in Levels
  PROVE  TotalDataCount(getRSBlocks(type, level)) \in Nat
  <1>1. PICK blocks \in Seq(Block) : blocks = getRSBlocks(type, level)
    BY BlocksType
  <1> DEFINE counts == [r \in DOMAIN blocks |-> blocks[r].dataCount]
  <1>2. DOMAIN counts = 1 .. Len(blocks) /\ IsFiniteSet(DOMAIN counts)
    <2>1. DOMAIN counts = 1 .. Len(blocks)
      OBVIOUS
    <2> QED BY <2>1, FS_Interval
  <1>3. ASSUME NEW r \in DOMAIN counts PROVE counts[r] \in Nat
    <2>1. blocks[r] \in Block
      BY <1>2, ElementOfSeq
    <2> QED BY <2>1 DEF Block
  <1>4. TotalDataCount(blocks) = Total(counts)
    BY DEF TotalDataCount
  <1> HIDE DEF counts
  <1> QED BY <1>1, <1>2, <1>3, <1>4, TotalCounts

-----------------------------------------------------------------------------
(* The bits of a piece: its mode, its length and its characters.           *)
PieceBits(data, type) ==
  Bits(QRMode[data.mode], 4) \o Bits(Len(data.chars), getLengthInBits(data.mode, type)) \o WriteData(data)

(* The bits of a piece of data: its mode, its length and its characters.   *)
PieceSize(data, type) == 4 + CountBits(data.mode, type) + Size(data.mode, Len(data.chars))

(* So many does it put into the buffer.                                    *)
LEMMA PieceLength ==
  ASSUME NEW dataList \in DataLists, NEW k \in DOMAIN dataList, NEW type \in 1 .. 40
  PROVE  /\ PieceBits(dataList[k], type) \in Seq(SomeBits)
         /\ Len(PieceBits(dataList[k], type)) = PieceSize(dataList[k], type)
         /\ PieceSize(dataList[k], type) \in Nat
  <1> DEFINE Piece == [mode : DOMAIN QRMode, chars : Seq(Nat \cup {Illegal})]
  <1>1. PICK data \in Piece : data = dataList[k]
    <2>1. dataList \in Seq(Piece) /\ k \in 1 .. Len(dataList)
      BY DEF DataLists
    <2> QED BY <2>1, ElementOfSeq
  <1>2. PICK mode \in DOMAIN QRMode : mode = data.mode
    OBVIOUS
  <1>3. PICK c \in Seq(Int) : c = data.chars
    <2>1. Nat \cup {Illegal} \subseteq Int
      BY DEF Illegal
    <2>2. data.chars \in Seq(Nat \cup {Illegal})
      OBVIOUS
    <2>3. \A i \in 1 .. Len(data.chars) : data.chars[i] \in Int
      BY <2>1, <2>2, ElementOfSeq
    <2>4. data.chars \in Seq(Int)
      BY <2>2, <2>3
    <2> QED BY <2>4
  <1> DEFINE a == Bits(QRMode[mode], 4)
             b == Bits(Len(c), getLengthInBits(mode, type))
             t == WriteData(data)
  <1>4. a \in Seq(SomeBits) /\ Len(a) = 4
    <2>1. QRMode[mode] \in Int
      BY DEF QRMode
    <2> QED BY <2>1, BitsLength
  <1>5. b \in Seq(SomeBits) /\ Len(b) = CountBits(mode, type) /\ CountBits(mode, type) \in Nat
    <2>1. getLengthInBits(mode, type) = CountBits(mode, type) /\ CountBits(mode, type) \in Nat
      BY LengthBits
    <2>2. getLengthInBits(mode, type) \in Nat /\ Len(c) \in Int
      BY <2>1
    <2> QED BY <2>1, <2>2, BitsLength
  <1>6. t \in Seq(SomeBits) /\ Len(t) = Size(mode, Len(c))
    <2>1. mode \in {"Numeric", "Alphanumeric", "Byte"}
      BY DEF QRMode
    <2>2. CASE mode = "Numeric"
      BY <1>2, <1>3, <2>2, NumberLength DEF WriteData
    <2>3. CASE mode = "Alphanumeric"
      BY <1>2, <1>3, <2>3, AlphaNumLength DEF WriteData
    <2>4. CASE mode = "Byte"
      BY <1>2, <1>3, <2>4, BytesLength DEF WriteData
    <2> QED BY <2>1, <2>2, <2>3, <2>4
  <1>7. PieceBits(data, type) = a \o b \o t
    BY <1>2, <1>3 DEF PieceBits
  <1>8. PieceSize(data, type) = 4 + CountBits(mode, type) + Size(mode, Len(c))
    BY <1>2, <1>3 DEF PieceSize
  <1> HIDE DEF a, b, t
  <1>9. a \o b \in Seq(SomeBits) /\ Len(a \o b) = Len(a) + Len(b)
    BY <1>4, <1>5, ConcatLength
  <1>10. a \o b \o t \in Seq(SomeBits) /\ Len(a \o b \o t) = Len(a) + Len(b) + Len(t)
    <2>1. (a \o b) \o t \in Seq(SomeBits) /\ Len((a \o b) \o t) = Len(a \o b) + Len(t)
      BY <1>6, <1>9, ConcatLength
    <2> QED BY <1>9, <2>1
  <1>11. Len(t) \in Nat
    BY <1>6
  <1> QED BY <1>1, <1>4, <1>5, <1>6, <1>7, <1>8, <1>10, <1>11

(* The buffer of createData is as long as its pieces are in all.           *)
LEMMA BufferLength ==
  ASSUME NEW dataList \in DataLists, NEW type \in 1 .. 40
  PROVE  LET sizes == [k \in DOMAIN dataList |-> PieceSize(dataList[k], type)]
         IN Len(Buffer(type, dataList)) = Total(sizes) /\ Total(sizes) \in Nat
  <1> DEFINE sizes == [k \in DOMAIN dataList |-> PieceSize(dataList[k], type)]
             pieces == [k \in DOMAIN dataList |-> PieceBits(dataList[k], type)]
  <1>1. PICK n \in Nat : n = Len(dataList) /\ DOMAIN dataList = 1 .. n
    BY DEF DataLists
  <1>2. sizes \in [1 .. n -> Nat] /\ pieces \in [1 .. n -> Seq(SomeBits)]
    BY <1>1, PieceLength
  <1>3. \A k \in 1 .. n : Len(pieces[k]) = sizes[k]
    BY <1>1, PieceLength
  <1>4. Buffer(type, dataList) = FlattenSeq(pieces)
    BY DEF Buffer, PieceBits
  <1> HIDE DEF sizes, pieces
  <1>5. PICK sums \in [0 .. n -> Nat] :
          /\ sums[0] = 0 /\ sums[n] = Total(sizes)
          /\ \A i \in 1 .. n : sums[i] = sums[i - 1] + sizes[i]
    BY <1>2, PrefixSums
  <1>6. \A i \in 1 .. n : sums[i] = sums[i - 1] + Len(pieces[i])
    BY <1>3, <1>5
  <1>7. Len(FlattenSeq(pieces)) = sums[n]
    <2>1. AddsUp(SomeBits, n, pieces, sums)
      BY <1>2, <1>5, <1>6 DEF AddsUp
    <2> QED BY <2>1, FlattenLength
  <1> QED BY <1>4, <1>5, <1>7 DEF sizes

(* createData throws just for data that is too long for the type.          *)
LEMMA OverflowIsTooLong ==
  ASSUME _dataList \in DataLists, _typeNumber \in 1 .. 40, request.level \in Levels
  PROVE  Overflow <=> TooLong(_typeNumber)
  <1> DEFINE sizes == [k \in DOMAIN _dataList |-> PieceSize(_dataList[k], _typeNumber)]
  <1>1. PICK total \in Nat : total = TotalDataCount(getRSBlocks(_typeNumber, request.level))
    BY DataCountType
  <1>2. PICK len \in Nat : len = Total(sizes) /\ Len(Buffer(_typeNumber, _dataList)) = len
    BY BufferLength
  <1>3. TooLong(_typeNumber) <=> len > 8 * total
    BY <1>1, <1>2 DEF TooLong, PieceSize
  <1>4. Overflow <=> ~(len <= 8 * total)
    BY <1>1, <1>2 DEF Overflow, Fits
  <1> QED BY <1>3, <1>4

-----------------------------------------------------------------------------
(* What is added is data.                                                  *)
DataTypes == _dataList \in DataLists

(* It begins with data.                                                    *)
LEMMA DataTypesInit == Init => DataTypes
  BY RequestsAssumption DEF Init, SymbolInit, DataTypes

(* A step keeps it data.                                                   *)
LEMMA DataTypesStep ==
  ASSUME EncoderInv, DataTypes, [Next]_vars
  PROVE  DataTypes'
  <1>1. CASE AddData
    <2>1. _dataList' = _dataList \o request.later
      BY <1>1 DEF AddData
    <2>2. request.later \in DataLists
      BY RequestsAssumption DEF EncoderInv
    <2> QED BY <2>1, <2>2 DEF DataTypes, DataLists
  <1>2. CASE Make \/ DrawPatterns \/ Cache \/ MapColumn \/ Score \/ UNCHANGED symbolVars
    <2>1. _dataList' = _dataList
      BY <1>2 DEF Make, DrawPatterns, Cache, MapColumn, Score, Throw, symbolVars
    <2> QED BY <2>1 DEF DataTypes
  <1> QED BY <1>1, <1>2 DEF Next, Symbol, SymbolNext, CreateDataURL, WriteImage, vars

(* An encoder that has thrown, and whose characters the mode of each piece *)
(* of data can write, has data that is too long for the type of the        *)
(* symbol, and that is type 40, or the one that was asked for, or data     *)
(* came after the type was chosen: no other request is refused (make,      *)
(* createData).                                                            *)
THEOREM NothingRefusedWithoutCause == Spec => []RefusedForCause
  <1> DEFINE Inv == EncoderInv /\ SymbolInv /\ DataInv /\ DataTypes /\ RasterInv /\ StreamInv /\ ImageInv
  <1>1. Init => Inv
    BY EncoderInvInit, SymbolInvInit, DataInvInit, DataTypesInit, ImageInvInit DEF Init
  <1>2. Inv /\ [Next]_vars => Inv'
    BY EncoderInvStep, SymbolInvStep, DataInvStep, DataTypesStep, ImageInvStep
  <1>3. Inv => RefusedForCause
    <2> SUFFICES ASSUME Inv, pc = "thrown", Writable(_dataList)
                 PROVE  /\ TooLong(_typeNumber)
                        /\ _typeNumber = 40 \/ request.typeNumber # 0 \/ _dataList # request.dataList
      BY DEF RefusedForCause
    <2>1. Overflow /\ (_typeNumber = 40 \/ request.typeNumber # 0 \/ _dataList # request.dataList)
      BY DEF DataInv, Chosen, Overflow
    <2>2. _dataList \in DataLists /\ _typeNumber \in 1 .. 40 /\ request.level \in Levels
      BY RequestsAssumption DEF DataTypes, EncoderInv, DataInv, Levels
    <2> QED BY <2>1, <2>2, OverflowIsTooLong
  <1> QED BY <1>1, <1>2, <1>3, PTL DEF Spec
=============================================================================
