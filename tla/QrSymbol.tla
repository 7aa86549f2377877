------------------------------- MODULE QrSymbol -------------------------------
(***************************************************************************)
(* qrcode(typeNumber, errorCorrectionLevel) of qrcode.js, from addData to  *)
(* the finished symbol.  make draws the symbol nine times on the same      *)
(* variables: once for each mask, with the type information left light, to *)
(* give it a penalty, and once for good.  The codewords are computed in    *)
(* the first drawing and kept in _dataCache for the others.                *)
(*                                                                         *)
(* One state per step of the drawing, and in mapData per pair of columns.  *)
(***************************************************************************)
EXTENDS QrCodewords

CONSTANT Requests  \* [typeNumber, level, dataList, later, ...]

(* What addData appends: the characters of a piece, and the mode it is for.*)
DataLists == Seq([mode : DOMAIN QRMode, chars : Seq(Nat \cup {Illegal})])

(* dataList is what is added before make, later what is added after it,    *)
(* for a second make.                                                      *)
ASSUME RequestsAssumption ==
  \A q \in Requests :
    /\ q.typeNumber \in 0 .. 40 /\ q.level \in {"L", "M", "Q", "H"}
    /\ q.dataList \in DataLists /\ q.later \in DataLists

VARIABLES
  request,
  _dataList,
  _typeNumber,
  _modules,       \* row by row: null, dark or light
  _dataCache,
  pc,
  test, maskPattern,                 \* the parameters of makeImpl
  minLostPoint, pattern,             \* of getBestMaskPattern
  col, inc,                          \* of mapData
  placed                             \* 8 * byteIndex + 7 - bitIndex

best == <<minLostPoint, pattern>>
place == <<col, inc, placed>>
symbolVars == <<request, _dataList, _typeNumber, _modules, _dataCache, pc, test, maskPattern,
                best, place>>

NoCache == <<>>

_moduleCount == _typeNumber * 4 + 17

Module(dark) == IF dark THEN "dark" ELSE "light"

-----------------------------------------------------------------------------
(* The patterns.  Each takes the modules as they are and returns them with *)
(* its own drawn; n is the number of modules in a row.                     *)

Blank(n) == [r \in 0 .. n - 1 |-> [c \in 0 .. n - 1 |-> "null"]]

setupPositionProbePattern(m, row, column) ==
  [r \in DOMAIN m |-> [c \in DOMAIN m |->
    LET i == r - row
        j == c - column
    IN IF i \in -1 .. 7 /\ j \in -1 .. 7
       THEN Module(\/ i \in 0 .. 6 /\ j \in {0, 6}
                   \/ j \in 0 .. 6 /\ i \in {0, 6}
                   \/ i \in 2 .. 4 /\ j \in 2 .. 4)
       ELSE m[r][c]]]

AdjustPattern(m, centres) ==
  [r \in DOMAIN m |->
    LET near == {x \in centres : r - x[1] \in -2 .. 2}
    IN [c \in DOMAIN m |->
         IF \E x \in near : c - x[2] \in -2 .. 2
         THEN LET x == CHOOSE x \in near : c - x[2] \in -2 .. 2
              IN Module(r - x[1] \in {-2, 2} \/ c - x[2] \in {-2, 2} \/ <<r, c>> = x)
         ELSE m[r][c]]]

(* Mutant: also drawn where a corner already has its pattern.              *)
AdjustEverywhere(m, type) ==
  LET pos == ToSet(PATTERN_POSITION_TABLE[type])
  IN AdjustPattern(m, pos \X pos)

(* The patterns are too far apart for one to cover the centre of another,  *)
(* so the centres that are skipped are those covered at the start.         *)
setupPositionAdjustPattern(m, type) ==
  LET pos == ToSet(PATTERN_POSITION_TABLE[type])
  IN AdjustPattern(m, {x \in pos \X pos : m[x[1]][x[2]] = "null"})

setupTimingPattern(m, n) ==
  [r \in DOMAIN m |-> [c \in DOMAIN m |->
    IF m[r][c] # "null" THEN m[r][c]
    ELSE CASE c = 6 /\ r \in 8 .. n - 9 -> Module(r % 2 = 0)
           [] r = 6 /\ c \in 8 .. n - 9 -> Module(c % 2 = 0)
           [] OTHER                       -> "null"]]

(* Where the i-th bit of the type information goes in column 8 and in row  *)
(* 8.                                                                      *)
Vertical(n, i) == CASE i < 6 -> i [] i \in 6 .. 7 -> i + 1 [] i > 7 -> n - 15 + i
Horizontal(n, i) == CASE i < 8 -> n - i - 1 [] i = 8 -> 15 - i [] i > 8 -> 14 - i

setupTypeInfo(m, n, level, isTest, mask) ==
  LET bits == getBCHTypeInfo(QRErrorCorrectionLevel[level] * 8 + mask)
      Drawn(i) == Module(~isTest /\ Bit(bits, i) = 1)
      down(r) == {i \in 0 .. 14 : Vertical(n, i) = r}
      across(c) == {i \in 0 .. 14 : Horizontal(n, i) = c}
  IN [r \in DOMAIN m |-> [c \in DOMAIN m |->
       CASE c = 8 /\ r = n - 8         -> Module(~isTest)
         [] r = 8 /\ across(c) # {}    -> Drawn(CHOOSE i \in across(c) : TRUE)
         [] c = 8 /\ r # n - 8 /\ down(r) # {} -> Drawn(CHOOSE i \in down(r) : TRUE)
         [] OTHER                      -> m[r][c]]]

setupTypeNumber(m, n, type, isTest) ==
  LET bits == getBCHTypeNumber(type)
      Drawn(long, short) == Module(~isTest /\ Bit(bits, 3 * long + short) = 1)
  IN [r \in DOMAIN m |-> [c \in DOMAIN m |->
       CASE r \in 0 .. 5 /\ c \in n - 11 .. n - 9 -> Drawn(r, c - (n - 11))
         [] c \in 0 .. 5 /\ r \in n - 11 .. n - 9 -> Drawn(c, r - (n - 11))
         [] OTHER -> m[r][c]]]

Patterns(n, type, level, isTest, mask) ==
  LET probes == setupPositionProbePattern(
                  setupPositionProbePattern(
                    setupPositionProbePattern(Blank(n), 0, 0), n - 7, 0), 0, n - 7)
      timed == setupTimingPattern(setupPositionAdjustPattern(probes, type), n)
      typed == setupTypeInfo(timed, n, level, isTest, mask)
  IN IF type >= 7 THEN setupTypeNumber(typed, n, type, isTest) ELSE typed

-----------------------------------------------------------------------------
(* The penalty of a drawing, times the number of modules so that the share *)
(* of the dark ones stays an integer.                                      *)

Around == ((-1 .. 1) \X (-1 .. 1)) \ {<<0, 0>>}

getLostPoint(m, n) ==
  LET isDark(r, c) == m[r][c] = "dark"
      All(h, w) == (0 .. n - 1 - h) \X (0 .. n - 1 - w)
      same(r, c) == Cardinality({d \in Around :
                      /\ r + d[1] \in DOMAIN m /\ c + d[2] \in DOMAIN m
                      /\ m[r + d[1]][c + d[2]] = m[r][c]})
      crowd == {<<x, same(x[1], x[2])>> : x \in All(0, 0)}
      crowded(k) == Cardinality({x \in crowd : x[2] = k})
      level1 == 4 * crowded(6) + 5 * crowded(7) + 6 * crowded(8)
      level2 == 3 * Cardinality({x \in All(1, 1) :
                  \A i, j \in 0 .. 1 : m[x[1] + i][x[2] + j] = m[x[1]][x[2]]})
      probe == <<TRUE, FALSE, TRUE, TRUE, TRUE, FALSE, TRUE>>
      level3 == 40 * (Cardinality({x \in All(0, 6) :
                        \A k \in 0 .. 6 : isDark(x[1], x[2] + k) = probe[k + 1]})
                      + Cardinality({x \in All(6, 0) :
                        \A k \in 0 .. 6 : isDark(x[1] + k, x[2]) = probe[k + 1]}))
      darkCount == Cardinality({x \in All(0, 0) : isDark(x[1], x[2])})
      off == 100 * darkCount - 50 * n * n
  IN (level1 + level2 + level3) * n * n + 2 * (IF off < 0 THEN -off ELSE off)

-----------------------------------------------------------------------------
SymbolInit ==
  /\ request \in Requests
  /\ _dataList = request.dataList /\ _typeNumber = request.typeNumber
  /\ _modules = <<>> /\ _dataCache = NoCache
  /\ pc = "make"
  /\ test = FALSE /\ maskPattern = 0 /\ minLostPoint = 0 /\ pattern = 0
  /\ col = 0 /\ inc = -1 /\ placed = 0

Throw == pc' = "thrown" /\ UNCHANGED <<request, _dataList, _typeNumber, _modules, _dataCache,
                                       test, maskPattern, best, place>>

makeImpl(isTest, mask) == test' = isTest /\ maskPattern' = mask /\ pc' = "draw"

(* The smallest type that holds the data; 40 is taken without a look.      *)
SmallestType ==
  LET fitting == {t \in 1 .. 39 : Fits(t, request.level, _dataList)}
  IN IF fitting = {} THEN 40 ELSE Min(fitting)

Make ==
  /\ pc = "make"
  /\ IF _typeNumber < 1 /\ ~Writable(_dataList)
     THEN Throw
     ELSE /\ _typeNumber' = IF _typeNumber < 1 THEN SmallestType ELSE _typeNumber
          /\ minLostPoint' = 0 /\ pattern' = 0
          /\ makeImpl(TRUE, 0)
          /\ UNCHANGED <<request, _dataList, _modules, _dataCache, place>>

DrawPatterns ==
  /\ pc = "draw"
  /\ _modules' = Patterns(_moduleCount, _typeNumber, request.level, test, maskPattern)
  /\ pc' = "cache"
  /\ UNCHANGED <<request, _dataList, _typeNumber, _dataCache, test, maskPattern, best, place>>

(* "code length overflow" and "illegal char" are thrown here.              *)
Overflow == ~Fits(_typeNumber, request.level, _dataList)

Cache ==
  /\ pc = "cache"
  /\ IF _dataCache = NoCache /\ (~Writable(_dataList) \/ Overflow)
     THEN Throw
     ELSE /\ _dataCache' = IF _dataCache = NoCache
                           THEN createData(_typeNumber, request.level, _dataList)
                           ELSE _dataCache
          /\ col' = _moduleCount - 1 /\ inc' = -1 /\ placed' = 0
          /\ pc' = "map"
          /\ UNCHANGED <<request, _dataList, _typeNumber, _modules, test, maskPattern, best>>

(* mapData, one pair of columns: up or down, right before left, every      *)
(* module that no pattern has taken.  Past the data the bits are light     *)
(* before the mask.                                                        *)
DataBit(k) == k < 8 * Len(_dataCache) /\ Bit(_dataCache[k \div 8 + 1], 7 - (k % 8)) = 1

(* Mutant: the column of the timing pattern is not left out.               *)
RightColumn(c) == c

SkipTiming(c) == IF c = 6 THEN 5 ELSE c

MapColumn ==
  LET right == SkipTiming(col)
      rows == DOMAIN _modules
      Free(R) == Cardinality({x \in R \X {right, right - 1} : _modules[x[1]][x[2]] = "null"})
      passed(r) == IF inc = -1 THEN {i \in rows : i > r} ELSE {i \in rows : i < r}
      beside(r, c) == IF c < right /\ _modules[r][right] = "null" THEN 1 ELSE 0
  IN /\ pc = "map"
     /\ _modules' = [r \in rows |-> [c \in rows |->
          IF c \in {right, right - 1} /\ _modules[r][c] = "null"
          THEN Module(DataBit(placed + Free(passed(r)) + beside(r, c))
                      # getMaskFunction(maskPattern, r, c))
          ELSE _modules[r][c]]]
     /\ placed' = placed + Free(rows)
     /\ col' = right - 2 /\ inc' = -inc
     /\ pc' = CASE right - 2 > 0 -> "map" [] right - 2 <= 0 /\ test -> "score"
                [] right - 2 <= 0 /\ ~test -> "made"
     /\ UNCHANGED <<request, _dataList, _typeNumber, _dataCache, test, maskPattern, best>>

(* getBestMaskPattern: the first of the masks with the lowest penalty.     *)
Score ==
  LET lostPoint == getLostPoint(_modules, _moduleCount)
      better == maskPattern = 0 \/ minLostPoint > lostPoint
  IN /\ pc = "score"
     /\ minLostPoint' = IF better THEN lostPoint ELSE minLostPoint
     /\ pattern' = IF better THEN maskPattern ELSE pattern
     /\ IF maskPattern < 7 THEN makeImpl(TRUE, maskPattern + 1) ELSE makeImpl(FALSE, pattern')
     /\ UNCHANGED <<request, _dataList, _typeNumber, _modules, _dataCache, place>>

(* Mutant: the codewords of the data before are kept.                      *)
AddDataKeepsCache ==
  /\ pc = "made" /\ request.later # <<>> /\ _dataList = request.dataList
  /\ _dataList' = _dataList \o request.later
  /\ pc' = "make"
  /\ UNCHANGED <<request, _typeNumber, _modules, _dataCache, test, maskPattern, best, place>>

(* addData on a symbol that has been made, and make again: the type stays. *)
AddData ==
  /\ pc = "made" /\ request.later # <<>> /\ _dataList = request.dataList
  /\ _dataList' = _dataList \o request.later
  /\ _dataCache' = NoCache
  /\ pc' = "make"
  /\ UNCHANGED <<request, _typeNumber, _modules, test, maskPattern, best, place>>

SymbolNext == Make \/ DrawPatterns \/ Cache \/ MapColumn \/ Score \/ AddData
===============================================================================
