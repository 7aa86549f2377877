-------------------------------- MODULE QrCode --------------------------------
(***************************************************************************)
(* From a text to the source of the img element (renderQr of               *)
(* mint-credentials.js through qrcode.js): the symbol of QrSymbol, and     *)
(* its pixels through GifImage.  QrScan is the phone at the other end.     *)
(***************************************************************************)
EXTENDS QrSymbol, QrScan, GifImage

vars == <<symbolVars, rasterVars, imageVars>>

-----------------------------------------------------------------------------
(* _this.createDataURL: both parameters have defaults, and a cell size of  *)
(* 0 is none.                                                              *)
NoMargin == -1

ASSUME ImagesAssumption ==
  \A q \in Requests : q.image.cellSize \in Nat /\ q.image.margin \in Nat \cup {NoMargin}

image == request.image
cellSize == IF image.cellSize = 0 THEN 2 ELSE image.cellSize
margin == IF image.margin = NoMargin THEN cellSize * 4 ELSE image.margin
width == _moduleCount * cellSize + margin * 2

getPixel(a, b) ==
  IF a \in margin .. width - margin - 1 /\ b \in margin .. width - margin - 1
     /\ _modules[(b - margin) \div cellSize][(a - margin) \div cellSize] = "dark"
  THEN 0 ELSE 1

(* All of them, row by row.                                                *)
PixelsOfSymbol == [k \in 1 .. width * width |-> getPixel((k - 1) % width, (k - 1) \div width)]

-----------------------------------------------------------------------------
Init == SymbolInit /\ ImageInit

Symbol == SymbolNext /\ UNCHANGED <<rasterVars, imageVars>>

Complete == pc = "made" /\ (request.later = <<>> \/ _dataList # request.dataList)

(* createDataURL of the symbol.                                            *)
CreateDataURL ==
  /\ Complete /\ request.wanted
  /\ SetPixels(width, PixelsOfSymbol)
  /\ UNCHANGED symbolVars

WriteImage == WriteNext /\ UNCHANGED symbolVars

Next == Symbol \/ CreateDataURL \/ WriteImage

Spec == Init /\ [][Next]_vars

-----------------------------------------------------------------------------
(* Properties.                                                             *)

Cells == {"null", "dark", "light"}

(* The variables hold what the code's variables hold, and nothing is       *)
(* undecided in a finished symbol (qrcode.js:30-43, 216-265).              *)
QrTypeOK ==
  /\ request \in Requests
  /\ _typeNumber \in 0 .. 40
  /\ pc \in {"make", "draw", "cache", "map", "score", "made", "thrown"}
  /\ DOMAIN _modules \in {{}, 0 .. _moduleCount - 1}
  /\ \A r \in DOMAIN _modules : _modules[r] \in [DOMAIN _modules -> Cells]
  /\ pc = "made" => \A r, c \in DOMAIN _modules : _modules[r][c] # "null"
  /\ test \in BOOLEAN /\ maskPattern \in 0 .. 7 /\ pattern \in 0 .. 7 /\ minLostPoint \in Nat
  /\ inc \in {-1, 1} /\ placed \in Nat /\ col \in -1 .. 177
  /\ phase \in {"none", "raster", "blocks", "encode", "shown"}
  /\ \A i \in DOMAIN gif : gif[i] \in 0 .. 255

(* The modules that the patterns leave free are exactly those that a       *)
(* reader looks for data in, and they hold the codewords of the blocks of  *)
(* every level with less than a byte to spare: drawing (45-57), the table  *)
(* of positions (863-904) and the table of blocks (1253-1499) agree for    *)
(* each of the types 1 to 40.                                              *)
CapacityExact ==
  pc = "cache" /\ maskPattern = 0 =>
    LET free == {x \in (DOMAIN _modules) \X (DOMAIN _modules) : _modules[x[1]][x[2]] = "null"}
    IN /\ \A level \in {"L", "M", "Q", "H"} :
            Cardinality(free) \div 8 = TotalCodeCount(getRSBlocks(_typeNumber, level))
       /\ free \cap Taken(_moduleCount, _typeNumber) = {}
       /\ Cardinality(free) + Cardinality(Taken(_moduleCount, _typeNumber)) = _moduleCount * _moduleCount

ReadsBack ==
  LET low(data) == [data EXCEPT !.chars = [i \in DOMAIN data.chars |-> data.chars[i] % 256]]
  IN /\ PatternsReadable(_modules, _moduleCount, _typeNumber)
     /\ FormatReadable(_modules, _moduleCount, request.level, maskPattern)
     /\ VersionReadable(_modules, _moduleCount, _typeNumber)
     /\ DataReadable(_modules, _moduleCount, _typeNumber, request.level, maskPattern,
                     [k \in DOMAIN _dataList |-> low(_dataList[k])])

TooLong(type) ==
  Total([k \in DOMAIN _dataList |-> 4 + CountBits(_dataList[k].mode, type)
                                      + Size(_dataList[k].mode, Len(_dataList[k].chars))])
    > 8 * TotalDataCount(getRSBlocks(type, request.level))

(* A reader finds the patterns, the format and the version in a finished   *)
(* symbol, finds no error in any of its blocks, and reads the data that    *)
(* was added, all of it in order, also after an addData that followed a    *)
(* first make (372-450).                                                   *)
Readable ==
  pc = "made" => ReadsBack /\ \A i \in DOMAIN _dataCache : _dataCache[i] \in 0 .. 255

(* What is refused could not be drawn: it has a character that its mode    *)
(* has not, or is too long for the type that was asked for or settled by   *)
(* the first make, or for type 40 (350-357, 424-453).                      *)
RefusedForCause ==
  pc = "thrown" =>
    \/ ~Writable(_dataList)
    \/ /\ TooLong(_typeNumber)
       /\ _typeNumber = 40 \/ request.typeNumber # 0 \/ _dataList # request.dataList

(* What was added can be scanned or was refused for a cause.               *)
Scannable == Readable /\ RefusedForCause

(* The image that is shown decodes to the pixels of the symbol, through    *)
(* base64, the blocks of the GIF, the bits of its raster and the growing   *)
(* table of the strings (557-575, 2029-2241).                              *)
ImageDecodes == GifDecodes /\ (phase = "shown" => read = PixelsOfSymbol)
===============================================================================
