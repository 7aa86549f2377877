------------------------------- MODULE GifImage -------------------------------
(***************************************************************************)
(* createDataURL of qrcode.js, the function behind the method: the pixels  *)
(* of gifImage, the GIF that write makes of them around the raster of      *)
(* GifRaster, and the base64 of the data URL.  Beside the writer is the    *)
(* viewer of the image: it finds the blocks by their lengths, puts the     *)
(* raster together again and is told nothing else.                         *)
(***************************************************************************)
EXTENDS GifRaster

CONSTANT BlockLimit  \* 255: the bytes in a block of the GIF at most

ASSUME BlockLimitAssumption == BlockLimit \in 1 .. 255

VARIABLES
  phase,    \* "none", "raster", "blocks", "encode" or "shown"
  _width,   \* also the height
  _data,    \* the pixels, row by row
  gif,      \* the bytes written
  offset,   \* the bytes of the raster that are in blocks
  base64,
  (* the viewer *)
  at,       \* where it expects the length of a block
  seen      \* the bytes of the blocks so far

viewer == <<at, seen>>
imageVars == <<phase, _width, _data, gif, offset, base64, viewer>>

-----------------------------------------------------------------------------
(* byteArrayOutputStream.                                                  *)
writeShort(n) == <<n % 256, (n \div 256) % 256>>

(* A length of 0 is taken for none: then the length of the whole array,    *)
(* and what is not there is written as 0.                                  *)
writeBytes(b, off, len) ==
  [i \in 1 .. (IF len = 0 THEN Len(b) ELSE len) |-> IF off + i \in DOMAIN b THEN b[off + i] ELSE 0]

(* gifImage.write, before the raster.                                      *)
Signature == <<71, 73, 70, 56, 55, 97>>
ColorMap == <<0, 0, 0, 255, 255, 255>>
lzwMinCodeSize == 2

Header(w) ==
  Signature \o writeShort(w) \o writeShort(w) \o <<128, 0, 0>> \o ColorMap
    \o <<44>> \o writeShort(0) \o writeShort(0) \o writeShort(w) \o writeShort(w) \o <<0>>
    \o <<lzwMinCodeSize>>

Terminator == <<0, 59>>

-----------------------------------------------------------------------------
(* base64EncodeOutputStream: four characters for three bytes; flush fills  *)
(* the bits of the last ones up and pads.                                  *)
Pad == 61

encode(n) ==
  CASE n < 26 -> 65 + n
    [] n \in 26 .. 51 -> 97 + (n - 26)
    [] n \in 52 .. 61 -> 48 + (n - 52)
    [] n = 62 -> 43
    [] n = 63 -> 47

Sextet(bytes, k) ==
  LET first == 3 * (k \div 4) + 1
      Byte(i) == IF i \in DOMAIN bytes THEN bytes[i] ELSE 0
  IN CASE k % 4 = 0 -> Byte(first) \div 4
       [] k % 4 = 1 -> (Byte(first) % 4) * 16 + Byte(first + 1) \div 16
       [] k % 4 = 2 -> (Byte(first + 1) % 16) * 4 + Byte(first + 2) \div 64
       [] k % 4 = 3 -> Byte(first + 2) % 64

Base64Of(bytes) ==
  [k \in 1 .. (8 * Len(bytes) + 5) \div 6 |-> encode(Sextet(bytes, k - 1))]
    \o [k \in 1 .. (-Len(bytes)) % 3 |-> Pad]

(* base64DecodeInputStream, read until the padding or the end.             *)
decode(c) ==
  CASE c \in 65 .. 90 -> c - 65
    [] c \in 97 .. 122 -> c - 97 + 26
    [] c \in 48 .. 57 -> c - 48 + 52
    [] c = 43 -> 62
    [] c = 47 -> 63

Unpadded(text) ==
  CHOOSE m \in 0 .. Len(text) :
    (\A i \in 1 .. m : text[i] # Pad) /\ (m < Len(text) => text[m + 1] = Pad)

Octet(text, k) ==
  LET first == 4 * (k \div 3) + 1
      Value(i) == decode(text[i])
  IN CASE k % 3 = 0 -> Value(first) * 4 + Value(first + 1) \div 16
       [] k % 3 = 1 -> (Value(first + 1) % 16) * 16 + Value(first + 2) \div 4
       [] k % 3 = 2 -> (Value(first + 2) % 4) * 64 + Value(first + 3)

Base64Read(text) == [k \in 1 .. (6 * Unpadded(text)) \div 8 |-> Octet(text, k - 1)]

-----------------------------------------------------------------------------
ImageInit ==
  /\ RasterInit
  /\ phase = "none" /\ _width = 0 /\ _data = <<>>
  /\ gif = <<>> /\ offset = 0 /\ base64 = <<>>
  /\ at = 31 /\ seen = <<>>

(* gifImage and setPixel for every pixel; write begins.                    *)
SetPixels(w, data) ==
  /\ phase = "none"
  /\ _width' = w /\ _data' = data
  /\ gif' = Header(w)
  /\ phase' = "raster"
  /\ UNCHANGED <<offset, base64, viewer, rasterVars>>

(* getLZWRaster over the pixels in order.                                  *)
Raster ==
  /\ phase = "raster" /\ Len(fed) < Len(_data)
  /\ Feed(_data[Len(fed) + 1])
  /\ UNCHANGED imageVars

EndRaster ==
  /\ phase = "raster" /\ Len(fed) = Len(_data)
  /\ LastCodes
  /\ phase' = "blocks"
  /\ UNCHANGED <<_width, _data, gif, offset, base64, viewer>>

(* The viewer takes the block that has been written where it looks for     *)
(* one; a block without bytes is the last.                                 *)
Views ==
  LET length == gif'[at]
  IN IF length = 0 THEN UNCHANGED viewer
     ELSE /\ seen' = seen \o SubSeq(gif', at + 1, at + length)
          /\ at' = at + length + 1

left == Len(out.bytes) - offset

WriteBlock ==
  /\ phase = "blocks" /\ left > BlockLimit
  /\ gif' = gif \o <<BlockLimit>> \o writeBytes(out.bytes, offset, BlockLimit)
  /\ offset' = offset + BlockLimit
  /\ Views
  /\ UNCHANGED <<phase, _width, _data, base64, rasterVars>>

WriteLastBlock ==
  /\ phase = "blocks" /\ left <= BlockLimit
  /\ gif' = gif \o <<left>> \o writeBytes(out.bytes, offset, left) \o Terminator
  /\ phase' = "encode"
  /\ Views
  /\ UNCHANGED <<_width, _data, offset, base64, rasterVars>>

WriteBase64 ==
  /\ phase = "encode"
  /\ base64' = Base64Of(gif)
  /\ phase' = "shown"
  /\ UNCHANGED <<_width, _data, gif, offset, viewer, rasterVars>>

WriteNext == Raster \/ EndRaster \/ WriteBlock \/ WriteLastBlock \/ WriteBase64

(* Any image, not only that of a symbol.                                   *)
ImageNext == (\E w \in Nat, data \in Seq(Pixels) : SetPixels(w, data)) \/ WriteNext

ImageSpec == ImageInit /\ [][ImageNext]_<<rasterVars, imageVars>>

-----------------------------------------------------------------------------
(* Properties.                                                             *)

(* The bit at i of the raster that the viewer has taken from the blocks.   *)
SeenBit(i) == BitOf(seen[(i \div 8) + 1], i % 8)

(* The codes end with the end code, and where the viewer looks for one bit *)
(* more than it has (EndWidth of GifRaster), that bit is one that flush    *)
(* has filled up with 0, or there is no such bit: it finds the end code or *)
(* the end of the raster, never another code.                              *)
EndCodeFound ==
  LET begins == Len(bits) - bitLength
  IN \A i \in 0 .. bitLength :
       begins + i < 8 * Len(seen) => SeenBit(begins + i) = BitOf(endCode, i)

(* What comes out of base64 is the GIF; the viewer has found its blocks,   *)
(* one after the other, up to the terminator; in them are, without a bit   *)
(* lost at the end of a byte, of a block or of the stream, the bits of the *)
(* codes; the codes stand for the pixels that were set, every one of them, *)
(* and the viewer finds their end (2012-2241).                             *)
GifDecodes ==
  phase = "shown" =>
    /\ Base64Read(base64) = gif
    /\ SubSeq(gif, at, Len(gif)) = Terminator
    /\ Len(seen) = (Len(bits) + 7) \div 8
    /\ \A i \in DOMAIN bits : SeenBit(i - 1) = bits[i]
    /\ EndCodeFound
    /\ read = _data
===============================================================================
