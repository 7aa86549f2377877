-------------------------- MODULE QrPatternProofs ---------------------------
(***************************************************************************)
(* What a reader finds in a finished symbol of any of the forty types: the *)
(* patterns, the format and the type number in their places, and along its *)
(* path the codewords of the data under the best of the eight masks.       *)
(*                                                                         *)
(* The patterns are followed layer by layer, each with the modules that it *)
(* decides and what a reader sees in them. They are counted as products of *)
(* intervals, which gives one number for each type, and that number is     *)
(* compared with the table of blocks.                                      *)
(*                                                                         *)
(* The path is followed pair of columns by pair of columns. Before each    *)
(* pair mapData has come to the number of the modules with data that are   *)
(* behind it, and within the pair both count alike.                        *)
(***************************************************************************)
EXTENDS QrCodeProofs

-----------------------------------------------------------------------------
(* The alignment patterns of a type are centred on 6 and on n - 7, and on  *)
(* even coordinates well between, nowhere near each other.                 *)
Spread(pos, n) ==
  \A p \in pos : /\ (p % 2) = 0
                 /\ p = 6 \/ p = n - 7 \/ p \in 22 .. n - 23
                 /\ \A q \in pos : p # q => p - q \notin -11 .. 11

(* The centres that the table lists are those that a reader computes.      *)
Positions(type) ==
  LET pos == ToSet(PATTERN_POSITION_TABLE[type])
  IN /\ pos = Centres(type) /\ pos \subseteq Int
     /\ Spread(pos, type * 4 + 17)

(* It is so in all forty rows.                                             *)
LEMMA PositionsOfTypes == \A type \in 1 .. 40 : Positions(type)
  <1>1. Positions(1)
    BY DEF Positions, Spread, PATTERN_POSITION_TABLE, ToSet, Centres
  <1>2. Positions(2)
    BY DEF Positions, Spread, PATTERN_POSITION_TABLE, ToSet, Centres
  <1>3. Positions(3)
    BY DEF Positions, Spread, PATTERN_POSITION_TABLE, ToSet, Centres
  <1>4. Positions(4)
    BY DEF Positions, Spread, PATTERN_POSITION_TABLE, ToSet, Centres
  <1>5. Positions(5)
    BY DEF Positions, Spread, PATTERN_POSITION_TABLE, ToSet, Centres
  <1>6. Positions(6)
    BY DEF Positions, Spread, PATTERN_POSITION_TABLE, ToSet, Centres
  <1>7. Positions(7)
    BY DEF Positions, Spread, PATTERN_POSITION_TABLE, ToSet, Centres
  <1>8. Positions(8)
    BY DEF Positions, Spread, PATTERN_POSITION_TABLE, ToSet, Centres
  <1>9. Positions(9)
    BY DEF Positions, Spread, PATTERN_POSITION_TABLE, ToSet, Centres
  <1>10. Positions(10)
    BY DEF Positions, Spread, PATTERN_POSITION_TABLE, ToSet, Centres
  <1>11. Positions(11)
    BY DEF Positions, Spread, PATTERN_POSITION_TABLE, ToSet, Centres
  <1>12. Positions(12)
    BY DEF Positions, Spread, PATTERN_POSITION_TABLE, ToSet, Centres
  <1>13. Positions(13)
    BY DEF Positions, Spread, PATTERN_POSITION_TABLE, ToSet, Centres
  <1>14. Positions(14)
    BY DEF Positions, Spread, PATTERN_POSITION_TABLE, ToSet, Centres
  <1>15. Positions(15)
    BY DEF Positions, Spread, PATTERN_POSITION_TABLE, ToSet, Centres
  <1>16. Positions(16)
    BY DEF Positions, Spread, PATTERN_POSITION_TABLE, ToSet, Centres
  <1>17. Positions(17)
    BY DEF Positions, Spread, PATTERN_POSITION_TABLE, ToSet, Centres
  <1>18. Positions(18)
    BY DEF Positions, Spread, PATTERN_POSITION_TABLE, ToSet, Centres
  <1>19. Positions(19)
    BY DEF Positions, Spread, PATTERN_POSITION_TABLE, ToSet, Centres
  <1>20. Positions(20)
    BY DEF Positions, Spread, PATTERN_POSITION_TABLE, ToSet, Centres
  <1>21. Positions(21)
    BY DEF Positions, Spread, PATTERN_POSITION_TABLE, ToSet, Centres
  <1>22. Positions(22)
    BY DEF Positions, Spread, PATTERN_POSITION_TABLE, ToSet, Centres
  <1>23. Positions(23)
    BY DEF Positions, Spread, PATTERN_POSITION_TABLE, ToSet, Centres
  <1>24. Positions(24)
    BY DEF Positions, Spread, PATTERN_POSITION_TABLE, ToSet, Centres
  <1>25. Positions(25)
    BY DEF Positions, Spread, PATTERN_POSITION_TABLE, ToSet, Centres
  <1>26. Positions(26)
    BY DEF Positions, Spread, PATTERN_POSITION_TABLE, ToSet, Centres
  <1>27. Positions(27)
    BY DEF Positions, Spread, PATTERN_POSITION_TABLE, ToSet, Centres
  <1>28. Positions(28)
    BY DEF Positions, Spread, PATTERN_POSITION_TABLE, ToSet, Centres
  <1>29. Positions(29)
    BY DEF Positions, Spread, PATTERN_POSITION_TABLE, ToSet, Centres
  <1>30. Positions(30)
    BY DEF Positions, Spread, PATTERN_POSITION_TABLE, ToSet, Centres
  <1>31. Positions(31)
    BY DEF Positions, Spread, PATTERN_POSITION_TABLE, ToSet, Centres
  <1>32. Positions(32)
    BY DEF Positions, Spread, PATTERN_POSITION_TABLE, ToSet, Centres
  <1>33. Positions(33)
    BY DEF Positions, Spread, PATTERN_POSITION_TABLE, ToSet, Centres
  <1>34. Positions(34)
    BY DEF Positions, Spread, PATTERN_POSITION_TABLE, ToSet, Centres
  <1>35. Positions(35)
    BY DEF Positions, Spread, PATTERN_POSITION_TABLE, ToSet, Centres
  <1>36. Positions(36)
    BY DEF Positions, Spread, PATTERN_POSITION_TABLE, ToSet, Centres
  <1>37. Positions(37)
    BY DEF Positions, Spread, PATTERN_POSITION_TABLE, ToSet, Centres
  <1>38. Positions(38)
    BY DEF Positions, Spread, PATTERN_POSITION_TABLE, ToSet, Centres
  <1>39. Positions(39)
    BY DEF Positions, Spread, PATTERN_POSITION_TABLE, ToSet, Centres
  <1>40. Positions(40)
    BY DEF Positions, Spread, PATTERN_POSITION_TABLE, ToSet, Centres
  <1> QED BY <1>1, <1>2, <1>3, <1>4, <1>5, <1>6, <1>7, <1>8, <1>9, <1>10, <1>11, <1>12, <1>13,
             <1>14, <1>15, <1>16, <1>17, <1>18, <1>19, <1>20, <1>21, <1>22, <1>23, <1>24, <1>25,
             <1>26, <1>27, <1>28, <1>29, <1>30, <1>31, <1>32, <1>33, <1>34, <1>35, <1>36, <1>37,
             <1>38, <1>39, <1>40

-----------------------------------------------------------------------------
(* A matrix of n rows.                                                     *)
Sized(m, n) == DOMAIN m = 0 .. n - 1

(* A position pattern, as a reader sees it.                                *)
LEMMA ProbeShape ==
  ASSUME NEW n \in Nat, NEW m, Sized(m, n), NEW row \in Int, NEW column \in Int
  PROVE  /\ Sized(setupPositionProbePattern(m, row, column), n)
         /\ \A r, c \in 0 .. n - 1 :
              setupPositionProbePattern(m, row, column)[r][c]
                = IF r - row \in -1 .. 7 /\ c - column \in -1 .. 7
                  THEN Module(Distance(<<r, c>>, <<row + 3, column + 3>>) \in {0, 1, 3})
                  ELSE m[r][c]
  <1> DEFINE ring(i, j) == \/ i \in 0 .. 6 /\ j \in {0, 6}
                           \/ j \in 0 .. 6 /\ i \in {0, 6}
                           \/ i \in 2 .. 4 /\ j \in 2 .. 4
             d == [r \in 0 .. n - 1 |-> [c \in 0 .. n - 1 |->
                     IF r - row \in -1 .. 7 /\ c - column \in -1 .. 7
                     THEN Module(ring(r - row, c - column)) ELSE m[r][c]]]
  <1>1. setupPositionProbePattern(m, row, column) = d
    BY DEF setupPositionProbePattern, Sized
  <1>2. ASSUME NEW i \in -1 .. 7, NEW j \in -1 .. 7
        PROVE  ring(i, j) <=> Distance(<<row + i, column + j>>, <<row + 3, column + 3>>) \in {0, 1, 3}
    BY DEF Distance
  <1> HIDE DEF ring
  <1>3. ASSUME NEW r \in 0 .. n - 1, NEW c \in 0 .. n - 1, r - row \in -1 .. 7, c - column \in -1 .. 7
        PROVE  d[r][c] = Module(Distance(<<r, c>>, <<row + 3, column + 3>>) \in {0, 1, 3})
    <2>1. d[r][c] = Module(ring(r - row, c - column))
      BY <1>3
    <2>2. row + (r - row) = r /\ column + (c - column) = c
      OBVIOUS
    <2>3. ring(r - row, c - column) <=> Distance(<<r, c>>, <<row + 3, column + 3>>) \in {0, 1, 3}
      BY <1>2, <1>3, <2>2
    <2> HIDE DEF d
    <2> QED BY <2>1, <2>3 DEF Module
  <1>4. ASSUME NEW r \in 0 .. n - 1, NEW c \in 0 .. n - 1, ~(r - row \in -1 .. 7 /\ c - column \in -1 .. 7)
        PROVE  d[r][c] = m[r][c]
    BY <1>4
  <1>5. Sized(d, n)
    BY DEF Sized
  <1> HIDE DEF d
  <1> QED BY <1>1, <1>3, <1>4, <1>5

(* Alignment patterns that nowhere overlap, as a reader sees them.         *)
LEMMA AdjustShape ==
  ASSUME NEW n \in Nat, NEW m, Sized(m, n), NEW centres \in SUBSET (Int \X Int),
         NEW r \in 0 .. n - 1, NEW c \in 0 .. n - 1,
         \A x, y \in centres : (/\ r - x[1] \in -2 .. 2 /\ c - x[2] \in -2 .. 2
                                /\ r - y[1] \in -2 .. 2 /\ c - y[2] \in -2 .. 2) => x = y
  PROVE  /\ Sized(AdjustPattern(m, centres), n)
         /\ \A x \in centres : r - x[1] \in -2 .. 2 /\ c - x[2] \in -2 .. 2
              => AdjustPattern(m, centres)[r][c] = Module(Distance(<<r, c>>, x) \in {0, 2})
         /\ (\A x \in centres : ~(r - x[1] \in -2 .. 2 /\ c - x[2] \in -2 .. 2))
              => AdjustPattern(m, centres)[r][c] = m[r][c]
  <1> DEFINE d == AdjustPattern(m, centres)
             near == {x \in centres : r - x[1] \in -2 .. 2}
             pick == CHOOSE x \in near : c - x[2] \in -2 .. 2
             shape(x) == r - x[1] \in {-2, 2} \/ c - x[2] \in {-2, 2} \/ <<r, c>> = x
  <1>1. Sized(d, n)
    BY DEF AdjustPattern, Sized
  <1>2. d[r][c] = IF \E x \in near : c - x[2] \in -2 .. 2 THEN Module(shape(pick)) ELSE m[r][c]
    BY DEF AdjustPattern, Sized
  <1>3. ASSUME NEW x \in centres, r - x[1] \in -2 .. 2, c - x[2] \in -2 .. 2
        PROVE  d[r][c] = Module(Distance(<<r, c>>, x) \in {0, 2})
    <2>1. x \in near
      BY <1>3
    <2>2. pick \in near /\ c - pick[2] \in -2 .. 2
      BY <1>3, <2>1
    <2>3. pick = x
      BY <1>3, <2>2
    <2>4. shape(x) <=> Distance(<<r, c>>, x) \in {0, 2}
      <3>1. PICK a \in Int, b \in Int : x = <<a, b>>
        OBVIOUS
      <3>2. r - a \in -2 .. 2 /\ c - b \in -2 .. 2
        BY <1>3, <3>1
      <3>3. shape(x) <=> r - a \in {-2, 2} \/ c - b \in {-2, 2} \/ (r = a /\ c = b)
        BY <3>1
      <3>4. Distance(<<r, c>>, <<a, b>>) \in {0, 2} <=> r - a \in {-2, 2} \/ c - b \in {-2, 2} \/ (r = a /\ c = b)
        BY <3>2 DEF Distance
      <3> QED BY <3>1, <3>3, <3>4
    <2>5. d[r][c] = Module(shape(pick))
      BY <1>2, <1>3, <2>1
    <2> HIDE DEF d, pick, shape
    <2> QED BY <2>3, <2>4, <2>5 DEF Module
  <1>4. ASSUME \A x \in centres : ~(r - x[1] \in -2 .. 2 /\ c - x[2] \in -2 .. 2)
        PROVE  d[r][c] = m[r][c]
    BY <1>2, <1>4
  <1> HIDE DEF d
  <1> QED BY <1>1, <1>3, <1>4 DEF d

(* The timing pattern decides what is left of row 6 and of column 6.       *)
LEMMA TimingShape ==
  ASSUME NEW n \in Nat, NEW m, Sized(m, n), NEW r \in 0 .. n - 1, NEW c \in 0 .. n - 1
  PROVE  /\ Sized(setupTimingPattern(m, n), n)
         /\ m[r][c] # "null" => setupTimingPattern(m, n)[r][c] = m[r][c]
         /\ m[r][c] = "null" =>
              /\ c = 6 /\ r \in 8 .. n - 9 => setupTimingPattern(m, n)[r][c] = Module((r % 2) = 0)
              /\ r = 6 /\ c \in 8 .. n - 9 => setupTimingPattern(m, n)[r][c] = Module((c % 2) = 0)
              /\ ~(c = 6 /\ r \in 8 .. n - 9) /\ ~(r = 6 /\ c \in 8 .. n - 9)
                   => setupTimingPattern(m, n)[r][c] = "null"
  <1> DEFINE d == setupTimingPattern(m, n)
  <1>1. Sized(d, n)
    BY DEF setupTimingPattern, Sized
  <1>2. d[r][c] = IF m[r][c] # "null" THEN m[r][c]
                  ELSE CASE c = 6 /\ r \in 8 .. n - 9 -> Module((r % 2) = 0)
                         [] r = 6 /\ c \in 8 .. n - 9 -> Module((c % 2) = 0)
                         [] OTHER                     -> "null"
    BY DEF setupTimingPattern, Sized
  <1>3. ~(c = 6 /\ r \in 8 .. n - 9 /\ r = 6 /\ c \in 8 .. n - 9)
    OBVIOUS
  <1> HIDE DEF d
  <1>4. CASE m[r][c] # "null"
    BY <1>1, <1>2, <1>4 DEF d
  <1>5. CASE m[r][c] = "null"
    <2>1. ASSUME c = 6, r \in 8 .. n - 9 PROVE d[r][c] = Module((r % 2) = 0)
      BY <1>2, <1>3, <1>5, <2>1
    <2>2. ASSUME r = 6, c \in 8 .. n - 9 PROVE d[r][c] = Module((c % 2) = 0)
      BY <1>2, <1>3, <1>5, <2>2
    <2>3. ASSUME ~(c = 6 /\ r \in 8 .. n - 9), ~(r = 6 /\ c \in 8 .. n - 9) PROVE d[r][c] = "null"
      BY <1>2, <1>5, <2>3
    <2> QED BY <1>1, <1>5, <2>1, <2>2, <2>3 DEF d
  <1> QED BY <1>4, <1>5

(* The modules of the type information.                                    *)
InfoAt(n, r, c) ==
  \/ c = 8 /\ r = n - 8
  \/ r = 8 /\ c \in (0 .. 5) \cup {7} \cup (n - 8 .. n - 1)
  \/ c = 8 /\ r \in (0 .. 5) \cup {7, 8} \cup (n - 7 .. n - 1)

(* setupTypeInfo decides the modules of InfoAt and no others; the one that *)
(* no bit of the format has is dark.                                       *)
LEMMA InfoShape ==
  ASSUME NEW n \in Nat, n >= 21, NEW m, Sized(m, n), NEW level, NEW isTest, NEW mask,
         NEW r \in 0 .. n - 1, NEW c \in 0 .. n - 1
  PROVE  /\ Sized(setupTypeInfo(m, n, level, isTest, mask), n)
         /\ InfoAt(n, r, c) => setupTypeInfo(m, n, level, isTest, mask)[r][c] # "null"
         /\ ~InfoAt(n, r, c) => setupTypeInfo(m, n, level, isTest, mask)[r][c] = m[r][c]
         /\ c = 8 /\ r = n - 8 => setupTypeInfo(m, n, level, isTest, mask)[r][c] = Module(~isTest)
  <1> DEFINE bits0 == getBCHTypeInfo(QRErrorCorrectionLevel[level] * 8 + mask)
             Drawn0(i) == Module(~isTest /\ Bit(bits0, i) = 1)
             down == {i \in 0 .. 14 : Vertical(n, i) = r}
             across == {i \in 0 .. 14 : Horizontal(n, i) = c}
             d == setupTypeInfo(m, n, level, isTest, mask)
  <1>1. Sized(d, n)
    BY DEF setupTypeInfo, Sized
  <1>2. d[r][c] = CASE c = 8 /\ r = n - 8           -> Module(~isTest)
                    [] r = 8 /\ across # {}         -> Drawn0(CHOOSE i \in across : TRUE)
                    [] c = 8 /\ r # n - 8 /\ down # {} -> Drawn0(CHOOSE i \in down : TRUE)
                    [] OTHER                        -> m[r][c]
    BY DEF setupTypeInfo, Sized
  <1>3. across # {} <=> c \in (0 .. 5) \cup {7} \cup (n - 8 .. n - 1)
    <2>1. \A i \in 0 .. 14 : Horizontal(n, i) \in (0 .. 5) \cup {7} \cup (n - 8 .. n - 1)
      BY DEF Horizontal
    <2>2. ASSUME c \in 0 .. 5 PROVE 14 - c \in across
      BY <2>2 DEF Horizontal
    <2>3. ASSUME c = 7 PROVE 8 \in across
      BY <2>3 DEF Horizontal
    <2>4. ASSUME c \in n - 8 .. n - 1 PROVE n - 1 - c \in across
      BY <2>4 DEF Horizontal
    <2> QED BY <2>1, <2>2, <2>3, <2>4
  <1>4. down # {} <=> r \in (0 .. 5) \cup {7, 8} \cup (n - 7 .. n - 1)
    <2>1. \A i \in 0 .. 14 : Vertical(n, i) \in (0 .. 5) \cup {7, 8} \cup (n - 7 .. n - 1)
      BY DEF Vertical
    <2>2. ASSUME r \in 0 .. 5 PROVE r \in down
      BY <2>2 DEF Vertical
    <2>3. ASSUME r \in 7 .. 8 PROVE r - 1 \in down
      BY <2>3 DEF Vertical
    <2>4. ASSUME r \in n - 7 .. n - 1 PROVE r - n + 15 \in down
      BY <2>4 DEF Vertical
    <2> QED BY <2>1, <2>2, <2>3, <2>4
  <1>5. \A i : Drawn0(i) # "null"
    BY ModuleType
  <1>6. Module(~isTest) # "null"
    BY ModuleType
  <1> HIDE DEF d, Drawn0, across, down
  <1>7. CASE c = 8 /\ r = n - 8
    <2>1. d[r][c] = Module(~isTest)
      BY <1>2, <1>7
    <2> QED BY <1>1, <1>6, <1>7, <2>1 DEF d, InfoAt
  <1>8. CASE ~(c = 8 /\ r = n - 8) /\ InfoAt(n, r, c)
    <2>1. (r = 8 /\ across # {}) \/ (c = 8 /\ r # n - 8 /\ down # {})
      BY <1>3, <1>4, <1>8 DEF InfoAt
    <2>2. d[r][c] \in {Drawn0(CHOOSE i \in across : TRUE), Drawn0(CHOOSE i \in down : TRUE)}
      BY <1>2, <1>8, <2>1
    <2> QED BY <1>1, <1>5, <1>8, <2>2 DEF d
  <1>9. CASE ~InfoAt(n, r, c)
    <2>1. ~(c = 8 /\ r = n - 8) /\ ~(r = 8 /\ across # {}) /\ ~(c = 8 /\ r # n - 8 /\ down # {})
      BY <1>3, <1>4, <1>9 DEF InfoAt
    <2>2. d[r][c] = m[r][c]
      BY <1>2, <2>1
    <2> QED BY <1>1, <1>9, <2>1, <2>2 DEF d
  <1> QED BY <1>7, <1>8, <1>9

(* The modules of the type number.                                         *)
NumberAt(n, r, c) ==
  \/ r \in 0 .. 5 /\ c \in n - 11 .. n - 9
  \/ c \in 0 .. 5 /\ r \in n - 11 .. n - 9

(* setupTypeNumber decides the modules of NumberAt and no others.          *)
LEMMA NumberShape ==
  ASSUME NEW n \in Nat, NEW m, Sized(m, n), NEW type, NEW isTest,
         NEW r \in 0 .. n - 1, NEW c \in 0 .. n - 1
  PROVE  /\ NumberAt(n, r, c) => setupTypeNumber(m, n, type, isTest)[r][c] # "null"
         /\ ~NumberAt(n, r, c) => setupTypeNumber(m, n, type, isTest)[r][c] = m[r][c]
  <1> DEFINE bits0 == getBCHTypeNumber(type)
             Drawn0(long, short) == Module(~isTest /\ Bit(bits0, 3 * long + short) = 1)
             d == setupTypeNumber(m, n, type, isTest)
  <1>1. d[r][c] = CASE r \in 0 .. 5 /\ c \in n - 11 .. n - 9 -> Drawn0(r, c - (n - 11))
                    [] c \in 0 .. 5 /\ r \in n - 11 .. n - 9 -> Drawn0(c, r - (n - 11))
                    [] OTHER -> m[r][c]
    BY DEF setupTypeNumber, Sized
  <1>2. \A i, j : Drawn0(i, j) # "null"
    BY ModuleType
  <1> HIDE DEF d, Drawn0
  <1>3. CASE NumberAt(n, r, c)
    <2>1. d[r][c] \in {Drawn0(r, c - (n - 11)), Drawn0(c, r - (n - 11))}
      BY <1>1, <1>3 DEF NumberAt
    <2> QED BY <1>2, <1>3, <2>1 DEF d
  <1>4. CASE ~NumberAt(n, r, c)
    BY <1>1, <1>4 DEF d, NumberAt
  <1> QED BY <1>3, <1>4

-----------------------------------------------------------------------------
(* The corners: a position pattern and the light line around it.           *)
CornerAt(n, r, c) ==
  \/ r \in 0 .. 7 /\ c \in 0 .. 7
  \/ r \in n - 8 .. n - 1 /\ c \in 0 .. 7
  \/ r \in 0 .. 7 /\ c \in n - 8 .. n - 1

(* Within k of each other, in rows and in columns.                         *)
Near(k, x, y) == x[1] - y[1] \in -k .. k /\ x[2] - y[2] \in -k .. k

(* The three position patterns on a blank matrix, as makeImpl draws them.  *)
Probes(n) ==
  setupPositionProbePattern(
    setupPositionProbePattern(setupPositionProbePattern(Blank(n), 0, 0), n - 7, 0), 0, n - 7)

(* They are what a reader looks for in the corners, and nothing else is    *)
(* decided.                                                                *)
LEMMA ProbesShape ==
  ASSUME NEW n \in Nat, n >= 21
  PROVE  /\ Sized(Probes(n), n)
         /\ \A r, c \in 0 .. n - 1 :
              /\ \A y \in Corners(n) : Near(4, <<r, c>>, y) =>
                   Probes(n)[r][c] = Module(Distance(<<r, c>>, y) \in {0, 1, 3})
              /\ CornerAt(n, r, c) <=> Probes(n)[r][c] # "null"
  <1> DEFINE p0 == Blank(n)
             p1 == setupPositionProbePattern(p0, 0, 0)
             p2 == setupPositionProbePattern(p1, n - 7, 0)
             p3 == setupPositionProbePattern(p2, 0, n - 7)
             in1(r, c) == r - 0 \in -1 .. 7 /\ c - 0 \in -1 .. 7
             in2(r, c) == r - (n - 7) \in -1 .. 7 /\ c - 0 \in -1 .. 7
             in3(r, c) == r - 0 \in -1 .. 7 /\ c - (n - 7) \in -1 .. 7
             shape(r, c, y) == Module(Distance(<<r, c>>, y) \in {0, 1, 3})
  <1>1. Sized(p0, n) /\ \A r, c \in 0 .. n - 1 : p0[r][c] = "null"
    BY DEF Blank, Sized
  <1>2. Probes(n) = p3
    BY DEF Probes
  <1> HIDE DEF p0
  <1>3. Sized(p1, n) /\ \A r, c \in 0 .. n - 1 :
          p1[r][c] = IF in1(r, c) THEN shape(r, c, <<0 + 3, 0 + 3>>) ELSE p0[r][c]
    <2>1. 0 \in Int
      OBVIOUS
    <2> QED BY <1>1, <2>1, ProbeShape
  <1> HIDE DEF p1
  <1>4. Sized(p2, n) /\ \A r, c \in 0 .. n - 1 :
          p2[r][c] = IF in2(r, c) THEN shape(r, c, <<n - 7 + 3, 0 + 3>>) ELSE p1[r][c]
    <2>1. n - 7 \in Int
      OBVIOUS
    <2> QED BY <1>3, <2>1, ProbeShape
  <1> HIDE DEF p2
  <1>5. Sized(p3, n) /\ \A r, c \in 0 .. n - 1 :
          p3[r][c] = IF in3(r, c) THEN shape(r, c, <<0 + 3, n - 7 + 3>>) ELSE p2[r][c]
    <2>1. n - 7 \in Int
      OBVIOUS
    <2> QED BY <1>4, <2>1, ProbeShape
  <1> HIDE DEF p3
  <1>6. ASSUME NEW r \in 0 .. n - 1, NEW c \in 0 .. n - 1
        PROVE  /\ Near(4, <<r, c>>, <<3, 3>>) => p3[r][c] = shape(r, c, <<3, 3>>)
               /\ Near(4, <<r, c>>, <<n - 4, 3>>) => p3[r][c] = shape(r, c, <<n - 4, 3>>)
               /\ Near(4, <<r, c>>, <<3, n - 4>>) => p3[r][c] = shape(r, c, <<3, n - 4>>)
               /\ CornerAt(n, r, c) <=> p3[r][c] # "null"
    <2>1. /\ in1(r, c) <=> Near(4, <<r, c>>, <<3, 3>>)
          /\ in2(r, c) <=> Near(4, <<r, c>>, <<n - 4, 3>>)
          /\ in3(r, c) <=> Near(4, <<r, c>>, <<3, n - 4>>)
      BY DEF Near
    <2>2. n - 7 + 3 = n - 4 /\ 0 + 3 = 3
      OBVIOUS
    <2>3. ~(in1(r, c) /\ in2(r, c)) /\ ~(in1(r, c) /\ in3(r, c)) /\ ~(in2(r, c) /\ in3(r, c))
      OBVIOUS
    <2>4. CornerAt(n, r, c) <=> in1(r, c) \/ in2(r, c) \/ in3(r, c)
      BY DEF CornerAt
    <2>5. \A y : shape(r, c, y) # "null"
      BY ModuleType
    <2> HIDE DEF in1, in2, in3, shape
    <2>6. p3[r][c] = IF in3(r, c) THEN shape(r, c, <<3, n - 4>>)
                     ELSE IF in2(r, c) THEN shape(r, c, <<n - 4, 3>>)
                     ELSE IF in1(r, c) THEN shape(r, c, <<3, 3>>)
                     ELSE "null"
      BY <1>1, <1>3, <1>4, <1>5, <2>2
    <2> QED BY <2>1, <2>3, <2>4, <2>5, <2>6
  <1> HIDE DEF shape
  <1>7. \A y \in Corners(n) : y = <<3, 3>> \/ y = <<3, n - 4>> \/ y = <<n - 4, 3>>
    BY DEF Corners
  <1> QED BY <1>2, <1>5, <1>6, <1>7 DEF shape

(* Where the alignment patterns are: on even coordinates, no two near each *)
(* other, and none near anything else but the lines in row and column 6.   *)
Clear(n, x) ==
  /\ (x[1] % 2) = 0 /\ (x[2] % 2) = 0
  /\ x[1] \in 6 .. n - 7 /\ x[2] \in 6 .. n - 7
  /\ x[1] = 6 \/ x[1] >= 18
  /\ x[2] = 6 \/ x[2] >= 18
  /\ x[1] <= 7 => x[2] \in 22 .. n - 23
  /\ x[2] <= 7 => x[1] \in 22 .. n - 23

(* The alignment patterns are clear of the corners and of each other.      *)
LEMMA AlignmentsWhere ==
  ASSUME NEW type \in 1 .. 40, NEW n \in Nat, n = type * 4 + 17
  PROVE  /\ Alignments(n, type) \subseteq Int \X Int
         /\ \A x \in Alignments(n, type) : Clear(n, x)
         /\ \A x, y \in Alignments(n, type) : x # y => ~(Near(11, x, y))
  <1>1. PICK pos : pos = ToSet(PATTERN_POSITION_TABLE[type]) /\ pos = Centres(type)
                   /\ pos \subseteq Int /\ Spread(pos, n)
    BY PositionsOfTypes DEF Positions
  <1>2. Alignments(n, type) \subseteq pos \X pos
    BY <1>1 DEF Alignments
  <1>3. ASSUME NEW x \in Alignments(n, type) PROVE Clear(n, x)
    <2>1. PICK a \in pos, b \in pos : x = <<a, b>>
      BY <1>2
    <2>2. a \in Int /\ b \in Int
      BY <1>1
    <2>3. /\ (a % 2) = 0 /\ (b % 2) = 0
          /\ a = 6 \/ a = n - 7 \/ a \in 22 .. n - 23
          /\ b = 6 \/ b = n - 7 \/ b \in 22 .. n - 23
      BY <1>1 DEF Spread
    <2>4. Distance(<<a, b>>, <<3, 3>>) > 5 /\ Distance(<<a, b>>, <<3, n - 4>>) > 5
          /\ Distance(<<a, b>>, <<n - 4, 3>>) > 5
      BY <2>1 DEF Alignments, Corners
    <2>5. /\ ~(a = 6 /\ b = 6) /\ ~(a = 6 /\ b = n - 7) /\ ~(a = n - 7 /\ b = 6)
      BY <2>2, <2>4 DEF Distance
    <2>6. n >= 25
      <3>1. type # 1
        BY <1>1, <2>1 DEF Centres
      <3> QED BY <3>1
    <2>7. /\ a \in 6 .. n - 7 /\ b \in 6 .. n - 7
          /\ a = 6 \/ a >= 18
          /\ b = 6 \/ b >= 18
          /\ a <= 7 => b \in 22 .. n - 23
          /\ b <= 7 => a \in 22 .. n - 23
      BY <2>2, <2>3, <2>5, <2>6
    <2> QED BY <2>1, <2>3, <2>7 DEF Clear
  <1>4. ASSUME NEW x \in Alignments(n, type), NEW y \in Alignments(n, type), Near(11, x, y)
        PROVE  x = y
    <2>1. PICK a \in pos, b \in pos, e \in pos, f \in pos : x = <<a, b>> /\ y = <<e, f>>
      BY <1>2
    <2>2. a - e \in -11 .. 11 /\ b - f \in -11 .. 11
      BY <1>4, <2>1 DEF Near
    <2>3. a = e /\ b = f
      BY <1>1, <2>2 DEF Spread
    <2> QED BY <2>1, <2>3
  <1> QED BY <1>1, <1>2, <1>3, <1>4

(* The centres that are not skipped are those.                             *)
LEMMA AlignmentsDrawn ==
  ASSUME NEW type \in 1 .. 40, NEW n \in Nat, n = type * 4 + 17
  PROVE  LET pos == ToSet(PATTERN_POSITION_TABLE[type])
         IN {x \in pos \X pos : Probes(n)[x[1]][x[2]] = "null"} = Alignments(n, type)
  <1>1. PICK pos : pos = ToSet(PATTERN_POSITION_TABLE[type]) /\ pos = Centres(type)
                   /\ pos \subseteq Int /\ Spread(pos, n)
    BY PositionsOfTypes DEF Positions
  <1>2. ASSUME NEW a \in pos, NEW b \in pos
        PROVE  Probes(n)[a][b] = "null" <=> \A y \in Corners(n) : Distance(<<a, b>>, y) > 5
    <2>1. n >= 25
      <3>1. type # 1
        BY <1>1 DEF Centres
      <3> QED BY <3>1
    <2>2. /\ a \in Int /\ b \in Int
          /\ a = 6 \/ a = n - 7 \/ a \in 22 .. n - 23
          /\ b = 6 \/ b = n - 7 \/ b \in 22 .. n - 23
      BY <1>1 DEF Spread
    <2>3. a \in 0 .. n - 1 /\ b \in 0 .. n - 1
      BY <2>1, <2>2
    <2>4. Probes(n)[a][b] = "null" <=> ~CornerAt(n, a, b)
      <3>1. n >= 21
        BY <2>1
      <3>2. \A r, c \in 0 .. n - 1 : CornerAt(n, r, c) <=> Probes(n)[r][c] # "null"
        BY <3>1, ProbesShape
      <3> QED BY <2>3, <3>2
    <2>5. (\A y \in Corners(n) : Distance(<<a, b>>, y) > 5)
            <=> /\ Distance(<<a, b>>, <<3, 3>>) > 5 /\ Distance(<<a, b>>, <<3, n - 4>>) > 5
                /\ Distance(<<a, b>>, <<n - 4, 3>>) > 5
      BY DEF Corners
    <2>6. /\ Distance(<<a, b>>, <<3, 3>>) > 5 <=> ~(a = 6 /\ b = 6)
          /\ Distance(<<a, b>>, <<3, n - 4>>) > 5 <=> ~(a = 6 /\ b = n - 7)
          /\ Distance(<<a, b>>, <<n - 4, 3>>) > 5 <=> ~(a = n - 7 /\ b = 6)
      BY <2>1, <2>2 DEF Distance
    <2>7. CornerAt(n, a, b) <=> (a = 6 /\ b = 6) \/ (a = 6 /\ b = n - 7) \/ (a = n - 7 /\ b = 6)
      BY <2>1, <2>2 DEF CornerAt
    <2> QED BY <2>4, <2>5, <2>6, <2>7
  <1> DEFINE A == {x \in pos \X pos : Probes(n)[x[1]][x[2]] = "null"}
             B == {x \in pos \X pos : \A y \in Corners(n) : Distance(x, y) > 5}
  <1>3. A = B
    <2>1. ASSUME NEW x \in pos \X pos PROVE x \in A <=> x \in B
      <3>1. PICK a \in pos, b \in pos : x = <<a, b>>
        OBVIOUS
      <3> QED BY <1>2, <3>1
    <2> QED BY <2>1
  <1>4. B = Alignments(n, type)
    BY <1>1 DEF Alignments
  <1> QED BY <1>1, <1>3, <1>4

-----------------------------------------------------------------------------
(* What a module is, that r, c is one of, when all patterns are drawn.     *)
AlignedAt(n, type, r, c) == \E x \in Alignments(n, type) : Near(2, <<r, c>>, x)

(* The timing patterns between the corners.                                *)
TimingAt(n, r, c) == (c = 6 /\ r \in 8 .. n - 9) \/ (r = 6 /\ c \in 8 .. n - 9)

(* What the patterns decide.                                               *)
DrawnAt(n, type, r, c) ==
  \/ CornerAt(n, r, c) \/ AlignedAt(n, type, r, c) \/ TimingAt(n, r, c) \/ InfoAt(n, r, c)
  \/ type >= 7 /\ NumberAt(n, r, c)

(* The drawing after the position, the alignment and the timing patterns.  *)
Timed(n, type) == setupTimingPattern(setupPositionAdjustPattern(Probes(n), type), n)

(* A module as a reader sees it when only these three have been drawn.     *)
TimedRight(d, n, type, r, c) ==
  /\ \A y \in Corners(n) : Near(4, <<r, c>>, y) => d = Module(Distance(<<r, c>>, y) \in {0, 1, 3})
  /\ \A x \in Alignments(n, type) : Near(2, <<r, c>>, x) => d = Module(Distance(<<r, c>>, x) \in {0, 2})
  /\ c = 6 /\ r \in 8 .. n - 9 => d = Module((r % 2) = 0)
  /\ r = 6 /\ c \in 8 .. n - 9 => d = Module((c % 2) = 0)
  /\ d # "null" <=> CornerAt(n, r, c) \/ AlignedAt(n, type, r, c) \/ TimingAt(n, r, c)

(* It has the three of them as a reader looks for them, and nothing else.  *)
LEMMA TimedShape ==
  ASSUME NEW type \in 1 .. 40, NEW n \in Nat, n = type * 4 + 17,
         NEW r \in 0 .. n - 1, NEW c \in 0 .. n - 1
  PROVE  Sized(Timed(n, type), n) /\ TimedRight(Timed(n, type)[r][c], n, type, r, c)
  <1> DEFINE probes == Probes(n)
             adjusted == setupPositionAdjustPattern(probes, type)
             timed == Timed(n, type)
             A == Alignments(n, type)
  <1>0. n >= 21
    OBVIOUS
  <1>1. /\ Sized(probes, n)
        /\ \A y \in Corners(n) : Near(4, <<r, c>>, y) =>
             probes[r][c] = Module(Distance(<<r, c>>, y) \in {0, 1, 3})
        /\ CornerAt(n, r, c) <=> probes[r][c] # "null"
    BY <1>0, ProbesShape
  <1>2. adjusted = AdjustPattern(probes, A)
    BY AlignmentsDrawn DEF setupPositionAdjustPattern
  <1>3. timed = setupTimingPattern(adjusted, n)
    BY DEF Timed
  <1>4. A \in SUBSET (Int \X Int) /\ \A x \in A : Clear(n, x)
    BY AlignmentsWhere
  <1>5. \A x, y \in A : Near(2, <<r, c>>, x) /\ Near(2, <<r, c>>, y) => x = y
    <2> SUFFICES ASSUME NEW x \in A, NEW y \in A, Near(2, <<r, c>>, x), Near(2, <<r, c>>, y)
                 PROVE  x = y
      OBVIOUS
    <2>1. PICK a \in Int, b \in Int, e \in Int, f \in Int : x = <<a, b>> /\ y = <<e, f>>
      BY <1>4
    <2>2. /\ r - a \in -2 .. 2 /\ c - b \in -2 .. 2
          /\ r - e \in -2 .. 2 /\ c - f \in -2 .. 2
      BY <2>1 DEF Near
    <2>3. a - e \in -11 .. 11 /\ b - f \in -11 .. 11
      BY <2>2
    <2>4. Near(11, x, y)
      BY <2>1, <2>3 DEF Near
    <2> QED BY <2>4, AlignmentsWhere
  <1> HIDE DEF probes
  <1>6. /\ Sized(adjusted, n)
        /\ \A x \in A : Near(2, <<r, c>>, x)
             => adjusted[r][c] = Module(Distance(<<r, c>>, x) \in {0, 2})
        /\ ~AlignedAt(n, type, r, c) => adjusted[r][c] = probes[r][c]
    <2> HIDE DEF A
    <2>1. \A x : Near(2, <<r, c>>, x) <=> r - x[1] \in -2 .. 2 /\ c - x[2] \in -2 .. 2
      BY DEF Near
    <2>2. \A x, y \in A : (/\ r - x[1] \in -2 .. 2 /\ c - x[2] \in -2 .. 2
                           /\ r - y[1] \in -2 .. 2 /\ c - y[2] \in -2 .. 2) => x = y
      <3> SUFFICES ASSUME NEW x \in A, NEW y \in A,
                          r - x[1] \in -2 .. 2 /\ c - x[2] \in -2 .. 2,
                          r - y[1] \in -2 .. 2 /\ c - y[2] \in -2 .. 2
                   PROVE  x = y
        OBVIOUS
      <3>1. Near(2, <<r, c>>, x) /\ Near(2, <<r, c>>, y)
        BY <2>1
      <3> QED BY <1>5, <3>1
    <2>3. /\ Sized(AdjustPattern(probes, A), n)
          /\ \A x \in A : r - x[1] \in -2 .. 2 /\ c - x[2] \in -2 .. 2
               => AdjustPattern(probes, A)[r][c] = Module(Distance(<<r, c>>, x) \in {0, 2})
          /\ (\A x \in A : ~(r - x[1] \in -2 .. 2 /\ c - x[2] \in -2 .. 2))
               => AdjustPattern(probes, A)[r][c] = probes[r][c]
      BY <1>1, <1>4, <2>2, AdjustShape
    <2>4. ~AlignedAt(n, type, r, c) => \A x \in A : ~(r - x[1] \in -2 .. 2 /\ c - x[2] \in -2 .. 2)
      BY <2>1 DEF AlignedAt, A
    <2> HIDE DEF adjusted
    <2> QED BY <1>2, <2>1, <2>3, <2>4
  <1> HIDE DEF adjusted
  <1>7. /\ Sized(timed, n)
        /\ adjusted[r][c] # "null" => timed[r][c] = adjusted[r][c]
        /\ adjusted[r][c] = "null" =>
             /\ c = 6 /\ r \in 8 .. n - 9 => timed[r][c] = Module((r % 2) = 0)
             /\ r = 6 /\ c \in 8 .. n - 9 => timed[r][c] = Module((c % 2) = 0)
             /\ ~TimingAt(n, r, c) => timed[r][c] = "null"
    BY <1>3, <1>6, TimingShape DEF TimingAt
  <1> HIDE DEF timed
  <1>8. \A b : Module(b) # "null"
    BY ModuleType
  <1>9. ~(CornerAt(n, r, c) /\ AlignedAt(n, type, r, c))
    <2> SUFFICES ASSUME CornerAt(n, r, c), NEW x \in A, Near(2, <<r, c>>, x) PROVE FALSE
      BY DEF AlignedAt
    <2>1. PICK a \in Int, b \in Int : x = <<a, b>>
      BY <1>4
    <2>2. /\ a \in 6 .. n - 7 /\ b \in 6 .. n - 7
          /\ a = 6 \/ a >= 18
          /\ b = 6 \/ b >= 18
          /\ a <= 7 => b \in 22 .. n - 23
          /\ b <= 7 => a \in 22 .. n - 23
      BY <1>4, <2>1 DEF Clear
    <2>3. r - a \in -2 .. 2 /\ c - b \in -2 .. 2
      BY <2>1 DEF Near
    <2> QED BY <2>2, <2>3 DEF CornerAt
  <1>10. ASSUME NEW y \in Corners(n), Near(4, <<r, c>>, y)
         PROVE  timed[r][c] = Module(Distance(<<r, c>>, y) \in {0, 1, 3})
    <2>1. probes[r][c] = Module(Distance(<<r, c>>, y) \in {0, 1, 3})
      BY <1>1, <1>10
    <2>2. CornerAt(n, r, c)
      BY <1>1, <1>8, <2>1
    <2> QED BY <1>6, <1>7, <1>8, <1>9, <2>1, <2>2
  <1>11. ASSUME NEW x \in A, Near(2, <<r, c>>, x)
         PROVE  timed[r][c] = Module(Distance(<<r, c>>, x) \in {0, 2})
    <2>1. adjusted[r][c] = Module(Distance(<<r, c>>, x) \in {0, 2})
      BY <1>6, <1>11
    <2> QED BY <1>7, <1>8, <2>1
  <1>12. ASSUME TimingAt(n, r, c)
         PROVE  /\ c = 6 => timed[r][c] = Module((r % 2) = 0)
                /\ r = 6 => timed[r][c] = Module((c % 2) = 0)
    <2>1. ~CornerAt(n, r, c)
      BY <1>12 DEF TimingAt, CornerAt
    <2>2. ~(c = 6 /\ r = 6)
      BY <1>12 DEF TimingAt
    <2>3. CASE ~AlignedAt(n, type, r, c)
      <3>1. adjusted[r][c] = "null"
        BY <1>1, <1>6, <2>1, <2>3
      <3> QED BY <1>7, <1>12, <2>2, <3>1 DEF TimingAt
    <2>4. CASE AlignedAt(n, type, r, c)
      <3>1. PICK x \in A : Near(2, <<r, c>>, x)
        BY <2>4 DEF AlignedAt
      <3>2. PICK a \in Int, b \in Int : x = <<a, b>>
        BY <1>4
      <3>3. /\ (a % 2) = 0 /\ (b % 2) = 0
            /\ a = 6 \/ a >= 18
            /\ b = 6 \/ b >= 18
        BY <1>4, <3>2 DEF Clear
      <3>4. r - a \in -2 .. 2 /\ c - b \in -2 .. 2
        BY <3>1, <3>2 DEF Near
      <3>5. timed[r][c] = Module(Distance(<<r, c>>, <<a, b>>) \in {0, 2})
        BY <1>11, <3>1, <3>2
      <3>6. c = 6 => (Distance(<<r, c>>, <<a, b>>) \in {0, 2} <=> (r % 2) = 0)
        <4> SUFFICES ASSUME c = 6 PROVE Distance(<<r, c>>, <<a, b>>) \in {0, 2} <=> (r % 2) = 0
          OBVIOUS
        <4>1. b = 6 /\ c - b = 0
          BY <3>3, <3>4
        <4>2. Distance(<<r, c>>, <<a, b>>) \in {0, 2} <=> r - a \in {-2, 0, 2}
          BY <3>4, <4>1 DEF Distance
        <4>3. r - a \in {-2, 0, 2} <=> (r % 2) = 0
          BY <3>3, <3>4
        <4> QED BY <4>2, <4>3
      <3>7. r = 6 => (Distance(<<r, c>>, <<a, b>>) \in {0, 2} <=> (c % 2) = 0)
        <4> SUFFICES ASSUME r = 6 PROVE Distance(<<r, c>>, <<a, b>>) \in {0, 2} <=> (c % 2) = 0
          OBVIOUS
        <4>1. a = 6 /\ r - a = 0
          BY <3>3, <3>4
        <4>2. Distance(<<r, c>>, <<a, b>>) \in {0, 2} <=> c - b \in {-2, 0, 2}
          BY <3>4, <4>1 DEF Distance
        <4>3. c - b \in {-2, 0, 2} <=> (c % 2) = 0
          BY <3>3, <3>4
        <4> QED BY <4>2, <4>3
      <3> QED BY <3>5, <3>6, <3>7 DEF Module
    <2> QED BY <2>3, <2>4
  <1>13. timed[r][c] # "null" <=> CornerAt(n, r, c) \/ AlignedAt(n, type, r, c) \/ TimingAt(n, r, c)
    <2>1. CASE TimingAt(n, r, c)
      <3>1. c = 6 \/ r = 6
        BY <2>1 DEF TimingAt
      <3> QED BY <1>8, <1>12, <2>1, <3>1
    <2>2. CASE ~TimingAt(n, r, c) /\ AlignedAt(n, type, r, c)
      <3>1. PICK x \in A : Near(2, <<r, c>>, x)
        BY <2>2 DEF AlignedAt
      <3> QED BY <1>8, <1>11, <2>2, <3>1
    <2>3. CASE ~TimingAt(n, r, c) /\ ~AlignedAt(n, type, r, c)
      <3>1. adjusted[r][c] = probes[r][c]
        BY <1>6, <2>3
      <3> QED BY <1>1, <1>7, <2>3, <3>1
    <2> QED BY <2>1, <2>2, <2>3
  <1>14. /\ c = 6 /\ r \in 8 .. n - 9 => TimingAt(n, r, c)
         /\ r = 6 /\ c \in 8 .. n - 9 => TimingAt(n, r, c)
    BY DEF TimingAt
  <1>15. TimedRight(timed[r][c], n, type, r, c)
    BY <1>10, <1>11, <1>12, <1>13, <1>14 DEF TimedRight
  <1> QED BY <1>7, <1>15 DEF timed

-----------------------------------------------------------------------------
(* A module as a reader sees it: of a position, an alignment or a timing   *)
(* pattern, the dark one, or another; d is what has been drawn.            *)
DrawnRight(d, n, type, isTest, r, c) ==
  /\ \A y \in Corners(n) : Near(4, <<r, c>>, y) => d = Module(Distance(<<r, c>>, y) \in {0, 1, 3})
  /\ \A x \in Alignments(n, type) : Near(2, <<r, c>>, x) => d = Module(Distance(<<r, c>>, x) \in {0, 2})
  /\ c = 6 /\ r \in 8 .. n - 9 => d = Module((r % 2) = 0)
  /\ r = 6 /\ c \in 8 .. n - 9 => d = Module((c % 2) = 0)
  /\ c = 8 /\ r = n - 8 => d = Module(~isTest)
  /\ d # "null" <=> DrawnAt(n, type, r, c)

(* The type information and the type number are clear of all that.         *)
LEMMA PatternsShape ==
  ASSUME NEW type \in 1 .. 40, NEW n \in Nat, n = type * 4 + 17, NEW level, NEW isTest, NEW mask,
         NEW r \in 0 .. n - 1, NEW c \in 0 .. n - 1
  PROVE  DrawnRight(Patterns(n, type, level, isTest, mask)[r][c], n, type, isTest, r, c)
  <1> DEFINE timed == Timed(n, type)
             typed == setupTypeInfo(timed, n, level, isTest, mask)
             numbered == setupTypeNumber(typed, n, type, isTest)
             drawn == Patterns(n, type, level, isTest, mask)[r][c]
             A == Alignments(n, type)
  <1>1. drawn = IF type >= 7 THEN numbered[r][c] ELSE typed[r][c]
    BY DEF Patterns, Timed, Probes
  <1>2. n >= 21
    OBVIOUS
  <1>3. /\ Sized(timed, n)
        /\ \A y \in Corners(n) : Near(4, <<r, c>>, y) =>
             timed[r][c] = Module(Distance(<<r, c>>, y) \in {0, 1, 3})
        /\ \A x \in A : Near(2, <<r, c>>, x) =>
             timed[r][c] = Module(Distance(<<r, c>>, x) \in {0, 2})
        /\ c = 6 /\ r \in 8 .. n - 9 => timed[r][c] = Module((r % 2) = 0)
        /\ r = 6 /\ c \in 8 .. n - 9 => timed[r][c] = Module((c % 2) = 0)
        /\ timed[r][c] # "null" <=> CornerAt(n, r, c) \/ AlignedAt(n, type, r, c) \/ TimingAt(n, r, c)
    <2>1. Sized(timed, n) /\ TimedRight(timed[r][c], n, type, r, c)
      BY TimedShape
    <2> HIDE DEF timed
    <2> QED BY <2>1 DEF TimedRight
  <1> HIDE DEF timed
  <1>4. /\ Sized(typed, n)
        /\ InfoAt(n, r, c) => typed[r][c] # "null"
        /\ ~InfoAt(n, r, c) => typed[r][c] = timed[r][c]
        /\ c = 8 /\ r = n - 8 => typed[r][c] = Module(~isTest)
    <2>1. PICK m : m = timed
      OBVIOUS
    <2>2. Sized(m, n)
      BY <1>3, <2>1
    <2> QED BY <1>2, <2>1, <2>2, InfoShape
  <1> HIDE DEF typed
  <1>5. /\ NumberAt(n, r, c) => numbered[r][c] # "null"
        /\ ~NumberAt(n, r, c) => numbered[r][c] = typed[r][c]
    BY <1>4, NumberShape
  <1> HIDE DEF numbered
  <1>6. ~(CornerAt(n, r, c) /\ InfoAt(n, r, c)) /\ ~(CornerAt(n, r, c) /\ NumberAt(n, r, c))
    BY <1>2 DEF CornerAt, InfoAt, NumberAt
  <1>7. ~(TimingAt(n, r, c) /\ InfoAt(n, r, c)) /\ ~(TimingAt(n, r, c) /\ NumberAt(n, r, c))
    BY <1>2 DEF TimingAt, InfoAt, NumberAt
  <1>8. ~(AlignedAt(n, type, r, c) /\ InfoAt(n, r, c))
        /\ ~(AlignedAt(n, type, r, c) /\ NumberAt(n, r, c) /\ type >= 7)
    <2> SUFFICES ASSUME NEW x \in A, Near(2, <<r, c>>, x)
                 PROVE  ~InfoAt(n, r, c) /\ ~(NumberAt(n, r, c) /\ type >= 7)
      BY DEF AlignedAt
    <2>1. PICK a \in Int, b \in Int : x = <<a, b>>
      BY AlignmentsWhere
    <2>2. Clear(n, x)
      BY AlignmentsWhere
    <2>3. /\ a \in 6 .. n - 7 /\ b \in 6 .. n - 7
          /\ a = 6 \/ a >= 18
          /\ b = 6 \/ b >= 18
          /\ a <= 7 => b \in 22 .. n - 23
          /\ b <= 7 => a \in 22 .. n - 23
      BY <2>1, <2>2 DEF Clear
    <2>4. r - a \in -2 .. 2 /\ c - b \in -2 .. 2
      BY <2>1 DEF Near
    <2>5. ~InfoAt(n, r, c)
      BY <1>2, <2>3, <2>4 DEF InfoAt
    <2>6. ~(NumberAt(n, r, c) /\ type >= 7)
      BY <2>3, <2>4 DEF NumberAt
    <2> QED BY <2>5, <2>6
  <1>9. ~(InfoAt(n, r, c) /\ NumberAt(n, r, c))
    BY <1>2 DEF InfoAt, NumberAt
  <1>10. \A b : Module(b) # "null"
    BY ModuleType
  <1> HIDE DEF drawn, A
  <1>11. ASSUME ~InfoAt(n, r, c), ~(type >= 7 /\ NumberAt(n, r, c)) PROVE drawn = timed[r][c]
    BY <1>1, <1>4, <1>5, <1>11
  <1>12. ASSUME InfoAt(n, r, c) PROVE drawn = typed[r][c]
    BY <1>1, <1>5, <1>9, <1>12
  <1>13. ASSUME NEW y \in Corners(n), Near(4, <<r, c>>, y)
         PROVE  drawn = Module(Distance(<<r, c>>, y) \in {0, 1, 3})
    <2>1. timed[r][c] = Module(Distance(<<r, c>>, y) \in {0, 1, 3})
      BY <1>3, <1>13
    <2>2. CornerAt(n, r, c)
      <3>1. y = <<3, 3>> \/ y = <<3, n - 4>> \/ y = <<n - 4, 3>>
        BY DEF Corners
      <3> QED BY <1>2, <1>13, <3>1 DEF Near, CornerAt
    <2> QED BY <1>6, <1>11, <2>1, <2>2
  <1>14. ASSUME NEW x \in A, Near(2, <<r, c>>, x)
         PROVE  drawn = Module(Distance(<<r, c>>, x) \in {0, 2})
    <2>1. AlignedAt(n, type, r, c)
      BY <1>14 DEF AlignedAt, A
    <2> QED BY <1>3, <1>8, <1>11, <1>14, <2>1
  <1>15. ASSUME TimingAt(n, r, c) PROVE drawn = timed[r][c]
    BY <1>7, <1>11, <1>15
  <1>16. ASSUME c = 8, r = n - 8 PROVE drawn = Module(~isTest)
    <2>1. InfoAt(n, r, c)
      BY <1>16 DEF InfoAt
    <2> QED BY <1>4, <1>12, <1>16, <2>1
  <1>17. drawn # "null" <=> DrawnAt(n, type, r, c)
    <2>1. CASE InfoAt(n, r, c)
      BY <1>4, <1>12, <2>1 DEF DrawnAt
    <2>2. CASE ~InfoAt(n, r, c) /\ type >= 7 /\ NumberAt(n, r, c)
      BY <1>1, <1>5, <2>2 DEF DrawnAt
    <2>3. CASE ~InfoAt(n, r, c) /\ ~(type >= 7 /\ NumberAt(n, r, c))
      BY <1>3, <1>11, <2>3 DEF DrawnAt
    <2> QED BY <2>1, <2>2, <2>3
  <1>18. /\ c = 6 /\ r \in 8 .. n - 9 => TimingAt(n, r, c)
         /\ r = 6 /\ c \in 8 .. n - 9 => TimingAt(n, r, c)
    BY DEF TimingAt
  <1>19. DrawnRight(drawn, n, type, isTest, r, c)
    BY <1>3, <1>13, <1>14, <1>15, <1>16, <1>17, <1>18 DEF DrawnRight, A
  <1> QED BY <1>19 DEF drawn

(* The patterns are drawn just where a reader looks for no data.           *)
LEMMA DrawnIsTaken ==
  ASSUME NEW type \in 1 .. 40, NEW n \in Nat, n = type * 4 + 17,
         NEW r \in 0 .. n - 1, NEW c \in 0 .. n - 1
  PROVE  DrawnAt(n, type, r, c) <=> <<r, c>> \in Taken(n, type)
  <1> DEFINE fixed == \/ r = 6 \/ c = 6
                      \/ \E y \in Corners(n) : r - y[1] \in -5 .. 5 /\ c - y[2] \in -5 .. 5
                                            /\ r \in (0 .. 8) \cup (n - 8 .. n - 1)
                                            /\ c \in (0 .. 8) \cup (n - 8 .. n - 1)
                      \/ type >= 7 /\ \/ r < 6 /\ c > n - 12
                                      \/ c < 6 /\ r > n - 12
             squares == UNION {(x[1] - 2 .. x[1] + 2) \X (x[2] - 2 .. x[2] + 2) : x \in Alignments(n, type)}
  <1>1. <<r, c>> \in Taken(n, type) <=> fixed \/ <<r, c>> \in squares
    BY DEF Taken
  <1>2. <<r, c>> \in squares <=> AlignedAt(n, type, r, c)
    <2>1. \A x \in Alignments(n, type) :
            <<r, c>> \in (x[1] - 2 .. x[1] + 2) \X (x[2] - 2 .. x[2] + 2) <=> Near(2, <<r, c>>, x)
      <3> SUFFICES ASSUME NEW x \in Alignments(n, type)
                   PROVE  <<r, c>> \in (x[1] - 2 .. x[1] + 2) \X (x[2] - 2 .. x[2] + 2) <=> Near(2, <<r, c>>, x)
        OBVIOUS
      <3>1. PICK a \in Int, b \in Int : x = <<a, b>>
        BY AlignmentsWhere
      <3>2. r \in a - 2 .. a + 2 <=> r - a \in -2 .. 2
        OBVIOUS
      <3>3. c \in b - 2 .. b + 2 <=> c - b \in -2 .. 2
        OBVIOUS
      <3> QED BY <3>1, <3>2, <3>3 DEF Near
    <2> QED BY <2>1 DEF AlignedAt
  <1>3. (\E y \in Corners(n) : r - y[1] \in -5 .. 5 /\ c - y[2] \in -5 .. 5
                            /\ r \in (0 .. 8) \cup (n - 8 .. n - 1)
                            /\ c \in (0 .. 8) \cup (n - 8 .. n - 1))
        <=> \/ r \in 0 .. 8 /\ c \in 0 .. 8
            \/ r \in 0 .. 8 /\ c \in n - 8 .. n - 1
            \/ r \in n - 8 .. n - 1 /\ c \in 0 .. 8
    BY DEF Corners
  <1>4. CornerAt(n, r, c) \/ TimingAt(n, r, c) \/ InfoAt(n, r, c) \/ (type >= 7 /\ NumberAt(n, r, c)) <=> fixed
    <2> DEFINE b == \/ r \in 0 .. 8 /\ c \in 0 .. 8
                    \/ r \in 0 .. 8 /\ c \in n - 8 .. n - 1
                    \/ r \in n - 8 .. n - 1 /\ c \in 0 .. 8
    <2>1. fixed <=> \/ r = 6 \/ c = 6 \/ b
                    \/ type >= 7 /\ \/ r < 6 /\ c > n - 12
                                    \/ c < 6 /\ r > n - 12
      BY <1>3
    <2>2. b <=> CornerAt(n, r, c) \/ InfoAt(n, r, c) \/ (r = 6 /\ c = 8) \/ (r = 8 /\ c = 6)
      BY DEF CornerAt, InfoAt
    <2>3. r = 6 \/ c = 6 => TimingAt(n, r, c) \/ b
      BY DEF TimingAt
    <2>4. TimingAt(n, r, c) => r = 6 \/ c = 6
      BY DEF TimingAt
    <2>5. NumberAt(n, r, c) => (r < 6 /\ c > n - 12) \/ (c < 6 /\ r > n - 12)
      BY DEF NumberAt
    <2>6. (r < 6 /\ c > n - 12) \/ (c < 6 /\ r > n - 12) => NumberAt(n, r, c) \/ CornerAt(n, r, c)
      BY DEF NumberAt, CornerAt
    <2>7. r = 6 /\ c = 8 => TimingAt(n, r, c)
      BY DEF TimingAt
    <2>8. r = 8 /\ c = 6 => TimingAt(n, r, c)
      BY DEF TimingAt
    <2> HIDE DEF b, fixed
    <2> QED BY <2>1, <2>2, <2>3, <2>4, <2>5, <2>6, <2>7, <2>8
  <1> HIDE DEF fixed, squares
  <1> QED BY <1>1, <1>2, <1>4 DEF DrawnAt

-----------------------------------------------------------------------------
(* The row of the table of positions for a type: 6 and the other centres,  *)
(* in order, up to n - 7.                                                  *)
PositionRow(type) ==
  LET row == PATTERN_POSITION_TABLE[type]
  IN /\ row \in Seq(Int)
     /\ type = 1 => Len(row) = 0
     /\ type # 1 => /\ Len(row) = type \div 7 + 2 /\ row[1] = 6 /\ row[Len(row)] = type * 4 + 10
                    /\ \A i \in 2 .. Len(row) : row[i] >= 18
                    /\ \A i, j \in 2 .. Len(row) : i < j => row[i] < row[j]

(* All forty rows are of that kind.                                        *)
LEMMA PositionRows == \A type \in 1 .. 40 : PositionRow(type)
  <1>1. PositionRow(1)
    BY DEF PositionRow, PATTERN_POSITION_TABLE
  <1>2. PositionRow(2)
    BY DEF PositionRow, PATTERN_POSITION_TABLE
  <1>3. PositionRow(3)
    BY DEF PositionRow, PATTERN_POSITION_TABLE
  <1>4. PositionRow(4)
    BY DEF PositionRow, PATTERN_POSITION_TABLE
  <1>5. PositionRow(5)
    BY DEF PositionRow, PATTERN_POSITION_TABLE
  <1>6. PositionRow(6)
    BY DEF PositionRow, PATTERN_POSITION_TABLE
  <1>7. PositionRow(7)
    BY DEF PositionRow, PATTERN_POSITION_TABLE
  <1>8. PositionRow(8)
    BY DEF PositionRow, PATTERN_POSITION_TABLE
  <1>9. PositionRow(9)
    BY DEF PositionRow, PATTERN_POSITION_TABLE
  <1>10. PositionRow(10)
    BY DEF PositionRow, PATTERN_POSITION_TABLE
  <1>11. PositionRow(11)
    BY DEF PositionRow, PATTERN_POSITION_TABLE
  <1>12. PositionRow(12)
    BY DEF PositionRow, PATTERN_POSITION_TABLE
  <1>13. PositionRow(13)
    BY DEF PositionRow, PATTERN_POSITION_TABLE
  <1>14. PositionRow(14)
    BY DEF PositionRow, PATTERN_POSITION_TABLE
  <1>15. PositionRow(15)
    BY DEF PositionRow, PATTERN_POSITION_TABLE
  <1>16. PositionRow(16)
    BY DEF PositionRow, PATTERN_POSITION_TABLE
  <1>17. PositionRow(17)
    BY DEF PositionRow, PATTERN_POSITION_TABLE
  <1>18. PositionRow(18)
    BY DEF PositionRow, PATTERN_POSITION_TABLE
  <1>19. PositionRow(19)
    BY DEF PositionRow, PATTERN_POSITION_TABLE
  <1>20. PositionRow(20)
    BY DEF PositionRow, PATTERN_POSITION_TABLE
  <1>21. PositionRow(21)
    BY DEF PositionRow, PATTERN_POSITION_TABLE
  <1>22. PositionRow(22)
    BY DEF PositionRow, PATTERN_POSITION_TABLE
  <1>23. PositionRow(23)
    BY DEF PositionRow, PATTERN_POSITION_TABLE
  <1>24. PositionRow(24)
    BY DEF PositionRow, PATTERN_POSITION_TABLE
  <1>25. PositionRow(25)
    BY DEF PositionRow, PATTERN_POSITION_TABLE
  <1>26. PositionRow(26)
    BY DEF PositionRow, PATTERN_POSITION_TABLE
  <1>27. PositionRow(27)
    BY DEF PositionRow, PATTERN_POSITION_TABLE
  <1>28. PositionRow(28)
    BY DEF PositionRow, PATTERN_POSITION_TABLE
  <1>29. PositionRow(29)
    BY DEF PositionRow, PATTERN_POSITION_TABLE
  <1>30. PositionRow(30)
    BY DEF PositionRow, PATTERN_POSITION_TABLE
  <1>31. PositionRow(31)
    BY DEF PositionRow, PATTERN_POSITION_TABLE
  <1>32. PositionRow(32)
    BY DEF PositionRow, PATTERN_POSITION_TABLE
  <1>33. PositionRow(33)
    BY DEF PositionRow, PATTERN_POSITION_TABLE
  <1>34. PositionRow(34)
    BY DEF PositionRow, PATTERN_POSITION_TABLE
  <1>35. PositionRow(35)
    BY DEF PositionRow, PATTERN_POSITION_TABLE
  <1>36. PositionRow(36)
    BY DEF PositionRow, PATTERN_POSITION_TABLE
  <1>37. PositionRow(37)
    BY DEF PositionRow, PATTERN_POSITION_TABLE
  <1>38. PositionRow(38)
    BY DEF PositionRow, PATTERN_POSITION_TABLE
  <1>39. PositionRow(39)
    BY DEF PositionRow, PATTERN_POSITION_TABLE
  <1>40. PositionRow(40)
    BY DEF PositionRow, PATTERN_POSITION_TABLE
  <1> QED BY <1>1, <1>2, <1>3, <1>4, <1>5, <1>6, <1>7, <1>8, <1>9, <1>10, <1>11, <1>12, <1>13,
             <1>14, <1>15, <1>16, <1>17, <1>18, <1>19, <1>20, <1>21, <1>22, <1>23, <1>24, <1>25,
             <1>26, <1>27, <1>28, <1>29, <1>30, <1>31, <1>32, <1>33, <1>34, <1>35, <1>36, <1>37,
             <1>38, <1>39, <1>40

(* The blocks of a type have as many codewords at every level, and less    *)
(* than another one would fit in the modules that are left.                *)
CodeCount(row) == IF Len(row) = 3 THEN row[1] * row[2] ELSE row[1] * row[2] + row[4] * row[5]

(* How many modules the patterns of a type take, and no data has: the two  *)
(* lines of the timing patterns, the three corners with the formats, from  *)
(* type 7 on the type numbers, and the alignment patterns off those lines. *)
TakenCount(type) ==
  LET n == type * 4 + 17
      k == type \div 7 + 1
  IN 2 * n - 1 + 192 + (IF type >= 7 THEN 36 ELSE 0)
     + (IF type = 1 THEN 0 ELSE 25 * k * k + 40 * (k - 1))

(* The four rows of a type in the table of blocks have one codeword for    *)
(* every eight modules that are left.                                      *)
BlockRows(type, half, first) ==
  LET codes == ((type * 4 + 17) * (type * 4 + 17) - TakenCount(type)) \div 8
  IN /\ CodeCount(half[first + 1]) = codes /\ CodeCount(half[first + 2]) = codes
     /\ CodeCount(half[first + 3]) = codes /\ CodeCount(half[first + 4]) = codes

(* It is so in the first half of the table.                                *)
LEMMA BlockRowsTo20 ==
  ASSUME NEW half, half = RS_BLOCKS_1_TO_20
  PROVE  \A type \in 1 .. 20 : BlockRows(type, half, 4 * (type - 1))
  <1>1. BlockRows(1, half, 0)
    BY DEF BlockRows, TakenCount, CodeCount, RS_BLOCKS_1_TO_20
  <1>2. BlockRows(2, half, 4)
    BY DEF BlockRows, TakenCount, CodeCount, RS_BLOCKS_1_TO_20
  <1>3. BlockRows(3, half, 8)
    BY DEF BlockRows, TakenCount, CodeCount, RS_BLOCKS_1_TO_20
  <1>4. BlockRows(4, half, 12)
    BY DEF BlockRows, TakenCount, CodeCount, RS_BLOCKS_1_TO_20
  <1>5. BlockRows(5, half, 16)
    BY DEF BlockRows, TakenCount, CodeCount, RS_BLOCKS_1_TO_20
  <1>6. BlockRows(6, half, 20)
    BY DEF BlockRows, TakenCount, CodeCount, RS_BLOCKS_1_TO_20
  <1>7. BlockRows(7, half, 24)
    BY DEF BlockRows, TakenCount, CodeCount, RS_BLOCKS_1_TO_20
  <1>8. BlockRows(8, half, 28)
    BY DEF BlockRows, TakenCount, CodeCount, RS_BLOCKS_1_TO_20
  <1>9. BlockRows(9, half, 32)
    BY DEF BlockRows, TakenCount, CodeCount, RS_BLOCKS_1_TO_20
  <1>10. BlockRows(10, half, 36)
    BY DEF BlockRows, TakenCount, CodeCount, RS_BLOCKS_1_TO_20
  <1>11. BlockRows(11, half, 40)
    BY DEF BlockRows, TakenCount, CodeCount, RS_BLOCKS_1_TO_20
  <1>12. BlockRows(12, half, 44)
    BY DEF BlockRows, TakenCount, CodeCount, RS_BLOCKS_1_TO_20
  <1>13. BlockRows(13, half, 48)
    BY DEF BlockRows, TakenCount, CodeCount, RS_BLOCKS_1_TO_20
  <1>14. BlockRows(14, half, 52)
    BY DEF BlockRows, TakenCount, CodeCount, RS_BLOCKS_1_TO_20
  <1>15. BlockRows(15, half, 56)
    BY DEF BlockRows, TakenCount, CodeCount, RS_BLOCKS_1_TO_20
  <1>16. BlockRows(16, half, 60)
    BY DEF BlockRows, TakenCount, CodeCount, RS_BLOCKS_1_TO_20
  <1>17. BlockRows(17, half, 64)
    BY DEF BlockRows, TakenCount, CodeCount, RS_BLOCKS_1_TO_20
  <1>18. BlockRows(18, half, 68)
    BY DEF BlockRows, TakenCount, CodeCount, RS_BLOCKS_1_TO_20
  <1>19. BlockRows(19, half, 72)
    BY DEF BlockRows, TakenCount, CodeCount, RS_BLOCKS_1_TO_20
  <1>20. BlockRows(20, half, 76)
    BY DEF BlockRows, TakenCount, CodeCount, RS_BLOCKS_1_TO_20
  <1> QED BY <1>1, <1>2, <1>3, <1>4, <1>5, <1>6, <1>7, <1>8, <1>9, <1>10, <1>11, <1>12, <1>13,
             <1>14, <1>15, <1>16, <1>17, <1>18, <1>19, <1>20

(* It is so in the second half.                                            *)
LEMMA BlockRowsFrom21 ==
  ASSUME NEW half, half = RS_BLOCKS_21_TO_40
  PROVE  \A type \in 21 .. 40 : BlockRows(type, half, 4 * (type - 21))
  <1>1. BlockRows(21, half, 0)
    BY DEF BlockRows, TakenCount, CodeCount, RS_BLOCKS_21_TO_40
  <1>2. BlockRows(22, half, 4)
    BY DEF BlockRows, TakenCount, CodeCount, RS_BLOCKS_21_TO_40
  <1>3. BlockRows(23, half, 8)
    BY DEF BlockRows, TakenCount, CodeCount, RS_BLOCKS_21_TO_40
  <1>4. BlockRows(24, half, 12)
    BY DEF BlockRows, TakenCount, CodeCount, RS_BLOCKS_21_TO_40
  <1>5. BlockRows(25, half, 16)
    BY DEF BlockRows, TakenCount, CodeCount, RS_BLOCKS_21_TO_40
  <1>6. BlockRows(26, half, 20)
    BY DEF BlockRows, TakenCount, CodeCount, RS_BLOCKS_21_TO_40
  <1>7. BlockRows(27, half, 24)
    BY DEF BlockRows, TakenCount, CodeCount, RS_BLOCKS_21_TO_40
  <1>8. BlockRows(28, half, 28)
    BY DEF BlockRows, TakenCount, CodeCount, RS_BLOCKS_21_TO_40
  <1>9. BlockRows(29, half, 32)
    BY DEF BlockRows, TakenCount, CodeCount, RS_BLOCKS_21_TO_40
  <1>10. BlockRows(30, half, 36)
    BY DEF BlockRows, TakenCount, CodeCount, RS_BLOCKS_21_TO_40
  <1>11. BlockRows(31, half, 40)
    BY DEF BlockRows, TakenCount, CodeCount, RS_BLOCKS_21_TO_40
  <1>12. BlockRows(32, half, 44)
    BY DEF BlockRows, TakenCount, CodeCount, RS_BLOCKS_21_TO_40
  <1>13. BlockRows(33, half, 48)
    BY DEF BlockRows, TakenCount, CodeCount, RS_BLOCKS_21_TO_40
  <1>14. BlockRows(34, half, 52)
    BY DEF BlockRows, TakenCount, CodeCount, RS_BLOCKS_21_TO_40
  <1>15. BlockRows(35, half, 56)
    BY DEF BlockRows, TakenCount, CodeCount, RS_BLOCKS_21_TO_40
  <1>16. BlockRows(36, half, 60)
    BY DEF BlockRows, TakenCount, CodeCount, RS_BLOCKS_21_TO_40
  <1>17. BlockRows(37, half, 64)
    BY DEF BlockRows, TakenCount, CodeCount, RS_BLOCKS_21_TO_40
  <1>18. BlockRows(38, half, 68)
    BY DEF BlockRows, TakenCount, CodeCount, RS_BLOCKS_21_TO_40
  <1>19. BlockRows(39, half, 72)
    BY DEF BlockRows, TakenCount, CodeCount, RS_BLOCKS_21_TO_40
  <1>20. BlockRows(40, half, 76)
    BY DEF BlockRows, TakenCount, CodeCount, RS_BLOCKS_21_TO_40
  <1> QED BY <1>1, <1>2, <1>3, <1>4, <1>5, <1>6, <1>7, <1>8, <1>9, <1>10, <1>11, <1>12, <1>13,
             <1>14, <1>15, <1>16, <1>17, <1>18, <1>19, <1>20

(* An element of two sequences one after the other is one of the first or  *)
(* one of the second.                                                      *)
LEMMA TwoHalves ==
  ASSUME NEW X, NEW a \in Seq(X), NEW b \in Seq(X), NEW n \in Nat, NEW m \in Nat, Len(a) = n, Len(b) = m
  PROVE  \A i \in 1 .. n + m : (a \o b)[i] = IF i <= n THEN a[i] ELSE b[i - n]
  OBVIOUS

(* So it is in the table.                                                  *)
LEMMA CodeCountOfTypes ==
  ASSUME NEW type \in 1 .. 40, NEW k \in 1 .. 4
  PROVE  CodeCount(RS_BLOCK_TABLE[(type - 1) * 4 + k])
           = ((type * 4 + 17) * (type * 4 + 17) - TakenCount(type)) \div 8
  <1> DEFINE a == RS_BLOCKS_1_TO_20
             b == RS_BLOCKS_21_TO_40
             codes == ((type * 4 + 17) * (type * 4 + 17) - TakenCount(type)) \div 8
  <1>1. a \in Seq(Rows) /\ Len(a) = 80
    BY DEF RS_BLOCKS_1_TO_20, Rows
  <1>2. b \in Seq(Rows) /\ Len(b) = 80
    BY DEF RS_BLOCKS_21_TO_40, Rows
  <1>3. RS_BLOCK_TABLE = a \o b
    BY DEF RS_BLOCK_TABLE
  <1>4. type <= 20 => BlockRows(type, a, 4 * (type - 1))
    BY BlockRowsTo20
  <1>5. type > 20 => BlockRows(type, b, 4 * (type - 21))
    BY BlockRowsFrom21
  <1> HIDE DEF a, b, Rows, codes
  <1>6. \A i \in 1 .. 160 : (a \o b)[i] = IF i <= 80 THEN a[i] ELSE b[i - 80]
    <2>1. PICK n \in Nat : n = 80
      OBVIOUS
    <2>2. \A i \in 1 .. n + n : (a \o b)[i] = IF i <= n THEN a[i] ELSE b[i - n]
      <3>1. Len(a) = n /\ Len(b) = n
        BY <1>1, <1>2, <2>1
      <3>2. a \in Seq(Rows) /\ b \in Seq(Rows)
        BY <1>1, <1>2
      <3> QED BY <3>1, <3>2, TwoHalves
    <2>3. 1 .. n + n = 1 .. 160
      BY <2>1
    <2> QED BY <2>1, <2>2, <2>3, Zenon
  <1>7. CASE type <= 20
    <2>1. (type - 1) * 4 + k \in 1 .. 160 /\ (type - 1) * 4 + k <= 80
      BY <1>7
    <2>2. (a \o b)[(type - 1) * 4 + k] = a[(type - 1) * 4 + k]
      BY <1>6, <2>1
    <2>3. CodeCount(a[4 * (type - 1) + k]) = codes
      BY <1>4, <1>7 DEF BlockRows, codes
    <2>4. 4 * (type - 1) + k = (type - 1) * 4 + k
      OBVIOUS
    <2> QED BY <1>3, <2>2, <2>3, <2>4 DEF codes
  <1>8. CASE type > 20
    <2>1. (type - 1) * 4 + k \in 1 .. 160 /\ ~((type - 1) * 4 + k <= 80)
      BY <1>8
    <2>2. (a \o b)[(type - 1) * 4 + k] = b[((type - 1) * 4 + k) - 80]
      BY <1>6, <2>1
    <2>3. CodeCount(b[4 * (type - 21) + k]) = codes
      BY <1>5, <1>8 DEF BlockRows, codes
    <2>4. 4 * (type - 21) + k = ((type - 1) * 4 + k) - 80
      OBVIOUS
    <2> QED BY <1>3, <2>2, <2>3, <2>4 DEF codes
  <1> QED BY <1>7, <1>8

-----------------------------------------------------------------------------
(* Counting.                                                               *)
Counts(u, k) == IsFiniteSet(u) /\ Cardinality(u) = k

(* Two sets apart.                                                         *)
LEMMA CountsUnion ==
  ASSUME NEW u, NEW t, NEW j \in Nat, NEW k \in Nat, Counts(u, j), Counts(t, k), u \cap t = {},
         NEW m, m = j + k
  PROVE  Counts(u \cup t, m)
  <1>1. Cardinality(u \cap t) = 0
    BY FS_EmptySet
  <1>2. IsFiniteSet(u \cup t) /\ Cardinality(u \cup t) = Cardinality(u) + Cardinality(t) - Cardinality(u \cap t)
    BY FS_Union DEF Counts
  <1> QED BY <1>1, <1>2 DEF Counts

(* A product.                                                              *)
LEMMA CountsProduct ==
  ASSUME NEW u, NEW t, NEW j \in Nat, NEW k \in Nat, Counts(u, j), Counts(t, k), NEW m, m = j * k
  PROVE  Counts(u \X t, m)
  BY FS_Product DEF Counts

(* An interval.                                                            *)
LEMMA CountsInterval ==
  ASSUME NEW a \in Int, NEW b \in Int, a <= b + 1
  PROVE  Counts(a .. b, b - a + 1)
  BY FS_Interval DEF Counts

(* What a function that never takes a value twice makes of a set.          *)
LEMMA CountsBijection ==
  ASSUME NEW u, NEW k \in Nat, Counts(u, k), NEW X, NEW f \in [u -> X],
         \A x, y \in u : f[x] = f[y] => x = y
  PROVE  Counts(Range(f), k)
  <1> DEFINE T == Range(f)
  <1>0. T = {f[x] : x \in u}
    BY DEF Range
  <1>1. f \in [u -> T]
    BY <1>0
  <1>2. f \in Surjection(u, T)
    BY <1>0, <1>1 DEF Surjection
  <1>3. f \in Injection(u, T)
    BY <1>1 DEF Injection, IsInjective
  <1> HIDE DEF T
  <1>4. ExistsBijection(u, T)
    BY <1>2, <1>3 DEF Bijection, ExistsBijection
  <1> QED BY <1>4, FS_Bijection DEF Counts, T

(* Products are apart where one of their sides is.                         *)
LEMMA ProductsApart ==
  ASSUME NEW a, NEW b, NEW c, NEW d, a \cap c = {} \/ b \cap d = {}
  PROVE  (a \X b) \cap (c \X d) = {}
  OBVIOUS

(* Everything within two of a set of numbers.                              *)
Wide(u) == {x \in Int : \E p \in u : x - p \in -2 .. 2}

(* Around numbers that are nowhere near each other there are five for      *)
(* each.                                                                   *)
LEMMA WideCounts ==
  ASSUME NEW u \in SUBSET Int, NEW k \in Nat, Counts(u, k),
         \A p, q \in u : p # q => p - q \notin -11 .. 11
  PROVE  Counts(Wide(u), 5 * k)
  <1> DEFINE P == u \X (-2 .. 2)
             f == [x \in P |-> x[1] + x[2]]
  <1>1. Counts(P, k * 5)
    <2>1. Counts(-2 .. 2, 5)
      <3>1. -2 \in Int /\ 2 \in Int /\ -2 <= 2 + 1 /\ 2 - (-2) + 1 = 5
        OBVIOUS
      <3> QED BY <3>1, CountsInterval
    <2>2. 5 \in Nat
      OBVIOUS
    <2> QED BY <2>1, <2>2, CountsProduct
  <1>2. \A x, y \in P : f[x] = f[y] => x = y
    <2> SUFFICES ASSUME NEW x \in P, NEW y \in P, f[x] = f[y] PROVE x = y
      OBVIOUS
    <2>1. PICK a, b : a = x[1] /\ b = x[2] /\ a \in u /\ b \in -2 .. 2 /\ x = <<a, b>>
      OBVIOUS
    <2>2. PICK c, d : c = y[1] /\ d = y[2] /\ c \in u /\ d \in -2 .. 2 /\ y = <<c, d>>
      OBVIOUS
    <2>3. f[x] = a + b /\ f[y] = c + d
      BY <2>1, <2>2
    <2>4. a \in Int /\ c \in Int
      BY <2>1, <2>2
    <2> HIDE DEF f, P
    <2>5. a + b = c + d
      BY <2>3
    <2>6. a - c \in -11 .. 11
      BY <2>1, <2>2, <2>4, <2>5
    <2>7. a = c
      BY <2>1, <2>2, <2>6
    <2>8. b = d
      BY <2>1, <2>2, <2>4, <2>5, <2>7
    <2> QED BY <2>1, <2>2, <2>7, <2>8
  <1>3. Wide(u) = Range(f)
    <2>1. ASSUME NEW y \in Wide(u) PROVE y \in Range(f)
      <3>1. PICK p \in u : y \in Int /\ y - p \in -2 .. 2
        BY DEF Wide
      <3>2. p \in Int
        OBVIOUS
      <3>3. y = p + (y - p)
        BY <3>1, <3>2
      <3>4. <<p, y - p>> \in P /\ f[<<p, y - p>>] = y
        BY <3>1, <3>3
      <3> QED BY <3>4 DEF Range
    <2>2. ASSUME NEW x \in P PROVE f[x] \in Wide(u)
      <3>1. PICK p, d : p = x[1] /\ d = x[2] /\ p \in u /\ d \in -2 .. 2 /\ x = <<p, d>>
        OBVIOUS
      <3>2. p \in Int /\ f[x] = p + d
        BY <3>1
      <3>3. p + d \in Int /\ (p + d) - p \in -2 .. 2
        BY <3>1, <3>2
      <3> QED BY <3>1, <3>2, <3>3 DEF Wide
    <2> QED BY <2>1, <2>2 DEF Range
  <1>4. k * 5 = 5 * k /\ k * 5 \in Nat
    OBVIOUS
  <1>5. f \in [P -> Int]
    <2> SUFFICES ASSUME NEW x \in P PROVE x[1] + x[2] \in Int
      OBVIOUS
    <2>1. PICK p, d : p = x[1] /\ d = x[2] /\ p \in u /\ d \in -2 .. 2 /\ x = <<p, d>>
      OBVIOUS
    <2>2. p \in Int
      BY <2>1
    <2> QED BY <2>1, <2>2
  <1> HIDE DEF f, P
  <1>6. Counts(Range(f), k * 5)
    BY <1>1, <1>2, <1>4, <1>5, CountsBijection
  <1> QED BY <1>3, <1>4, <1>6

-----------------------------------------------------------------------------
(* The modules of the patterns.                                            *)

(* The centres beside 6.                                                   *)
Others(type) == Centres(type) \ {6}

(* How many there are, and where.                                          *)
LEMMA OthersCount ==
  ASSUME NEW type \in 1 .. 40, NEW n \in Nat, n = type * 4 + 17
  PROVE  /\ Others(type) \in SUBSET Int
         /\ type = 1 => Others(type) = {}
         /\ type # 1 => Counts(Others(type), type \div 7 + 1) /\ n - 7 \in Others(type) /\ 6 \in Centres(type)
         /\ \A p \in Others(type) : p = n - 7 \/ p \in 22 .. n - 23
         /\ \A p \in Others(type) : p >= 18
         /\ \A p, q \in Others(type) : p # q => p - q \notin -11 .. 11
  <1>1. PICK row : row = PATTERN_POSITION_TABLE[type]
    OBVIOUS
  <1>2. /\ row \in Seq(Int)
        /\ type = 1 => Len(row) = 0
        /\ type # 1 => /\ Len(row) = type \div 7 + 2 /\ row[1] = 6 /\ row[Len(row)] = type * 4 + 10
                       /\ \A i \in 2 .. Len(row) : row[i] >= 18
                       /\ \A i, j \in 2 .. Len(row) : i < j => row[i] < row[j]
    BY <1>1, PositionRows DEF PositionRow
  <1>3. PICK pos : pos = ToSet(row) /\ pos = Centres(type) /\ pos \subseteq Int /\ Spread(pos, n)
    BY <1>1, PositionsOfTypes DEF Positions
  <1>4. pos = {row[i] : i \in 1 .. Len(row)}
    BY <1>2, <1>3 DEF ToSet
  <1>5. Others(type) = pos \ {6}
    BY <1>3 DEF Others
  <1>6. /\ \A p \in Others(type) : p = n - 7 \/ p \in 22 .. n - 23
        /\ \A p, q \in Others(type) : p # q => p - q \notin -11 .. 11
    BY <1>3, <1>5 DEF Spread
  <1>7. CASE type = 1
    <2>1. pos = {}
      BY <1>2, <1>4, <1>7
    <2> QED BY <1>5, <1>7, <2>1
  <1>8. CASE type # 1
    <2>1. PICK k \in Nat : k = type \div 7 + 1 /\ Len(row) = k + 1 /\ k >= 1
      BY <1>2, <1>8
    <2> DEFINE I == 2 .. k + 1
               f == [i \in I |-> row[i]]
    <2>2. Counts(I, k)
      <3>1. 2 \in Int /\ k + 1 \in Int /\ 2 <= k + 1 + 1 /\ k + 1 - 2 + 1 = k
        BY <2>1
      <3> QED BY <3>1, CountsInterval
    <2>3. \A i \in I : row[i] >= 18 /\ row[i] \in Int
      BY <1>2, <1>8, <2>1
    <2>4. \A i, j \in I : f[i] = f[j] => i = j
      <3> SUFFICES ASSUME NEW i \in I, NEW j \in I, row[i] = row[j] PROVE i = j
        OBVIOUS
      <3>1. ~(i < j) /\ ~(j < i)
        BY <1>2, <1>8, <2>1, <2>3
      <3> QED BY <3>1
    <2>5. Counts(Range(f), k)
      <3>1. f \in [I -> Int]
        BY <2>3
      <3> HIDE DEF f, I
      <3> QED BY <2>1, <2>2, <2>4, <3>1, CountsBijection
    <2>6. Others(type) = Range(f)
      <3>1. 1 .. Len(row) = {1} \cup I
        BY <2>1
      <3>2. row[1] = 6
        BY <1>2, <1>8
      <3>3. \A i \in I : f[i] = row[i] /\ f[i] # 6
        BY <2>3
      <3>4. pos = {6} \cup Range(f)
        BY <1>4, <3>1, <3>2, <3>3 DEF Range
      <3>5. 6 \notin Range(f)
        BY <3>3 DEF Range
      <3> HIDE DEF f, I
      <3> QED BY <1>5, <3>4, <3>5
    <2>7. \A p \in Others(type) : p >= 18
      BY <2>3, <2>6 DEF Range
    <2>8. n - 7 \in Others(type)
      <3>1. k + 1 \in I /\ f[k + 1] = row[k + 1]
        BY <2>1
      <3>2. row[k + 1] = n - 7
        BY <1>2, <1>8, <2>1
      <3> QED BY <2>6, <3>1, <3>2 DEF Range
    <2>9. 6 \in Centres(type)
      <3>1. 1 \in 1 .. Len(row) /\ row[1] = 6
        BY <1>2, <1>8, <2>1
      <3> QED BY <1>3, <1>4, <3>1
    <2> QED BY <1>3, <1>5, <1>6, <1>8, <2>1, <2>5, <2>6, <2>7, <2>8, <2>9
  <1> QED BY <1>7, <1>8

-----------------------------------------------------------------------------
(* The modules of the patterns, in four groups: the lines in row and       *)
(* column 6, the corners with the type information, the copies of the type *)
(* number, and the alignment patterns, less what they share with a line.   *)
Square(n) == (0 .. n - 1) \X (0 .. n - 1)

(* The two lines of the timing patterns, through the whole symbol.         *)
Lines(n) == ({6} \X (0 .. n - 1)) \cup (((0 .. 5) \cup (7 .. n - 1)) \X {6})

(* The corners and the formats, without those lines.                       *)
Boxes(n) ==
  LET near == (0 .. 5) \cup (7 .. 8)
      far == n - 8 .. n - 1
  IN (near \X near) \cup (near \X far) \cup (far \X near)

(* The type numbers.                                                       *)
Numbers(n, type) ==
  IF type >= 7 THEN ((0 .. 5) \X (n - 11 .. n - 9)) \cup ((n - 11 .. n - 9) \X (0 .. 5)) ELSE {}

(* The alignment patterns, without those lines.                            *)
Aligned(n, type) ==
  LET all == Wide(Others(type))
      inner == Wide(Others(type) \ {n - 7})
      beside == (4 .. 5) \cup (7 .. 8)
  IN (all \X all) \cup (beside \X inner) \cup (inner \X beside)

(* The alignment patterns are centred on two of the others, or on one of   *)
(* them that is not the last and on 6.                                     *)
LEMMA AlignmentsAre ==
  ASSUME NEW type \in 1 .. 40, NEW n \in Nat, n = type * 4 + 17, NEW a, NEW b
  PROVE  <<a, b>> \in Alignments(n, type) <=>
           \/ a \in Others(type) /\ b \in Others(type)
           \/ a = 6 /\ b \in Others(type) \ {n - 7}
           \/ a \in Others(type) \ {n - 7} /\ b = 6
  <1> DEFINE O == Others(type)
             C == Centres(type)
             x == <<a, b>>
  <1>1. /\ O \in SUBSET Int
        /\ type = 1 => O = {}
        /\ type # 1 => n - 7 \in O /\ 6 \in C
        /\ \A p \in O : p = n - 7 \/ p \in 22 .. n - 23
        /\ \A p \in O : p >= 18
    BY OthersCount
  <1>2. O = C \ {6}
    BY DEF Others
  <1>3. type = 1 => C = {}
    BY DEF Centres
  <1>4. n >= 21 /\ (type # 1 => n >= 25)
    OBVIOUS
  <1>5. x \in Alignments(n, type)
          <=> a \in C /\ b \in C /\ \A y \in Corners(n) : Distance(x, y) > 5
    BY DEF Alignments
  <1>6. (\A y \in Corners(n) : Distance(x, y) > 5)
          <=> /\ Distance(x, <<3, 3>>) > 5 /\ Distance(x, <<3, n - 4>>) > 5
              /\ Distance(x, <<n - 4, 3>>) > 5
    BY DEF Corners
  <1> HIDE DEF O, C
  <1>7. CASE a \in O /\ b \in O
    <2>1. a \in Int /\ b \in Int /\ a >= 18 /\ b >= 18
      BY <1>1, <1>7
    <2>2. /\ Distance(x, <<3, 3>>) > 5 /\ Distance(x, <<3, n - 4>>) > 5
          /\ Distance(x, <<n - 4, 3>>) > 5
      BY <2>1 DEF Distance
    <2> QED BY <1>2, <1>5, <1>6, <1>7, <2>2 DEF O
  <1>8. CASE a = 6 /\ b \in O
    <2>1. b \in Int /\ (b = n - 7 \/ b \in 22 .. n - 23) /\ n >= 25 /\ 6 \in C /\ 6 \notin O
      BY <1>1, <1>2, <1>4, <1>8
    <2>2. CASE b = n - 7
      <3>1. Distance(x, <<3, n - 4>>) = 3
        BY <1>8, <2>2 DEF Distance
      <3> QED BY <1>5, <1>6, <1>8, <2>1, <2>2, <3>1 DEF O
    <2>3. CASE b \in 22 .. n - 23
      <3>1. /\ Distance(x, <<3, 3>>) > 5 /\ Distance(x, <<3, n - 4>>) > 5
            /\ Distance(x, <<n - 4, 3>>) > 5
        BY <1>4, <1>8, <2>3 DEF Distance
      <3>2. b # n - 7
        BY <1>4, <2>3
      <3> QED BY <1>2, <1>5, <1>6, <1>8, <2>1, <3>1, <3>2 DEF O
    <2> QED BY <2>1, <2>2, <2>3
  <1>9. CASE a \in O /\ b = 6
    <2>1. a \in Int /\ (a = n - 7 \/ a \in 22 .. n - 23) /\ n >= 25 /\ 6 \in C /\ 6 \notin O
      BY <1>1, <1>2, <1>4, <1>9
    <2>2. CASE a = n - 7
      <3>1. Distance(x, <<n - 4, 3>>) = 3
        BY <1>9, <2>2 DEF Distance
      <3> QED BY <1>5, <1>6, <1>9, <2>1, <2>2, <3>1 DEF O
    <2>3. CASE a \in 22 .. n - 23
      <3>1. /\ Distance(x, <<3, 3>>) > 5 /\ Distance(x, <<3, n - 4>>) > 5
            /\ Distance(x, <<n - 4, 3>>) > 5
        BY <1>4, <1>9, <2>3 DEF Distance
      <3>2. a # n - 7
        BY <1>4, <2>3
      <3> QED BY <1>2, <1>5, <1>6, <1>9, <2>1, <3>1, <3>2 DEF O
    <2> QED BY <2>1, <2>2, <2>3
  <1>10. CASE a = 6 /\ b = 6
    <2>1. Distance(x, <<3, 3>>) = 3
      BY <1>10 DEF Distance
    <2> QED BY <1>2, <1>5, <1>6, <1>10, <2>1 DEF O
  <1>11. CASE ~(a \in C /\ b \in C)
    BY <1>1, <1>2, <1>3, <1>5, <1>11 DEF O
  <1> QED BY <1>2, <1>7, <1>8, <1>9, <1>10, <1>11

(* A module that patterns draw is in one of the groups.                    *)
LEMMA TakenGroups ==
  ASSUME NEW type \in 1 .. 40, NEW n \in Nat, n = type * 4 + 17
  PROVE  /\ Taken(n, type) = Lines(n) \cup Boxes(n) \cup Numbers(n, type) \cup Aligned(n, type)
         /\ Taken(n, type) \subseteq Square(n)
  <1> DEFINE O == Others(type)
             near == (0 .. 5) \cup (7 .. 8)
             far == n - 8 .. n - 1
             beside == (4 .. 5) \cup (7 .. 8)
             all == Wide(O)
             inner == Wide(O \ {n - 7})
  <1>1. /\ O \in SUBSET Int
        /\ \A p \in O : p = n - 7 \/ p \in 22 .. n - 23
        /\ \A p \in O : p >= 18
    BY OthersCount
  <1>2. n >= 21
    OBVIOUS
  <1> HIDE DEF O
  <1>3. all \subseteq 16 .. n - 5
    BY <1>1, <1>2 DEF Wide
  <1>4. inner \subseteq 20 .. n - 21
    BY <1>1, <1>2 DEF Wide
  <1> HIDE DEF all, inner
  <1>5. ASSUME NEW r \in 0 .. n - 1, NEW c \in 0 .. n - 1
        PROVE  AlignedAt(n, type, r, c) <=> \/ r \in all /\ c \in all
                                            \/ r \in 4 .. 8 /\ c \in inner
                                            \/ r \in inner /\ c \in 4 .. 8
    <2> DEFINE A == Alignments(n, type)
    <2>1. ASSUME NEW x \in A, Near(2, <<r, c>>, x)
          PROVE  (r \in all /\ c \in all) \/ (r \in 4 .. 8 /\ c \in inner) \/ (r \in inner /\ c \in 4 .. 8)
      <3>1. PICK a \in Int, b \in Int : x = <<a, b>>
        BY AlignmentsWhere
      <3>2. r - a \in -2 .. 2 /\ c - b \in -2 .. 2
        BY <2>1, <3>1 DEF Near
      <3>3. \/ a \in O /\ b \in O
            \/ a = 6 /\ b \in O \ {n - 7}
            \/ a \in O \ {n - 7} /\ b = 6
        BY <3>1, AlignmentsAre DEF O
      <3>4. a \in O => r \in all
        BY <3>2 DEF all, Wide
      <3>5. b \in O => c \in all
        BY <3>2 DEF all, Wide
      <3>6. a \in O \ {n - 7} => r \in inner
        BY <3>2 DEF inner, Wide
      <3>7. b \in O \ {n - 7} => c \in inner
        BY <3>2 DEF inner, Wide
      <3>8. (a = 6 => r \in 4 .. 8) /\ (b = 6 => c \in 4 .. 8)
        BY <3>2
      <3> QED BY <3>3, <3>4, <3>5, <3>6, <3>7, <3>8
    <2>2. ASSUME NEW a \in Int, NEW b \in Int, <<a, b>> \in A, r - a \in -2 .. 2, c - b \in -2 .. 2
          PROVE  AlignedAt(n, type, r, c)
      <3>1. Near(2, <<r, c>>, <<a, b>>)
        BY <2>2 DEF Near
      <3> QED BY <2>2, <3>1 DEF AlignedAt
    <2>3. CASE r \in all /\ c \in all
      <3>1. PICK a \in O, b \in O : r - a \in -2 .. 2 /\ c - b \in -2 .. 2
        BY <2>3 DEF all, Wide
      <3>2. <<a, b>> \in A
        BY <3>1, AlignmentsAre DEF O
      <3>3. a \in Int /\ b \in Int
        BY <1>1, <3>1
      <3>4. AlignedAt(n, type, r, c)
        BY <2>2, <3>1, <3>2, <3>3, Zenon
      <3> QED BY <2>3, <3>4
    <2>4. CASE r \in 4 .. 8 /\ c \in inner
      <3>1. PICK b \in O \ {n - 7} : c - b \in -2 .. 2
        BY <2>4 DEF inner, Wide
      <3>2. <<6, b>> \in A
        BY <3>1, AlignmentsAre DEF O
      <3>3. r - 6 \in -2 .. 2 /\ 6 \in Int /\ b \in Int
        BY <1>1, <2>4
      <3>4. AlignedAt(n, type, r, c)
        BY <2>2, <3>1, <3>2, <3>3, Zenon
      <3> QED BY <2>4, <3>4
    <2>5. CASE r \in inner /\ c \in 4 .. 8
      <3>1. PICK a \in O \ {n - 7} : r - a \in -2 .. 2
        BY <2>5 DEF inner, Wide
      <3>2. <<a, 6>> \in A
        BY <3>1, AlignmentsAre DEF O
      <3>3. c - 6 \in -2 .. 2 /\ 6 \in Int /\ a \in Int
        BY <1>1, <2>5
      <3>4. AlignedAt(n, type, r, c)
        BY <2>2, <3>1, <3>2, <3>3, Zenon
      <3> QED BY <2>5, <3>4
    <2> QED BY <2>1, <2>3, <2>4, <2>5 DEF AlignedAt
  <1>6. ASSUME NEW r \in 0 .. n - 1, NEW c \in 0 .. n - 1
        PROVE  DrawnAt(n, type, r, c) <=>
                 <<r, c>> \in Lines(n) \cup Boxes(n) \cup Numbers(n, type) \cup Aligned(n, type)
    <2>1. <<r, c>> \in Lines(n) <=> r = 6 \/ c = 6
      BY DEF Lines
    <2>2. <<r, c>> \in Boxes(n) <=> \/ r \in near /\ c \in near
                                    \/ r \in near /\ c \in far
                                    \/ r \in far /\ c \in near
      BY DEF Boxes
    <2>3. <<r, c>> \in Numbers(n, type) <=> type >= 7 /\ NumberAt(n, r, c)
      BY DEF Numbers, NumberAt
    <2>4. <<r, c>> \in Aligned(n, type) <=> \/ r \in all /\ c \in all
                                            \/ r \in beside /\ c \in inner
                                            \/ r \in inner /\ c \in beside
      BY DEF Aligned, all, inner, O
    <2>5. r = 6 \/ c = 6 \/ (r \in near /\ c \in near) \/ (r \in near /\ c \in far) \/ (r \in far /\ c \in near)
            <=> CornerAt(n, r, c) \/ TimingAt(n, r, c) \/ InfoAt(n, r, c)
      BY <1>2 DEF CornerAt, TimingAt, InfoAt
    <2>6. (r \in 4 .. 8 <=> r = 6 \/ r \in beside) /\ (c \in 4 .. 8 <=> c = 6 \/ c \in beside)
      OBVIOUS
    <2>7. r = 6 \/ c = 6 \/ AlignedAt(n, type, r, c) <=> r = 6 \/ c = 6 \/ <<r, c>> \in Aligned(n, type)
      BY <1>5, <2>4, <2>6
    <2> HIDE DEF near, far, beside
    <2> QED BY <2>1, <2>2, <2>3, <2>5, <2>7 DEF DrawnAt
  <1>7. Lines(n) \cup Boxes(n) \cup Numbers(n, type) \cup Aligned(n, type) \subseteq Square(n)
    <2>1. Lines(n) \subseteq Square(n)
      BY <1>2 DEF Lines, Square
    <2>2. Boxes(n) \subseteq Square(n)
      <3>1. near \subseteq 0 .. n - 1 /\ far \subseteq 0 .. n - 1
        BY <1>2
      <3> QED BY <3>1 DEF Boxes, Square
    <2>3. Numbers(n, type) \subseteq Square(n)
      <3>1. 0 .. 5 \subseteq 0 .. n - 1 /\ n - 11 .. n - 9 \subseteq 0 .. n - 1
        BY <1>2
      <3> QED BY <3>1 DEF Numbers, Square
    <2>4. Aligned(n, type) \subseteq Square(n)
      <3>1. all \subseteq 0 .. n - 1 /\ inner \subseteq 0 .. n - 1 /\ beside \subseteq 0 .. n - 1
        BY <1>2, <1>3, <1>4
      <3> HIDE DEF beside
      <3> QED BY <3>1 DEF Aligned, Square, all, inner, O, beside
    <2> QED BY <2>1, <2>2, <2>3, <2>4
  <1>8. Taken(n, type) \subseteq Square(n)
    <2> SUFFICES ASSUME NEW x \in Alignments(n, type)
                 PROVE  (x[1] - 2 .. x[1] + 2) \X (x[2] - 2 .. x[2] + 2) \subseteq Square(n)
      BY DEF Taken, Square
    <2>1. PICK a \in Int, b \in Int : x = <<a, b>>
      BY AlignmentsWhere
    <2>2. a \in 6 .. n - 7 /\ b \in 6 .. n - 7
      <3>1. Clear(n, x)
        BY AlignmentsWhere
      <3> QED BY <2>1, <3>1 DEF Clear
    <2>3. a - 2 .. a + 2 \subseteq 0 .. n - 1 /\ b - 2 .. b + 2 \subseteq 0 .. n - 1
      BY <2>2
    <2>4. x[1] = a /\ x[2] = b
      BY <2>1
    <2> QED BY <2>3, <2>4 DEF Square
  <1>9. ASSUME NEW x \in Square(n)
        PROVE  x \in Taken(n, type) <=>
                 x \in Lines(n) \cup Boxes(n) \cup Numbers(n, type) \cup Aligned(n, type)
    <2>1. PICK r \in 0 .. n - 1, c \in 0 .. n - 1 : x = <<r, c>>
      BY DEF Square
    <2> QED BY <1>6, <2>1, DrawnIsTaken
  <1> QED BY <1>7, <1>8, <1>9

-----------------------------------------------------------------------------
(* The modules of the lines.                                               *)
LEMMA LinesCount ==
  ASSUME NEW n \in Nat, n >= 21
  PROVE  Counts(Lines(n), 2 * n - 1)
  <1> DEFINE a == {6} \X (0 .. n - 1)
             rest == (0 .. 5) \cup (7 .. n - 1)
             b == rest \X {6}
  <1>1. Counts({6}, 1)
    BY FS_Singleton DEF Counts
  <1>2. Counts(0 .. n - 1, n)
    <2>1. 0 \in Int /\ n - 1 \in Int /\ 0 <= n - 1 + 1 /\ n - 1 - 0 + 1 = n
      OBVIOUS
    <2> QED BY <2>1, CountsInterval
  <1>3. Counts(rest, n - 1)
    <2>1. Counts(0 .. 5, 6)
      <3>1. 0 \in Int /\ 5 \in Int /\ 0 <= 5 + 1 /\ 5 - 0 + 1 = 6
        OBVIOUS
      <3> QED BY <3>1, CountsInterval
    <2>2. Counts(7 .. n - 1, n - 7)
      <3>1. 7 \in Int /\ n - 1 \in Int /\ 7 <= n - 1 + 1 /\ n - 1 - 7 + 1 = n - 7
        OBVIOUS
      <3> QED BY <3>1, CountsInterval
    <2>3. (0 .. 5) \cap (7 .. n - 1) = {}
      OBVIOUS
    <2>4. 6 \in Nat /\ n - 7 \in Nat /\ 6 + (n - 7) = n - 1
      OBVIOUS
    <2>5. Counts(rest, n - 1)
      BY <2>1, <2>2, <2>3, <2>4, CountsUnion
    <2> QED BY <2>4, <2>5
  <1>4. 1 \in Nat /\ n - 1 \in Nat /\ 1 * n = n /\ (n - 1) * 1 = n - 1
    OBVIOUS
  <1>5. Counts(a, 1 * n)
    BY <1>1, <1>2, <1>4, CountsProduct
  <1>6. Counts(b, (n - 1) * 1)
    <2> HIDE DEF rest
    <2> QED BY <1>1, <1>3, <1>4, CountsProduct
  <1>7. a \cap b = {}
    <2>1. {6} \cap rest = {}
      OBVIOUS
    <2> HIDE DEF rest
    <2> QED BY <2>1, ProductsApart
  <1>8. Lines(n) = a \cup b
    BY DEF Lines
  <1> HIDE DEF a, b
  <1>9. Counts(a \cup b, n + (n - 1))
    BY <1>4, <1>5, <1>6, <1>7, CountsUnion
  <1>10. n + (n - 1) = 2 * n - 1
    OBVIOUS
  <1> QED BY <1>8, <1>9, <1>10

(* Three disjoint products with a set in common.                           *)
LEMMA CrossCount ==
  ASSUME NEW v, NEW t, NEW u, NEW j \in Nat, NEW k \in Nat, NEW l \in Nat,
         Counts(v, j), Counts(t, k), Counts(u, l), v \cap t = {}, t \cap u = {}
  PROVE  Counts((v \X v) \cup (t \X u) \cup (u \X t), j * j + k * l + l * k)
  <1>1. Counts(v \X v, j * j) /\ Counts(t \X u, k * l) /\ Counts(u \X t, l * k)
    BY CountsProduct
  <1>2. j * j \in Nat /\ k * l \in Nat /\ l * k \in Nat
    OBVIOUS
  <1>3. (v \X v) \cap (t \X u) = {} /\ (v \X v) \cap (u \X t) = {} /\ (t \X u) \cap (u \X t) = {}
    BY ProductsApart
  <1> DEFINE a == v \X v
             b == t \X u
             c == u \X t
  <1> HIDE DEF a, b, c
  <1>4. Counts(a \cup b, j * j + k * l)
    BY <1>1, <1>2, <1>3, CountsUnion DEF a, b
  <1>5. (a \cup b) \cap c = {} /\ j * j + k * l \in Nat
    BY <1>2, <1>3 DEF a, b, c
  <1>6. Counts(c, l * k)
    BY <1>1 DEF c
  <1>7. Counts(a \cup b \cup c, j * j + k * l + l * k)
    BY <1>2, <1>4, <1>5, <1>6, CountsUnion
  <1> QED BY <1>7 DEF a, b, c

(* The modules of the boxes.                                               *)
LEMMA BoxesCount ==
  ASSUME NEW n \in Nat, n >= 21
  PROVE  Counts(Boxes(n), 192)
  <1> DEFINE near == (0 .. 5) \cup (7 .. 8)
             far == n - 8 .. n - 1
  <1>1. Counts(near, 8)
    <2>1. Counts(0 .. 5, 6)
      <3>1. 0 \in Int /\ 5 \in Int /\ 0 <= 5 + 1 /\ 5 - 0 + 1 = 6
        OBVIOUS
      <3> QED BY <3>1, CountsInterval
    <2>2. Counts(7 .. 8, 2)
      <3>1. 7 \in Int /\ 8 \in Int /\ 7 <= 8 + 1 /\ 8 - 7 + 1 = 2
        OBVIOUS
      <3> QED BY <3>1, CountsInterval
    <2>3. (0 .. 5) \cap (7 .. 8) = {} /\ 6 \in Nat /\ 2 \in Nat /\ 6 + 2 = 8
      OBVIOUS
    <2>4. Counts(near, 8)
      BY <2>1, <2>2, <2>3, CountsUnion
    <2> QED BY <2>3, <2>4
  <1>2. Counts(far, 8)
    <2>1. n - 8 \in Int /\ n - 1 \in Int /\ n - 8 <= n - 1 + 1 /\ n - 1 - (n - 8) + 1 = 8
      OBVIOUS
    <2> QED BY <2>1, CountsInterval
  <1>3. near \cap far = {}
    OBVIOUS
  <1>4. Boxes(n) = (near \X near) \cup (near \X far) \cup (far \X near)
    BY DEF Boxes
  <1> HIDE DEF near, far
  <1> DEFINE a == near \X near
             b == near \X far
             c == far \X near
  <1>5. 8 \in Nat /\ 8 * 8 = 64 /\ 64 \in Nat /\ 64 + 64 = 128 /\ 128 \in Nat /\ 128 + 64 = 192
    OBVIOUS
  <1>6. Counts(a, 64) /\ Counts(b, 64) /\ Counts(c, 64)
    <2>1. PICK e \in Nat : e = 8
      OBVIOUS
    <2>2. Counts(near, e) /\ Counts(far, e) /\ 64 = e * e
      BY <1>1, <1>2, <2>1
    <2>3. Counts(near \X near, e * e)
      BY <2>1, <2>2, CountsProduct
    <2>4. Counts(near \X far, e * e)
      BY <2>1, <2>2, CountsProduct
    <2>5. Counts(far \X near, e * e)
      BY <2>1, <2>2, CountsProduct
    <2> QED BY <2>2, <2>3, <2>4, <2>5
  <1>7. a \cap b = {} /\ a \cap c = {} /\ b \cap c = {}
    BY <1>3, ProductsApart
  <1> HIDE DEF a, b, c
  <1>8. Counts(a \cup b, 128)
    BY <1>5, <1>6, <1>7, CountsUnion
  <1>9. (a \cup b) \cap c = {}
    BY <1>7
  <1>10. Counts(a \cup b \cup c, 192)
    BY <1>5, <1>6, <1>8, <1>9, CountsUnion
  <1> QED BY <1>4, <1>5, <1>10 DEF a, b, c

(* The modules of the type numbers.                                        *)
LEMMA NumbersCount ==
  ASSUME NEW n \in Nat, n >= 21, NEW type \in 1 .. 40
  PROVE  Counts(Numbers(n, type), IF type >= 7 THEN 36 ELSE 0)
  <1> DEFINE long == 0 .. 5
             short == n - 11 .. n - 9
  <1>1. Counts(long, 6)
    <2>1. 0 \in Int /\ 5 \in Int /\ 0 <= 5 + 1 /\ 5 - 0 + 1 = 6
      OBVIOUS
    <2> QED BY <2>1, CountsInterval
  <1>2. Counts(short, 3)
    <2>1. n - 11 \in Int /\ n - 9 \in Int /\ n - 11 <= n - 9 + 1 /\ n - 9 - (n - 11) + 1 = 3
      OBVIOUS
    <2> QED BY <2>1, CountsInterval
  <1>3. long \cap short = {}
    OBVIOUS
  <1>4. Numbers(n, type) = IF type >= 7 THEN (long \X short) \cup (short \X long) ELSE {}
    BY DEF Numbers
  <1> HIDE DEF long, short
  <1>5. 6 \in Nat /\ 3 \in Nat /\ 6 * 3 = 18 /\ 3 * 6 = 18 /\ 18 \in Nat /\ 18 + 18 = 36
    OBVIOUS
  <1>6. Counts(long \X short, 18) /\ Counts(short \X long, 18)
    <2>1. Counts(long \X short, 18)
      BY ZenonT(40), <1>1, <1>2, <1>5, CountsProduct
    <2>2. Counts(short \X long, 18)
      BY ZenonT(40), <1>1, <1>2, <1>5, CountsProduct
    <2> QED BY <2>1, <2>2
  <1>7. (long \X short) \cap (short \X long) = {}
    BY <1>3, ProductsApart
  <1>8. Counts((long \X short) \cup (short \X long), 36)
    BY <1>5, <1>6, <1>7, CountsUnion
  <1>9. Counts({}, 0)
    BY FS_EmptySet DEF Counts
  <1> QED BY <1>4, <1>8, <1>9

-----------------------------------------------------------------------------
(* How many modules the alignment patterns have off the lines.             *)
AlignedSize(type) ==
  LET k == type \div 7 + 1
  IN IF type = 1 THEN 0 ELSE 25 * k * k + 40 * (k - 1)

(* They have so many.                                                      *)
LEMMA AlignedCount ==
  ASSUME NEW type \in 1 .. 40, NEW n \in Nat, n = type * 4 + 17
  PROVE  Counts(Aligned(n, type), AlignedSize(type)) /\ AlignedSize(type) \in Nat
  <1> DEFINE O == Others(type)
             beside == (4 .. 5) \cup (7 .. 8)
             all == Wide(O)
             inner == Wide(O \ {n - 7})
  <1>1. /\ O \in SUBSET Int
        /\ type = 1 => O = {}
        /\ type # 1 => Counts(O, type \div 7 + 1) /\ n - 7 \in O
        /\ \A p \in O : p >= 18
        /\ \A p, q \in O : p # q => p - q \notin -11 .. 11
    BY OthersCount
  <1>2. Aligned(n, type) = (all \X all) \cup (beside \X inner) \cup (inner \X beside)
    BY DEF Aligned
  <1> HIDE DEF O
  <1>3. CASE type = 1
    <2>1. all = {} /\ inner = {}
      BY <1>1, <1>3 DEF Wide
    <2> HIDE DEF all, inner
    <2>2. Aligned(n, type) = {}
      BY <1>2, <2>1
    <2>3. Counts({}, 0)
      BY FS_EmptySet DEF Counts
    <2> QED BY <1>3, <2>2, <2>3 DEF AlignedSize
  <1>4. CASE type # 1
    <2>1. PICK k \in Nat : k = type \div 7 + 1 /\ k >= 1
      OBVIOUS
    <2>2. Counts(O, k) /\ n - 7 \in O
      BY <1>1, <1>4, <2>1
    <2>3. Counts(O \ {n - 7}, k - 1) /\ k - 1 \in Nat
      BY <2>1, <2>2, FS_RemoveElement DEF Counts
    <2>4. Counts(all, 5 * k)
      BY <1>1, <2>1, <2>2, WideCounts
    <2>5. Counts(inner, 5 * (k - 1))
      <3>1. O \ {n - 7} \in SUBSET Int /\ \A p, q \in O \ {n - 7} : p # q => p - q \notin -11 .. 11
        BY <1>1
      <3> QED BY <2>3, <3>1, WideCounts
    <2>6. Counts(beside, 4)
      <3>1. Counts(4 .. 5, 2)
        <4>1. 4 \in Int /\ 5 \in Int /\ 4 <= 5 + 1 /\ 5 - 4 + 1 = 2
          OBVIOUS
        <4> QED BY <4>1, CountsInterval
      <3>2. Counts(7 .. 8, 2)
        <4>1. 7 \in Int /\ 8 \in Int /\ 7 <= 8 + 1 /\ 8 - 7 + 1 = 2
          OBVIOUS
        <4> QED BY <4>1, CountsInterval
      <3>3. (4 .. 5) \cap (7 .. 8) = {} /\ 2 \in Nat /\ 2 + 2 = 4
        OBVIOUS
      <3> QED BY <3>1, <3>2, <3>3, CountsUnion
    <2>7. all \cap beside = {} /\ beside \cap inner = {}
      BY <1>1 DEF Wide
    <2> HIDE DEF all, inner, beside
    <2> DEFINE sum == (5 * k) * (5 * k) + 4 * (5 * (k - 1)) + (5 * (k - 1)) * 4
    <2>8. 5 * k \in Nat /\ 4 \in Nat /\ 5 * (k - 1) \in Nat
      BY <2>3
    <2>9. Counts((all \X all) \cup (beside \X inner) \cup (inner \X beside), sum)
      BY <2>4, <2>5, <2>6, <2>7, <2>8, CrossCount
    <2>10. sum = AlignedSize(type)
      <3>1. (5 * k) * (5 * k) = 25 * k * k
        BY <2>1
      <3> QED BY <1>4, <2>1, <3>1 DEF AlignedSize
    <2>11. sum \in Nat
      <3>1. (5 * k) * (5 * k) \in Nat
        BY <2>8
      <3> QED BY <2>3, <3>1
    <2> HIDE DEF sum
    <2> QED BY <1>2, <2>9, <2>10, <2>11
  <1> QED BY <1>3, <1>4

(* The patterns take as many modules as TakenCount says.                   *)
LEMMA TakenCounted ==
  ASSUME NEW type \in 1 .. 40, NEW n \in Nat, n = type * 4 + 17
  PROVE  /\ Counts(Taken(n, type), TakenCount(type)) /\ TakenCount(type) \in Nat
         /\ Taken(n, type) \subseteq Square(n)
  <1> DEFINE O == Others(type)
             all == Wide(O)
             inner == Wide(O \ {n - 7})
             numbers == IF type >= 7 THEN 36 ELSE 0
             aligned == AlignedSize(type)
  <1>1. n >= 21
    OBVIOUS
  <1>2. /\ O \in SUBSET Int
        /\ \A p \in O : p = n - 7 \/ p \in 22 .. n - 23
        /\ \A p \in O : p >= 18
    BY OthersCount
  <1> HIDE DEF O
  <1>3. all \subseteq 16 .. n - 5
    BY <1>1, <1>2 DEF Wide
  <1>4. inner \subseteq 20 .. n - 21
    BY <1>1, <1>2 DEF Wide
  <1>5. Aligned(n, type) = (all \X all) \cup (((4 .. 5) \cup (7 .. 8)) \X inner)
                             \cup (inner \X ((4 .. 5) \cup (7 .. 8)))
    BY DEF Aligned, O
  <1> HIDE DEF all, inner
  <1>6. Lines(n) \cap Boxes(n) = {}
    BY <1>1 DEF Lines, Boxes
  <1>7. (Lines(n) \cup Boxes(n)) \cap Numbers(n, type) = {}
    BY <1>1 DEF Lines, Boxes, Numbers
  <1>8. Lines(n) \cap Aligned(n, type) = {}
    <2>1. 6 \notin all /\ 6 \notin inner /\ 6 \notin (4 .. 5) \cup (7 .. 8)
      BY <1>3, <1>4
    <2> QED BY <1>5, <2>1 DEF Lines
  <1>9. Boxes(n) \cap Aligned(n, type) = {}
    <2> DEFINE near == (0 .. 5) \cup (7 .. 8)
               far == n - 8 .. n - 1
    <2>1. near \cap all = {} /\ near \cap inner = {} /\ far \cap inner = {}
      BY <1>1, <1>3, <1>4
    <2>2. Boxes(n) = (near \X near) \cup (near \X far) \cup (far \X near)
      BY DEF Boxes
    <2> HIDE DEF near, far
    <2> QED BY <1>5, <2>1, <2>2
  <1>10. Numbers(n, type) \cap Aligned(n, type) = {}
    <2> DEFINE long == 0 .. 5
               short == n - 11 .. n - 9
    <2>1. long \cap all = {} /\ short \cap inner = {} /\ long \cap inner = {}
      BY <1>1, <1>3, <1>4
    <2>2. Numbers(n, type) \subseteq (long \X short) \cup (short \X long)
      BY DEF Numbers
    <2> HIDE DEF long, short
    <2> QED BY <1>5, <2>1, <2>2
  <1>11. Counts(Lines(n), 2 * n - 1) /\ 2 * n - 1 \in Nat
    BY <1>1, LinesCount
  <1>12. Counts(Boxes(n), 192) /\ 192 \in Nat
    BY <1>1, BoxesCount
  <1>13. Counts(Numbers(n, type), numbers) /\ numbers \in Nat
    BY <1>1, NumbersCount
  <1>14. Counts(Aligned(n, type), aligned) /\ aligned \in Nat
    BY AlignedCount
  <1>15. TakenCount(type) = 2 * n - 1 + 192 + numbers + aligned
    BY DEF TakenCount, AlignedSize
  <1> HIDE DEF numbers, aligned
  <1>16. Counts(Lines(n) \cup Boxes(n), 2 * n - 1 + 192) /\ 2 * n - 1 + 192 \in Nat
    BY <1>6, <1>11, <1>12, CountsUnion
  <1>17. Counts(Lines(n) \cup Boxes(n) \cup Numbers(n, type), 2 * n - 1 + 192 + numbers)
         /\ 2 * n - 1 + 192 + numbers \in Nat
    BY <1>7, <1>13, <1>16, CountsUnion
  <1>18. (Lines(n) \cup Boxes(n) \cup Numbers(n, type)) \cap Aligned(n, type) = {}
    BY <1>8, <1>9, <1>10
  <1>19. Counts(Lines(n) \cup Boxes(n) \cup Numbers(n, type) \cup Aligned(n, type), TakenCount(type))
         /\ TakenCount(type) \in Nat
    BY <1>14, <1>15, <1>17, <1>18, CountsUnion
  <1>20. Taken(n, type) = Lines(n) \cup Boxes(n) \cup Numbers(n, type) \cup Aligned(n, type)
    BY TakenGroups
  <1>21. Taken(n, type) \subseteq Square(n)
    BY TakenGroups
  <1> QED BY <1>19, <1>20, <1>21

-----------------------------------------------------------------------------
(* The place of a level among the four rows of its type.                   *)
LevelIndex(level) == [L |-> 1, M |-> 2, Q |-> 3, H |-> 4][level]

(* The codewords of the blocks of a type and level are those of its row.   *)
LEMMA CodesOfBlocks ==
  ASSUME NEW type \in 1 .. 40, NEW level \in Levels
  PROVE  TotalCodeCount(getRSBlocks(type, level)) = CodeCount(RS_BLOCK_TABLE[(type - 1) * 4 + LevelIndex(level)])
  <1>1. PICK k \in 1 .. 4 : k = LevelIndex(level) /\ k = [L |-> 1, M |-> 2, Q |-> 3, H |-> 4][level]
    BY DEF Levels, LevelIndex
  <1>2. PICK row \in Rows : row = RS_BLOCK_TABLE[(type - 1) * 4 + k]
    <2>1. (type - 1) * 4 + k \in 1 .. 160
      OBVIOUS
    <2>2. (type - 1) * 4 + k \in 1 .. Len(RS_BLOCK_TABLE) /\ RS_BLOCK_TABLE \in Seq(Rows)
      BY <2>1, RowsOfTable
    <2>3. RS_BLOCK_TABLE[(type - 1) * 4 + k] \in Rows
      BY <2>2, ElementOfSeq
    <2> QED BY <2>3
  <1>3. row \in Seq(Nat) /\ Len(row) \in {3, 6}
    BY DEF Rows
  <1> DEFINE block(i) == [totalCount |-> row[3 * i + 2], dataCount |-> row[3 * i + 3]]
             group(i) == [j \in 1 .. row[3 * i + 1] |-> block(i)]
             blocks == getRSBlocks(type, level)
             counts == [r \in DOMAIN blocks |-> blocks[r].totalCount]
  <1>4. blocks = IF Len(row) = 3 THEN group(0) ELSE group(0) \o group(1)
    BY <1>1, <1>2 DEF getRSBlocks
  <1>5. TotalCodeCount(blocks) = Total(counts)
    BY DEF TotalCodeCount
  <1>6. PICK a \in Nat, b \in Nat : a = row[1] /\ b = row[2]
    <2>1. 1 \in 1 .. 3 /\ 2 \in 1 .. 3 /\ 1 \in 1 .. 6 /\ 2 \in 1 .. 6
      OBVIOUS
    <2>2. CASE Len(row) = 3
      BY <1>3, <2>1, <2>2, ElementOfSeq
    <2>3. CASE Len(row) = 6
      BY <1>3, <2>1, <2>3, ElementOfSeq
    <2> QED BY <1>3, <2>2, <2>3
  <1>7. Counts(1 .. a, a) /\ Counts(1 .. b, b)
    <2>1. 1 \in Int /\ 1 <= a + 1 /\ a - 1 + 1 = a /\ 1 <= b + 1 /\ b - 1 + 1 = b
      OBVIOUS
    <2> QED BY <2>1, CountsInterval
  <1>8. group(0) = [j \in 1 .. a |-> block(0)] /\ block(0).totalCount = b
    BY <1>6
  <1> HIDE DEF blocks
  <1>9. CASE Len(row) = 3
    <2>1. DOMAIN counts = 1 .. a /\ \A r \in DOMAIN counts : counts[r] = b
      BY <1>4, <1>8, <1>9
    <2> HIDE DEF counts
    <2>2. Pairs(counts, DOMAIN counts) = (1 .. a) \X (1 .. b)
      BY <2>1 DEF Pairs
    <2>3. Counts((1 .. a) \X (1 .. b), a * b)
      BY <1>7, CountsProduct
    <2>4. Total(counts) = Cardinality(Pairs(counts, DOMAIN counts))
      <3>1. IsFiniteSet(DOMAIN counts) /\ \A r \in DOMAIN counts : counts[r] \in Nat
        BY <1>7, <2>1 DEF Counts
      <3> QED BY <3>1, TotalCounts
    <2>5. CodeCount(row) = a * b
      BY <1>6, <1>9 DEF CodeCount
    <2> QED BY <1>1, <1>2, <1>5, <2>2, <2>3, <2>4, <2>5 DEF Counts, blocks
  <1>10. CASE Len(row) = 6
    <2>1. PICK d \in Nat, e \in Nat : d = row[4] /\ e = row[5]
      <3>1. 4 \in 1 .. Len(row) /\ 5 \in 1 .. Len(row)
        BY <1>10
      <3> QED BY <1>3, <3>1, ElementOfSeq
    <2>2. group(1) = [j \in 1 .. d |-> block(1)] /\ block(1).totalCount = e
      BY <2>1
    <2> DEFINE first == 1 .. a
               rest == a + 1 .. a + d
    <2>3. DOMAIN counts = first \cup rest /\ first \cap rest = {}
          /\ (\A r \in first : counts[r] = b) /\ (\A r \in rest : counts[r] = e)
      <3>1. blocks = group(0) \o group(1)
        BY <1>4, <1>10
      <3> DEFINE X == {block(0), block(1)}
                 u == group(0)
                 v == group(1)
      <3>2. u \in Seq(X) /\ v \in Seq(X) /\ Len(u) = a /\ Len(v) = d
        <4>1. u = [j \in 1 .. a |-> block(0)] /\ v = [j \in 1 .. d |-> block(1)]
          BY <1>8, <2>2
        <4> HIDE DEF u, v, block
        <4> QED BY <4>1
      <3>3. (\A i \in 1 .. a : u[i].totalCount = b) /\ (\A i \in 1 .. d : v[i].totalCount = e)
        BY <1>8, <2>2
      <3>4. blocks = u \o v
        BY <3>1
      <3> HIDE DEF u, v, X
      <3>5. DOMAIN blocks = 1 .. a + d
        <4>1. u \o v \in Seq(X) /\ Len(u \o v) = a + d
          BY <3>2, ConcatLength
        <4> QED BY <3>4, <4>1
      <3>6. \A i \in 1 .. a + d : blocks[i] = IF i <= a THEN u[i] ELSE v[i - a]
        BY <3>2, <3>4, TwoHalves
      <3>7. \A i \in first : counts[i] = b
        BY <3>3, <3>5, <3>6
      <3>8. \A i \in rest : counts[i] = e
        <4> SUFFICES ASSUME NEW i \in rest PROVE blocks[i].totalCount = e
          BY <3>5
        <4>1. i - a \in 1 .. d /\ ~(i <= a) /\ i \in 1 .. a + d
          OBVIOUS
        <4> QED BY <3>3, <3>6, <4>1
      <3>9. 1 .. a + d = first \cup rest /\ first \cap rest = {}
        OBVIOUS
      <3> QED BY <3>5, <3>7, <3>8, <3>9
    <2> HIDE DEF counts
    <2>4. Counts(rest, d) /\ Counts(1 .. e, e)
      <3>1. 1 \in Int /\ 1 <= e + 1 /\ e - 1 + 1 = e /\ a + 1 <= a + d + 1 /\ a + d - (a + 1) + 1 = d
            /\ a + 1 \in Int /\ a + d \in Int
        OBVIOUS
      <3> QED BY <3>1, CountsInterval
    <2> HIDE DEF first, rest
    <2>5. Pairs(counts, first) = first \X (1 .. b) /\ Pairs(counts, rest) = rest \X (1 .. e)
      BY <2>3 DEF Pairs
    <2>6. Counts(first \X (1 .. b), a * b)
      BY <1>7, CountsProduct DEF first
    <2>7. Counts(rest \X (1 .. e), d * e)
      BY <2>4, CountsProduct
    <2>8. \A r \in first \cup rest : counts[r] \in Nat
      BY <2>3
    <2>9. IsFiniteSet(first) /\ IsFiniteSet(rest) /\ IsFiniteSet(first \cup rest)
      BY <1>7, <2>4, FS_Union DEF Counts, first
    <2>10. Cardinality(Pairs(counts, first \cup rest)) = a * b + d * e
      <3>1. Cardinality(Pairs(counts, first \cup rest))
              = Cardinality(Pairs(counts, first)) + Cardinality(Pairs(counts, rest))
        BY <2>3, <2>8, <2>9, PairsMore
      <3> QED BY <2>5, <2>6, <2>7, <3>1 DEF Counts
    <2>11. Total(counts) = Cardinality(Pairs(counts, DOMAIN counts))
      BY <2>3, <2>8, <2>9, TotalCounts
    <2>12. CodeCount(row) = a * b + d * e
      BY <1>6, <1>10, <2>1 DEF CodeCount
    <2> QED BY <1>1, <1>2, <1>5, <2>3, <2>10, <2>11, <2>12 DEF blocks
  <1> QED BY <1>3, <1>9, <1>10

-----------------------------------------------------------------------------
(* What has been drawn stays: the patterns of this drawing, and data only  *)
(* where they leave room.                                                  *)
DrawnNow == Patterns(_moduleCount, _typeNumber, request.level, test, maskPattern)

(* A drawing that is being made keeps its patterns; the last is no test.   *)
Kept ==
  /\ pc = "cache" => _modules = DrawnNow
  /\ pc \in {"map", "score", "made"} =>
       \A r, c \in 0 .. _moduleCount - 1 : DrawnNow[r][c] # "null" => _modules[r][c] = DrawnNow[r][c]
  /\ pc = "made" => ~test

(* Nothing is drawn at first.                                              *)
LEMMA KeptInit == Init => Kept
  BY DEF Init, SymbolInit, Kept

(* Every step keeps what is drawn.                                         *)
LEMMA KeptStep ==
  ASSUME SymbolInv, EncoderInv, Kept, [Next]_vars
  PROVE  Kept'
  <1>1. CASE Make \/ AddData \/ Score
    <2>1. pc' \in {"draw", "make", "thrown"}
      BY <1>1 DEF Make, AddData, Score, Throw, makeImpl
    <2> QED BY <2>1 DEF Kept
  <1>2. CASE DrawPatterns
    <2>1. pc' = "cache" /\ _modules' = DrawnNow /\ DrawnNow' = DrawnNow
      BY <1>2 DEF DrawPatterns, DrawnNow, _moduleCount
    <2> QED BY <2>1 DEF Kept
  <1>3. CASE Cache
    <2>1. pc = "cache" /\ pc' \in {"map", "thrown"} /\ _modules' = _modules
          /\ UNCHANGED <<_typeNumber, request, test, maskPattern>>
      BY <1>3 DEF Cache, Throw
    <2>2. DrawnNow' = DrawnNow
      BY <2>1 DEF DrawnNow, _moduleCount
    <2> QED BY <2>1, <2>2 DEF Kept
  <1>4. CASE MapColumn
    <2>1. pc = "map" /\ UNCHANGED <<_typeNumber, request, test, maskPattern>>
      BY <1>4 DEF MapColumn
    <2>2. DrawnNow' = DrawnNow /\ _moduleCount' = _moduleCount
      BY <2>1 DEF DrawnNow, _moduleCount
    <2>3. DOMAIN _modules = 0 .. _moduleCount - 1
      BY <2>1 DEF SymbolInv, Matrix
    <2>4. \A r, c \in DOMAIN _modules : _modules[r][c] # "null" => _modules'[r][c] = _modules[r][c]
      BY <1>4 DEF MapColumn
    <2>5. \A r, c \in 0 .. _moduleCount - 1 : DrawnNow[r][c] # "null" => _modules[r][c] = DrawnNow[r][c]
      BY <2>1 DEF Kept
    <2>6. pc' \in {"map", "score", "made"} /\ (pc' = "made" => ~test)
      <3>1. SkipTiming(col) \in Int /\ test \in BOOLEAN
        BY <2>1 DEF SymbolInv, Kinds, SkipTiming
      <3>2. pc' = (CASE SkipTiming(col) - 2 > 0 -> "map"
                     [] SkipTiming(col) - 2 <= 0 /\ test -> "score"
                     [] SkipTiming(col) - 2 <= 0 /\ ~test -> "made")
        BY <1>4 DEF MapColumn
      <3> QED BY <3>1, <3>2
    <2> HIDE DEF Kept
    <2>7. \A r, c \in 0 .. _moduleCount - 1 : DrawnNow[r][c] # "null" => _modules'[r][c] = DrawnNow[r][c]
      BY <2>3, <2>4, <2>5
    <2> QED BY <2>1, <2>2, <2>6, <2>7 DEF Kept
  <1>5. CASE UNCHANGED symbolVars
    <2>1. UNCHANGED <<_typeNumber, request, test, maskPattern, pc, _modules>>
      BY <1>5 DEF symbolVars
    <2>2. DrawnNow' = DrawnNow /\ _moduleCount' = _moduleCount
      BY <2>1 DEF DrawnNow, _moduleCount
    <2> QED BY <2>1, <2>2 DEF Kept
  <1> QED BY <1>1, <1>2, <1>3, <1>4, <1>5 DEF Next, Symbol, SymbolNext, CreateDataURL, WriteImage, vars

(* In a finished symbol of any type a reader finds the position patterns,  *)
(* the alignment patterns, the timing patterns and the dark module where   *)
(* and as the standard has them, whatever was drawn in the tests and       *)
(* whatever data came after them (makeImpl, mapData).                      *)
THEOREM PatternsAreReadable == Spec => [](pc = "made" => PatternsReadable(_modules, _moduleCount, _typeNumber))
  <1> DEFINE Inv == EncoderInv /\ SymbolInv /\ Kept /\ RasterInv /\ StreamInv /\ ImageInv
             Goal == pc = "made" => PatternsReadable(_modules, _moduleCount, _typeNumber)
  <1>1. Init => Inv
    BY EncoderInvInit, SymbolInvInit, KeptInit, ImageInvInit DEF Init
  <1>2. Inv /\ [Next]_vars => Inv'
    BY EncoderInvStep, SymbolInvStep, KeptStep, ImageInvStep
  <1>3. Inv => Goal
    <2> SUFFICES ASSUME Inv, pc = "made" PROVE PatternsReadable(_modules, _moduleCount, _typeNumber)
      OBVIOUS
    <2>1. PICK type \in 1 .. 40, n \in Nat : type = _typeNumber /\ n = _moduleCount /\ n = type * 4 + 17
      BY DEF SymbolInv, EncoderInv, _moduleCount
    <2>2. ~test
      BY DEF Kept
    <2> DEFINE A == Alignments(n, type)
    <2>3. ASSUME NEW r \in 0 .. n - 1, NEW c \in 0 .. n - 1
          PROVE  /\ \A y \in Corners(n) : Near(4, <<r, c>>, y) =>
                      _modules[r][c] = Module(Distance(<<r, c>>, y) \in {0, 1, 3})
                 /\ \A x \in A : Near(2, <<r, c>>, x) =>
                      _modules[r][c] = Module(Distance(<<r, c>>, x) \in {0, 2})
                 /\ c = 6 /\ r \in 8 .. n - 9 => _modules[r][c] = Module((r % 2) = 0)
                 /\ r = 6 /\ c \in 8 .. n - 9 => _modules[r][c] = Module((c % 2) = 0)
                 /\ c = 8 /\ r = n - 8 => _modules[r][c] = Module(TRUE)
      <3> DEFINE d == Patterns(n, type, request.level, test, maskPattern)[r][c]
      <3>1. DrawnRight(d, n, type, test, r, c)
        BY <2>1, PatternsShape
      <3>2. d # "null" => _modules[r][c] = d
        BY <2>1 DEF Kept, DrawnNow
      <3>3. \A b : Module(b) # "null"
        BY ModuleType
      <3>4. Module(~test) = Module(TRUE)
        BY <2>2
      <3> HIDE DEF d
      <3> QED BY <3>1, <3>2, <3>3, <3>4 DEF DrawnRight
    <2>4. ASSUME NEW y \in Square(n), NEW x \in Int \X Int, NEW k \in {2, 4},
                 y \in (x[1] - k .. x[1] + k) \X (x[2] - k .. x[2] + k)
          PROVE  Near(k, y, x) /\ Distance(x, y) = Distance(y, x)
      <3>1. PICK r \in Int, c \in Int, a \in Int, b \in Int : y = <<r, c>> /\ x = <<a, b>>
        BY DEF Square
      <3>2. r \in a - k .. a + k /\ c \in b - k .. b + k
        BY <2>4, <3>1
      <3>3. r - a \in -k .. k /\ c - b \in -k .. k
        BY <3>2
      <3>4. Distance(x, y) = Distance(y, x)
        BY <3>1 DEF Distance
      <3> QED BY <3>1, <3>3, <3>4 DEF Near
    <2>5. ASSUME NEW x \in Corners(n), NEW y \in (x[1] - 4 .. x[1] + 4) \X (x[2] - 4 .. x[2] + 4),
                 y[1] \in 0 .. n - 1, y[2] \in 0 .. n - 1
          PROVE  Looks(_modules, y, Distance(x, y) \in {0, 1, 3})
      <3>1. x \in Int \X Int
        <4>1. x = <<3, 3>> \/ x = <<3, n - 4>> \/ x = <<n - 4, 3>>
          BY DEF Corners
        <4> QED BY <4>1
      <3>2. PICK r \in 0 .. n - 1, c \in 0 .. n - 1 : y = <<r, c>>
        BY <2>5
      <3>3. Near(4, y, x) /\ Distance(x, y) = Distance(y, x)
        BY <2>4, <3>1, <3>2 DEF Square
      <3>4. _modules[r][c] = Module(Distance(y, x) \in {0, 1, 3})
        BY <2>3, <3>2, <3>3
      <3> QED BY <3>2, <3>3, <3>4 DEF Looks, Module
    <2>6. ASSUME NEW x \in A, NEW y \in (x[1] - 2 .. x[1] + 2) \X (x[2] - 2 .. x[2] + 2)
          PROVE  Looks(_modules, y, Distance(x, y) \in {0, 2})
      <3>1. PICK a \in Int, b \in Int : x = <<a, b>> /\ a \in 6 .. n - 7 /\ b \in 6 .. n - 7
        <4>1. x \in Int \X Int /\ Clear(n, x)
          BY <2>1, AlignmentsWhere
        <4> QED BY <4>1 DEF Clear
      <3>2. PICK r \in 0 .. n - 1, c \in 0 .. n - 1 : y = <<r, c>>
        <4>1. a - 2 .. a + 2 \subseteq 0 .. n - 1 /\ b - 2 .. b + 2 \subseteq 0 .. n - 1
          BY <3>1
        <4> QED BY <3>1, <4>1
      <3>3. Near(2, y, x) /\ Distance(x, y) = Distance(y, x)
        BY <2>4, <3>1, <3>2 DEF Square
      <3>4. _modules[r][c] = Module(Distance(y, x) \in {0, 2})
        BY <2>3, <3>2, <3>3
      <3> QED BY <3>2, <3>3, <3>4 DEF Looks, Module
    <2>7. ASSUME NEW k \in 8 .. n - 9
          PROVE  Looks(_modules, <<k, 6>>, (k % 2) = 0) /\ Looks(_modules, <<6, k>>, (k % 2) = 0)
      <3>1. k \in 0 .. n - 1 /\ 6 \in 0 .. n - 1
        BY <2>1
      <3>2. _modules[k][6] = Module((k % 2) = 0) /\ _modules[6][k] = Module((k % 2) = 0)
        BY <2>3, <3>1
      <3> QED BY <3>2 DEF Looks, Module
    <2>8. Looks(_modules, <<n - 8, 8>>, TRUE)
      <3>1. n - 8 \in 0 .. n - 1 /\ 8 \in 0 .. n - 1
        BY <2>1
      <3>2. _modules[n - 8][8] = Module(TRUE)
        BY <2>3, <3>1
      <3> QED BY <3>2 DEF Looks, Module
    <2> QED BY <2>1, <2>5, <2>6, <2>7, <2>8 DEF PatternsReadable
  <1> QED BY <1>1, <1>2, <1>3, PTL DEF Spec, Goal

-----------------------------------------------------------------------------
(* What the patterns decide, in the whole drawing.                         *)
LEMMA PatternsDrawnAt ==
  ASSUME NEW type \in 1 .. 40, NEW n \in Nat, n = type * 4 + 17, NEW level, NEW isTest, NEW mask,
         NEW r \in 0 .. n - 1, NEW c \in 0 .. n - 1
  PROVE  Patterns(n, type, level, isTest, mask)[r][c] # "null" <=> DrawnAt(n, type, r, c)
  <1> DEFINE drawn == Patterns(n, type, level, isTest, mask)[r][c]
  <1>1. DrawnRight(drawn, n, type, isTest, r, c)
    BY PatternsShape
  <1> HIDE DEF drawn
  <1>2. drawn # "null" <=> DrawnAt(n, type, r, c)
    BY <1>1 DEF DrawnRight
  <1> QED BY <1>2 DEF drawn

(* The modules that are not drawn yet.                                     *)
Room(m, n) == {x \in Square(n) : m[x[1]][x[2]] = "null"}

(* What the patterns leave, for every type.                                *)
LEMMA RoomOfTypes ==
  ASSUME NEW type \in 1 .. 40, NEW n \in Nat, n = type * 4 + 17, NEW level, NEW isTest, NEW mask,
         NEW m, m = Patterns(n, type, level, isTest, mask)
  PROVE  /\ \A l \in Levels : Cardinality(Room(m, n)) \div 8 = TotalCodeCount(getRSBlocks(type, l))
         /\ Room(m, n) \cap Taken(n, type) = {}
         /\ Cardinality(Room(m, n)) + Cardinality(Taken(n, type)) = n * n
  <1> DEFINE free == Room(m, n)
             taken == Taken(n, type)
  <1>1. free = Square(n) \ taken
    <2> SUFFICES ASSUME NEW x \in Square(n) PROVE m[x[1]][x[2]] = "null" <=> x \notin taken
      BY DEF Room
    <2>1. PICK r \in 0 .. n - 1, c \in 0 .. n - 1 : x = <<r, c>>
      BY DEF Square
    <2>2. m[r][c] # "null" <=> DrawnAt(n, type, r, c)
      BY PatternsDrawnAt
    <2> HIDE DEF taken
    <2>3. DrawnAt(n, type, r, c) <=> <<r, c>> \in taken
      BY DrawnIsTaken DEF taken
    <2> QED BY <2>1, <2>2, <2>3
  <1>2. Counts(Square(n), n * n)
    <2>1. Counts(0 .. n - 1, n)
      <3>1. 0 \in Int /\ n - 1 \in Int /\ 0 <= n - 1 + 1 /\ n - 1 - 0 + 1 = n
        OBVIOUS
      <3> QED BY <3>1, CountsInterval
    <2> QED BY <2>1, CountsProduct DEF Square
  <1>3. Counts(taken, TakenCount(type)) /\ TakenCount(type) \in Nat /\ taken \subseteq Square(n)
    BY TakenCounted
  <1> HIDE DEF free, taken
  <1>4. free \cap taken = {} /\ free \cup taken = Square(n)
    BY <1>1, <1>3
  <1>5. IsFiniteSet(free) /\ IsFiniteSet(taken) /\ Cardinality(free) \in Nat
    BY <1>1, <1>2, <1>3, FS_Subset, FS_CardinalityType DEF Counts
  <1>6. Counts(free \cup taken, Cardinality(free) + TakenCount(type))
    BY <1>3, <1>4, <1>5, CountsUnion DEF Counts
  <1>7. Cardinality(free) + TakenCount(type) = n * n
    BY <1>2, <1>4, <1>6 DEF Counts
  <1>8. ASSUME NEW l \in Levels
        PROVE  Cardinality(free) \div 8 = TotalCodeCount(getRSBlocks(type, l))
    <2>1. PICK k \in 1 .. 4 : k = LevelIndex(l)
      BY DEF Levels, LevelIndex
    <2>2. TotalCodeCount(getRSBlocks(type, l)) = CodeCount(RS_BLOCK_TABLE[(type - 1) * 4 + k])
      BY <2>1, CodesOfBlocks
    <2>3. CodeCount(RS_BLOCK_TABLE[(type - 1) * 4 + k]) = (n * n - TakenCount(type)) \div 8
      BY CodeCountOfTypes
    <2>4. n * n - TakenCount(type) = Cardinality(free)
      BY <1>3, <1>5, <1>7
    <2> QED BY <2>2, <2>3, <2>4
  <1> QED BY <1>3, <1>4, <1>7, <1>8 DEF Counts, free, taken

(* When the data is placed, the modules that the patterns have left are    *)
(* those where a reader looks for data, and they are one for each bit of   *)
(* the codewords of the type, at every level, with less than eight over:   *)
(* no bit is without a module, and no codeword too few is made             *)
(* (setupPositionAdjustPattern, setupTypeInfo, setupTypeNumber,            *)
(* RS_BLOCK_TABLE). The two tables and the drawing are counted against     *)
(* each other for all forty types.                                         *)
THEOREM CapacityIsExact == Spec => []CapacityExact
  <1> DEFINE Inv == EncoderInv /\ SymbolInv /\ Kept /\ RasterInv /\ StreamInv /\ ImageInv
  <1>1. Init => Inv
    BY EncoderInvInit, SymbolInvInit, KeptInit, ImageInvInit DEF Init
  <1>2. Inv /\ [Next]_vars => Inv'
    BY EncoderInvStep, SymbolInvStep, KeptStep, ImageInvStep
  <1>3. Inv => CapacityExact
    <2> SUFFICES ASSUME Inv, pc = "cache" PROVE CapacityExact
      BY DEF CapacityExact
    <2>1. PICK type \in 1 .. 40, n \in Nat : type = _typeNumber /\ n = _moduleCount /\ n = type * 4 + 17
      BY DEF SymbolInv, EncoderInv, _moduleCount
    <2>2. _modules = Patterns(n, type, request.level, test, maskPattern)
      BY <2>1 DEF Kept, DrawnNow
    <2>3. (DOMAIN _modules) \X (DOMAIN _modules) = Square(n)
      BY <2>1 DEF SymbolInv, Matrix, Square
    <2> DEFINE free == Room(_modules, n)
    <2>4. /\ \A l \in Levels : Cardinality(free) \div 8 = TotalCodeCount(getRSBlocks(type, l))
          /\ free \cap Taken(n, type) = {}
          /\ Cardinality(free) + Cardinality(Taken(n, type)) = n * n
      BY <2>1, <2>2, RoomOfTypes
    <2>5. free = {x \in (DOMAIN _modules) \X (DOMAIN _modules) : _modules[x[1]][x[2]] = "null"}
      BY <2>3 DEF Room
    <2> HIDE DEF free
    <2> QED BY <2>1, <2>4, <2>5 DEF CapacityExact, Levels
  <1> QED BY <1>1, <1>2, <1>3, PTL DEF Spec

-----------------------------------------------------------------------------
(* The mask that is drawn is the one that a reader takes off.              *)
LEMMA MasksAgree ==
  ASSUME NEW mask \in 0 .. 7, NEW i \in Nat, NEW j \in Nat
  PROVE  getMaskFunction(mask, i, j) <=> Inverted(mask, i, j)
  <1>1. PICK x \in Nat : x = i * j
    OBVIOUS
  <1>2. CASE mask = 0
    BY <1>2 DEF getMaskFunction, Inverted
  <1>3. CASE mask = 1
    BY <1>3 DEF getMaskFunction, Inverted
  <1>4. CASE mask = 2
    BY <1>4 DEF getMaskFunction, Inverted
  <1>5. CASE mask = 3
    BY <1>5 DEF getMaskFunction, Inverted
  <1>6. CASE mask = 4
    <2>1. PICK a \in Nat, b \in Nat : a = i \div 2 /\ b = j \div 3
      OBVIOUS
    <2>2. ((a + b) % 2) = 0 <=> (a % 2) = (b % 2)
      OBVIOUS
    <2> QED BY <1>6, <2>1, <2>2 DEF getMaskFunction, Inverted
  <1>7. CASE mask = 5
    <2>1. (x % 2) + (x % 3) = 0 <=> (x % 6) = 0
      OBVIOUS
    <2> QED BY <1>1, <1>7, <2>1 DEF getMaskFunction, Inverted
  <1>8. CASE mask = 6
    <2>1. (((x % 2) + (x % 3)) % 2) = 0 <=> (x % 6) < 3
      OBVIOUS
    <2> QED BY <1>1, <1>8, <2>1 DEF getMaskFunction, Inverted
  <1>9. CASE mask = 7
    <2>1. PICK y \in 0 .. 2 : y = x % 3
      OBVIOUS
    <2>2. ((y + ((i + j) % 2)) % 2) = 0 <=> ((i + j) % 2) = (y % 2)
      OBVIOUS
    <2> QED BY <1>1, <1>9, <2>1, <2>2 DEF getMaskFunction, Inverted
  <1> QED BY <1>2, <1>3, <1>4, <1>5, <1>6, <1>7, <1>8, <1>9

(* The path, pair of columns by pair of columns.                           *)
Right(n, p) == IF n - 1 - 2 * p <= 6 THEN n - 2 - 2 * p ELSE n - 1 - 2 * p

(* The w-th module of the p-th pair of columns.                            *)
Step(n, p, w) ==
  <<IF (p % 2) = 0 THEN n - 1 - (w \div 2) ELSE w \div 2, Right(n, p) - (w % 2)>>

(* It is the one that the path has there.                                  *)
LEMMA PathStep ==
  ASSUME NEW n \in Nat, n >= 1, NEW p \in Nat, NEW w \in 0 .. 2 * n - 1,
         p * (2 * n) + w + 1 <= n * (n - 1)
  PROVE  Path(n)[p * (2 * n) + w + 1] = Step(n, p, w)
  <1>1. PICK d \in Nat : d = 2 * n /\ d > 0
    OBVIOUS
  <1>2. (p * d + w) \div d = p /\ ((p * d + w) % d) = w
    <2>1. w \in 0 .. d - 1 /\ d >= 1
      BY <1>1
    <2> QED BY <1>1, <2>1, Quotient
  <1>3. PICK k \in Nat : k = p * d + w
    BY <1>1
  <1>4. k + 1 \in 1 .. n * (n - 1) /\ k + 1 - 1 = k
    BY <1>1, <1>3
  <1>5. k \div (2 * n) = p /\ (k % (2 * n)) = w
    BY <1>1, <1>2, <1>3
  <1>6. Path(n)[k + 1] =
          <<IF ((k \div (2 * n)) % 2) = 0 THEN n - 1 - ((k % (2 * n)) \div 2) ELSE (k % (2 * n)) \div 2,
            (IF n - 1 - 2 * (k \div (2 * n)) <= 6 THEN n - 1 - 2 * (k \div (2 * n)) - 1
             ELSE n - 1 - 2 * (k \div (2 * n))) - ((k % (2 * n)) % 2)>>
    BY <1>4 DEF Path
  <1>7. n - 1 - 2 * p - 1 = n - 2 - 2 * p
    OBVIOUS
  <1> QED BY <1>1, <1>3, <1>5, <1>6, <1>7 DEF Step, Right

(* Its steps in a pair: all modules of both columns, in the order in which *)
(* mapData goes through them.                                              *)
Passed(n, p, r) == IF (p % 2) = 0 THEN r + 1 .. n - 1 ELSE 0 .. r - 1

(* The modules of the pair that the path has before one of them are those  *)
(* of the rows that it has passed, and its right neighbour if it has one.  *)
StepIs(n, p, right, r, c, w) ==
  /\ Step(n, p, w) = <<r, c>>
  /\ \A i \in 0 .. 2 * n - 1 :
       i < w <=> \/ Step(n, p, i)[1] \in Passed(n, p, r)
                 \/ c = right - 1 /\ Step(n, p, i) = <<r, right>>

(* A pair of columns is gone through module by module, none of them twice. *)
LEMMA StepsOfPair ==
  ASSUME NEW n \in Nat, n >= 1, NEW p \in Nat, NEW right \in Int, right = Right(n, p)
  PROVE  /\ \A w \in 0 .. 2 * n - 1 : Step(n, p, w) \in (0 .. n - 1) \X {right, right - 1}
         /\ \A i, w \in 0 .. 2 * n - 1 : Step(n, p, i) = Step(n, p, w) => i = w
         /\ \A r \in 0 .. n - 1, c \in {right, right - 1} :
              \E w \in 0 .. 2 * n - 1 : StepIs(n, p, right, r, c, w)
  <1> DEFINE row(w) == IF (p % 2) = 0 THEN n - 1 - (w \div 2) ELSE w \div 2
             column(w) == right - (w % 2)
  <1>1. \A w : Step(n, p, w) = <<row(w), column(w)>>
    BY DEF Step
  <1>2. \A w \in 0 .. 2 * n - 1 : row(w) \in 0 .. n - 1 /\ column(w) \in {right, right - 1}
    OBVIOUS
  <1>3. \A i, w \in 0 .. 2 * n - 1 : row(i) = row(w) /\ column(i) = column(w) => i = w
    <2> SUFFICES ASSUME NEW i \in 0 .. 2 * n - 1, NEW w \in 0 .. 2 * n - 1,
                        row(i) = row(w), column(i) = column(w)
                 PROVE  i = w
      OBVIOUS
    <2>1. i \div 2 = w \div 2 /\ (i % 2) = (w % 2)
      OBVIOUS
    <2> QED BY <2>1
  <1>4. ASSUME NEW r \in 0 .. n - 1, NEW c \in {right, right - 1}
        PROVE  \E w \in 0 .. 2 * n - 1 :
                 /\ row(w) = r /\ column(w) = c
                 /\ \A i \in 0 .. 2 * n - 1 :
                      i < w <=> \/ row(i) \in Passed(n, p, r)
                                \/ c = right - 1 /\ row(i) = r /\ column(i) = right
    <2>1. PICK b \in 0 .. 1 : b = right - c
      OBVIOUS
    <2>2. CASE (p % 2) = 0
      <3>1. PICK w \in 0 .. 2 * n - 1 : w = 2 * (n - 1 - r) + b
        OBVIOUS
      <3>2. w \div 2 = n - 1 - r /\ (w % 2) = b
        BY <3>1
      <3>3. row(w) = r /\ column(w) = c
        BY <2>1, <2>2, <3>2
      <3>4. ASSUME NEW i \in 0 .. 2 * n - 1
            PROVE  i < w <=> \/ row(i) \in Passed(n, p, r)
                             \/ c = right - 1 /\ row(i) = r /\ column(i) = right
        <4>1. PICK h \in 0 .. n - 1, e \in 0 .. 1 : h = i \div 2 /\ e = i % 2 /\ i = 2 * h + e
          OBVIOUS
        <4>2. row(i) \in Passed(n, p, r) <=> h < n - 1 - r
          BY <2>2, <4>1 DEF Passed
        <4>3. (c = right - 1 /\ row(i) = r /\ column(i) = right) <=> (b = 1 /\ h = n - 1 - r /\ e = 0)
          BY <2>1, <2>2, <4>1
        <4> HIDE DEF row, column
        <4> QED BY <3>1, <4>1, <4>2, <4>3
      <3> QED BY <3>3, <3>4
    <2>3. CASE (p % 2) # 0
      <3>1. PICK w \in 0 .. 2 * n - 1 : w = 2 * r + b
        OBVIOUS
      <3>2. w \div 2 = r /\ (w % 2) = b
        BY <3>1
      <3>3. row(w) = r /\ column(w) = c
        BY <2>1, <2>3, <3>2
      <3>4. ASSUME NEW i \in 0 .. 2 * n - 1
            PROVE  i < w <=> \/ row(i) \in Passed(n, p, r)
                             \/ c = right - 1 /\ row(i) = r /\ column(i) = right
        <4>1. PICK h \in 0 .. n - 1, e \in 0 .. 1 : h = i \div 2 /\ e = i % 2 /\ i = 2 * h + e
          OBVIOUS
        <4>2. row(i) \in Passed(n, p, r) <=> h < r
          BY <2>3, <4>1 DEF Passed
        <4>3. (c = right - 1 /\ row(i) = r /\ column(i) = right) <=> (b = 1 /\ h = r /\ e = 0)
          BY <2>1, <2>3, <4>1
        <4> HIDE DEF row, column
        <4> QED BY <3>1, <4>1, <4>2, <4>3
      <3> QED BY <3>3, <3>4
    <2> QED BY <2>2, <2>3
  <1> HIDE DEF row, column
  <1>5. ASSUME NEW r \in 0 .. n - 1, NEW c \in {right, right - 1}
        PROVE  \E w \in 0 .. 2 * n - 1 : StepIs(n, p, right, r, c, w)
    <2>1. PICK w \in 0 .. 2 * n - 1 :
            /\ row(w) = r /\ column(w) = c
            /\ \A i \in 0 .. 2 * n - 1 :
                 i < w <=> \/ row(i) \in Passed(n, p, r)
                           \/ c = right - 1 /\ row(i) = r /\ column(i) = right
      BY <1>4
    <2>2. \A i : (Step(n, p, i) = <<r, right>> <=> row(i) = r /\ column(i) = right) /\ Step(n, p, i)[1] = row(i)
      BY <1>1
    <2>3. Step(n, p, w) = <<r, c>>
      BY <1>1, <2>1
    <2> QED BY <2>1, <2>2, <2>3 DEF StepIs
  <1>6. \A w \in 0 .. 2 * n - 1 : Step(n, p, w) \in (0 .. n - 1) \X {right, right - 1}
    BY <1>1, <1>2
  <1>7. \A i, w \in 0 .. 2 * n - 1 : Step(n, p, i) = Step(n, p, w) => i = w
    BY <1>1, <1>3
  <1> QED BY <1>5, <1>6, <1>7

-----------------------------------------------------------------------------
(* The modules with data among the first k of the path.                    *)
Held(n, type, k) == {i \in 1 .. k : Path(n)[i] \notin Taken(n, type)}

(* The first t modules of a pair.                                          *)
Steps(n, p, t) == {Step(n, p, i) : i \in 0 .. t - 1}

(* What the pair adds to the modules with data.                            *)
HeldSum(n, type, p, q, t) ==
  /\ Cardinality(Held(n, type, q)) \in Nat /\ Cardinality(Steps(n, p, t) \ Taken(n, type)) \in Nat
  /\ Cardinality(Held(n, type, q + t))
       = Cardinality(Held(n, type, q)) + Cardinality(Steps(n, p, t) \ Taken(n, type))

(* They become more by what a pair of columns holds.                       *)
LEMMA HeldMore ==
  ASSUME NEW n \in Nat, n >= 1, NEW p \in Nat, NEW q \in Nat, q = p * (2 * n), NEW t \in 0 .. 2 * n,
         q + t <= n * (n - 1), NEW type
  PROVE  HeldSum(n, type, p, q, t)
  <1> DEFINE taken == Taken(n, type)
             I == {i \in 0 .. t - 1 : Step(n, p, i) \notin taken}
             f == [i \in I |-> q + 1 + i]
             g == [i \in I |-> Step(n, p, i)]
  <1>1. ASSUME NEW i \in 0 .. t - 1 PROVE Path(n)[q + 1 + i] = Step(n, p, i) /\ i \in 0 .. 2 * n - 1
    <2>1. i \in 0 .. 2 * n - 1 /\ p * (2 * n) + i + 1 <= n * (n - 1) /\ q + 1 + i = p * (2 * n) + i + 1
      OBVIOUS
    <2> QED BY <2>1, PathStep
  <1>2. IsFiniteSet(I)
    <2>1. IsFiniteSet(0 .. t - 1) /\ I \subseteq 0 .. t - 1
      <3>1. 0 \in Int /\ t - 1 \in Int
        OBVIOUS
      <3> QED BY <3>1, FS_Interval
    <2> QED BY <2>1, FS_Subset
  <1>3. PICK k \in Nat : Counts(I, k)
    BY <1>2, FS_CardinalityType DEF Counts
  <1> HIDE DEF taken
  <1>4. Counts(Range(f), k)
    <2>1. f \in [I -> Int]
      OBVIOUS
    <2>2. \A i, j \in I : f[i] = f[j] => i = j
      OBVIOUS
    <2> HIDE DEF f, I
    <2> QED BY <1>3, <2>1, <2>2, CountsBijection
  <1>5. Counts(Range(g), k)
    <2>1. g \in [I -> {Step(n, p, i) : i \in I}]
      OBVIOUS
    <2>2. \A i, j \in I : g[i] = g[j] => i = j
      <3>0. Right(n, p) \in Int
        BY DEF Right
      <3>1. PICK right \in Int : right = Right(n, p)
        BY <3>0
      <3>2. \A i, w \in 0 .. 2 * n - 1 : Step(n, p, i) = Step(n, p, w) => i = w
        BY <3>1, StepsOfPair
      <3> QED BY <1>1, <3>2
    <2> HIDE DEF g, I
    <2> QED BY <1>3, <2>1, <2>2, CountsBijection
  <1>6. Range(g) = Steps(n, p, t) \ taken
    BY DEF Range, Steps
  <1>7. Held(n, type, q + t) = Held(n, type, q) \cup Range(f) /\ Held(n, type, q) \cap Range(f) = {}
    <2>1. Range(f) = {i \in q + 1 .. q + t : Path(n)[i] \notin taken}
      <3>1. ASSUME NEW i \in q + 1 .. q + t, Path(n)[i] \notin taken PROVE i \in Range(f)
        <4>1. i - q - 1 \in 0 .. t - 1 /\ q + 1 + (i - q - 1) = i
          OBVIOUS
        <4>2. i - q - 1 \in I
          BY <1>1, <3>1, <4>1
        <4>3. f[i - q - 1] = i
          BY <4>1, <4>2
        <4> QED BY <4>2, <4>3 DEF Range
      <3>2. ASSUME NEW j \in I PROVE f[j] \in q + 1 .. q + t /\ Path(n)[f[j]] \notin taken
        BY <1>1
      <3>3. \A i \in Range(f) : i \in q + 1 .. q + t /\ Path(n)[i] \notin taken
        BY <3>2 DEF Range
      <3> HIDE DEF f
      <3> QED BY <3>1, <3>3
    <2>2. 1 .. q + t = (1 .. q) \cup (q + 1 .. q + t) /\ (1 .. q) \cap (q + 1 .. q + t) = {}
      OBVIOUS
    <2> HIDE DEF f
    <2> QED BY <2>1, <2>2 DEF Held, taken
  <1>8. IsFiniteSet(Held(n, type, q))
    <2>1. IsFiniteSet(1 .. q) /\ Held(n, type, q) \subseteq 1 .. q
      <3>1. 1 \in Int /\ q \in Int
        OBVIOUS
      <3> QED BY <3>1, FS_Interval DEF Held
    <2> QED BY <2>1, FS_Subset
  <1>9. PICK h \in Nat : Counts(Held(n, type, q), h)
    BY <1>8, FS_CardinalityType DEF Counts
  <1> HIDE DEF f, g
  <1>10. Counts(Held(n, type, q + t), h + k)
    BY <1>4, <1>7, <1>9, CountsUnion
  <1> QED BY <1>5, <1>6, <1>9, <1>10 DEF Counts, taken, HeldSum

(* What lies before a module on the path, and what a pair of columns is.   *)
StepsTo(n, p, right, r, c, w) ==
  /\ Step(n, p, w) = <<r, c>>
  /\ Steps(n, p, w) = (Passed(n, p, r) \X {right, right - 1})
                        \cup (IF c = right - 1 THEN {<<r, right>>} ELSE {})

(* They are the rows that are passed, and in the end the whole pair.       *)
LEMMA StepsAre ==
  ASSUME NEW n \in Nat, n >= 1, NEW p \in Nat, NEW right \in Int, right = Right(n, p)
  PROVE  /\ Steps(n, p, 2 * n) = (0 .. n - 1) \X {right, right - 1}
         /\ \A r \in 0 .. n - 1, c \in {right, right - 1} :
              \E w \in 0 .. 2 * n - 1 : StepsTo(n, p, right, r, c, w)
  <1> DEFINE all == (0 .. n - 1) \X {right, right - 1}
  <1>1. \A w \in 0 .. 2 * n - 1 : Step(n, p, w) \in all
    BY StepsOfPair
  <1>2. \A r \in 0 .. n - 1, c \in {right, right - 1} :
          \E w \in 0 .. 2 * n - 1 : StepIs(n, p, right, r, c, w)
    BY StepsOfPair
  <1>3. ASSUME NEW x \in all PROVE \E w \in 0 .. 2 * n - 1 : Step(n, p, w) = x
    BY <1>2 DEF StepIs
  <1>4. Steps(n, p, 2 * n) = all
    <2> HIDE DEF all
    <2> QED BY <1>1, <1>3 DEF Steps
  <1>5. ASSUME NEW r \in 0 .. n - 1, NEW c \in {right, right - 1}
        PROVE  \E w \in 0 .. 2 * n - 1 : StepsTo(n, p, right, r, c, w)
    <2>1. PICK w \in 0 .. 2 * n - 1 :
             /\ Step(n, p, w) = <<r, c>>
             /\ \A i \in 0 .. 2 * n - 1 :
                  i < w <=> \/ Step(n, p, i)[1] \in Passed(n, p, r)
                            \/ c = right - 1 /\ Step(n, p, i) = <<r, right>>
      BY <1>2 DEF StepIs
    <2> DEFINE before == (Passed(n, p, r) \X {right, right - 1})
                           \cup (IF c = right - 1 THEN {<<r, right>>} ELSE {})
    <2>2. before \subseteq all
      BY DEF Passed
    <2>3. ASSUME NEW x \in all
          PROVE  x \in before <=> x[1] \in Passed(n, p, r) \/ (c = right - 1 /\ x = <<r, right>>)
      OBVIOUS
    <2>4. ASSUME NEW x \in before PROVE x \in Steps(n, p, w)
      <3>1. PICK i \in 0 .. 2 * n - 1 : Step(n, p, i) = x
        BY <1>3, <2>2
      <3>2. i < w
        BY <2>1, <2>2, <2>3, <3>1
      <3>3. i \in 0 .. w - 1
        BY <3>2
      <3> QED BY <3>1, <3>3 DEF Steps
    <2>5. ASSUME NEW i \in 0 .. w - 1 PROVE Step(n, p, i) \in before
      <3>1. i \in 0 .. 2 * n - 1 /\ i < w
        OBVIOUS
      <3>2. Step(n, p, i) \in all
        BY <1>1, <3>1
      <3> QED BY <2>1, <2>3, <3>1, <3>2
    <2>6. Steps(n, p, w) = before
      <3> HIDE DEF before
      <3> QED BY <2>4, <2>5 DEF Steps
    <2> QED BY <2>1, <2>6 DEF StepsTo
  <1> QED BY <1>4, <1>5

-----------------------------------------------------------------------------
(* How many modules mapData still finds free in some rows of its columns.  *)
FreeIn(m, right, R) == Cardinality({x \in R \X {right, right - 1} : m[x[1]][x[2]] = "null"})

(* The modules with data before one of a pair: those before the pair, the  *)
(* ones left free in the rows that are passed, and a free right neighbour. *)
(* It is the number that mapData has come to.                              *)
NumberIs(m, n, type, p, right, r, c, w) ==
  /\ Step(n, p, w) = <<r, c>>
  /\ FreeIn(m, right, Passed(n, p, r)) \in Nat
  /\ Cardinality(Held(n, type, p * (2 * n) + w))
       = Cardinality(Held(n, type, p * (2 * n))) + FreeIn(m, right, Passed(n, p, r))
         + (IF c < right /\ m[r][right] = "null" THEN 1 ELSE 0)

(* So it is for every module of a pair, and for the pair as a whole.       *)
Numbered(m, n, type, p, q, right) ==
  /\ FreeIn(m, right, 0 .. n - 1) \in Nat /\ Cardinality(Held(n, type, q)) \in Nat
  /\ Cardinality(Held(n, type, q + 2 * n))
       = Cardinality(Held(n, type, q)) + FreeIn(m, right, 0 .. n - 1)
  /\ \A w \in 0 .. 2 * n - 1 : \E r \in 0 .. n - 1, c \in {right, right - 1} :
       NumberIs(m, n, type, p, right, r, c, w)

(* The bits of a pair of columns are numbered as on the path.              *)
LEMMA ColumnsNumbered ==
  ASSUME NEW n \in Nat, n >= 1, NEW p \in Nat, NEW q \in Nat, q = p * (2 * n), q + 2 * n <= n * (n - 1),
         NEW type, NEW right \in Int, right = Right(n, p), NEW m,
         \A r \in 0 .. n - 1, c \in {right, right - 1} : m[r][c] = "null" <=> <<r, c>> \notin Taken(n, type)
  PROVE  Numbered(m, n, type, p, q, right)
  <1> DEFINE taken == Taken(n, type)
             C == {right, right - 1}
             free(R) == {x \in R \X C : m[x[1]][x[2]] = "null"}
  <1>1. ASSUME NEW R \in SUBSET (0 .. n - 1) PROVE free(R) = (R \X C) \ taken
    <2> SUFFICES ASSUME NEW x \in R \X C PROVE m[x[1]][x[2]] = "null" <=> x \notin taken
      OBVIOUS
    <2> HIDE DEF taken
    <2>0. R \subseteq 0 .. n - 1
      OBVIOUS
    <2>1. PICK r \in R, c \in C : x = <<r, c>>
      <3> HIDE DEF C
      <3>1. x[1] \in R /\ x[2] \in C /\ x = <<x[1], x[2]>>
        OBVIOUS
      <3> QED BY <3>1
    <2>2. r \in 0 .. n - 1
      BY <2>0, <2>1
    <2>3. m[r][c] = "null" <=> <<r, c>> \notin taken
      BY <2>1, <2>2 DEF taken
    <2> QED BY <2>1, <2>3
  <1>2. ASSUME NEW t \in 0 .. 2 * n
        PROVE  /\ Cardinality(Held(n, type, q)) \in Nat /\ Cardinality(Steps(n, p, t) \ taken) \in Nat
               /\ Cardinality(Held(n, type, q + t))
                    = Cardinality(Held(n, type, q)) + Cardinality(Steps(n, p, t) \ taken)
    <2>1. q + t <= n * (n - 1)
      <3>1. PICK e \in Int : e = n * (n - 1)
        OBVIOUS
      <3> QED BY <3>1
    <2>2. HeldSum(n, type, p, q, t)
      BY <2>1, HeldMore
    <2> QED BY <2>2 DEF taken, HeldSum
  <1>3. Steps(n, p, 2 * n) = (0 .. n - 1) \X C
    BY StepsAre
  <1> HIDE DEF taken, C
  <1>4. /\ FreeIn(m, right, 0 .. n - 1) \in Nat /\ Cardinality(Held(n, type, q)) \in Nat
        /\ Cardinality(Held(n, type, q + 2 * n))
              = Cardinality(Held(n, type, q)) + FreeIn(m, right, 0 .. n - 1)
    <2>1. free(0 .. n - 1) = Steps(n, p, 2 * n) \ taken
      BY <1>1, <1>3
    <2>2. FreeIn(m, right, 0 .. n - 1) = Cardinality(Steps(n, p, 2 * n) \ taken)
      BY <2>1 DEF FreeIn, C
    <2>3. 2 * n \in 0 .. 2 * n
      OBVIOUS
    <2> QED BY <1>2, <2>2, <2>3
  <1>5. ASSUME NEW w \in 0 .. 2 * n - 1
        PROVE  \E r \in 0 .. n - 1, c \in C : NumberIs(m, n, type, p, right, r, c, w)
    <2>1. Step(n, p, w) \in (0 .. n - 1) \X C /\ \A i \in 0 .. 2 * n - 1 : Step(n, p, i) = Step(n, p, w) => i = w
      BY StepsOfPair DEF C
    <2>2. PICK r \in 0 .. n - 1, c \in C : Step(n, p, w) = <<r, c>>
      BY <2>1
    <2>3. Steps(n, p, w) = (Passed(n, p, r) \X C) \cup (IF c = right - 1 THEN {<<r, right>>} ELSE {})
      <3>1. PICK i \in 0 .. 2 * n - 1 : StepsTo(n, p, right, r, c, i)
        BY StepsAre DEF C
      <3>2. i = w
        BY <2>1, <2>2, <3>1 DEF StepsTo
      <3> QED BY <3>1, <3>2 DEF C, StepsTo
    <2> DEFINE R == Passed(n, p, r)
               mate == IF c < right /\ m[r][right] = "null" THEN {<<r, right>>} ELSE {}
    <2>4. R \subseteq 0 .. n - 1 /\ r \notin R
      BY DEF Passed
    <2> HIDE DEF R
    <2>5. free(R) = (R \X C) \ taken
      BY <1>1, <2>4
    <2>6. mate = (IF c = right - 1 THEN {<<r, right>>} ELSE {}) \ taken
      <3>1. right \in C /\ (c < right <=> c = right - 1)
        BY DEF C
      <3>2. m[r][right] = "null" <=> <<r, right>> \notin taken
        BY <3>1 DEF taken, C
      <3> QED BY <3>1, <3>2
    <2>7. Steps(n, p, w) \ taken = free(R) \cup mate
      <3> HIDE DEF mate
      <3> QED BY <2>3, <2>5, <2>6 DEF R
    <2>8. free(R) \cap mate = {}
      BY <2>4
    <2>9. w \in 0 .. 2 * n
      OBVIOUS
    <2>10. IsFiniteSet(free(R))
      <3>1. IsFiniteSet(0 .. n - 1)
        <4>1. 0 \in Int /\ n - 1 \in Int
          OBVIOUS
        <4> QED BY <4>1, FS_Interval
      <3>2. IsFiniteSet(C)
        <4>1. C = {right} \cup {right - 1}
          BY DEF C
        <4> QED BY <4>1, FS_Singleton, FS_Union
      <3>3. IsFiniteSet((0 .. n - 1) \X C)
        BY <3>1, <3>2, FS_Product
      <3>4. free(R) \subseteq (0 .. n - 1) \X C
        BY <2>4
      <3> QED BY <3>3, <3>4, FS_Subset
    <2>11. PICK k \in Nat : Counts(free(R), k)
      BY <2>10, FS_CardinalityType DEF Counts
    <2>12. Counts(mate, IF c < right /\ m[r][right] = "null" THEN 1 ELSE 0)
      BY FS_Singleton, FS_EmptySet DEF Counts
    <2> DEFINE one == IF c < right /\ m[r][right] = "null" THEN 1 ELSE 0
    <2>13. one \in Nat
      OBVIOUS
    <2> HIDE DEF mate, one
    <2>14. Counts(Steps(n, p, w) \ taken, k + one)
      <3> DEFINE u == free(R)
      <3> HIDE DEF u
      <3>1. Counts(u \cup mate, k + one)
        BY <2>8, <2>11, <2>12, <2>13, CountsUnion DEF u, one
      <3> QED BY <2>7, <3>1 DEF u
    <2>15. FreeIn(m, right, R) = k
      BY <2>11 DEF Counts, FreeIn, C
    <2>16. Cardinality(Held(n, type, q + w)) = Cardinality(Held(n, type, q)) + k + one
      <3>1. Cardinality(Steps(n, p, w) \ taken) = k + one
        BY <2>14 DEF Counts
      <3>2. Cardinality(Held(n, type, q)) \in Nat
            /\ Cardinality(Held(n, type, q + w)) = Cardinality(Held(n, type, q)) + (k + one)
        BY <1>2, <2>9, <3>1
      <3> QED BY <2>13, <3>2
    <2> QED BY <2>2, <2>15, <2>16 DEF NumberIs, R, one
  <1> QED BY <1>4, <1>5 DEF C, Numbered

-----------------------------------------------------------------------------
(* The column where mapData begins its p-th pair.                          *)
Column(n, p) == IF n - 1 - 2 * p >= 6 THEN n - 1 - 2 * p ELSE n - 2 - 2 * p

(* The k-th module of the path has the bit whose number is that of the     *)
(* modules with data before it.                                            *)
DataRead(n, type, k) ==
  \E r, c \in 0 .. n - 1 :
    /\ Path(n)[k] = <<r, c>>
    /\ <<r, c>> \notin Taken(n, type) =>
         _modules[r][c] = Module(DataBit(Cardinality(Held(n, type, k - 1))) # getMaskFunction(maskPattern, r, c))

(* mapData has done p pairs: it begins the next one with the number of the *)
(* modules with data that it has left behind, has put a bit into each of   *)
(* them, and has put nothing into the rest.                                *)
PlacedTo(n, type, p) ==
  /\ col = Column(n, p) /\ 2 * p <= n - 3
  /\ inc = IF (p % 2) = 0 THEN -1 ELSE 1
  /\ placed = Cardinality(Held(n, type, p * (2 * n)))
  /\ \A k \in 1 .. p * (2 * n) : DataRead(n, type, k)
  /\ \A r \in 0 .. n - 1, c \in 0 .. Right(n, p) : <<r, c>> \notin Taken(n, type) => _modules[r][c] = "null"

(* Before each pair, and after the last.                                   *)
Placed ==
  /\ pc = "map" => \E p \in Nat : PlacedTo(_moduleCount, _typeNumber, p)
  /\ pc \in {"score", "made"} =>
       \A k \in 1 .. _moduleCount * (_moduleCount - 1) : DataRead(_moduleCount, _typeNumber, k)

(* What is not null when data is placed is what the patterns have taken.   *)
LEMMA TakenIsDrawn ==
  ASSUME Kept, pc \in {"cache", "map"}, NEW type \in 1 .. 40, type = _typeNumber,
         NEW n \in Nat, n = _moduleCount, n = type * 4 + 17,
         NEW r \in 0 .. n - 1, NEW c \in 0 .. n - 1
  PROVE  /\ <<r, c>> \in Taken(n, type) => _modules[r][c] # "null"
         /\ pc = "cache" => (_modules[r][c] = "null" <=> <<r, c>> \notin Taken(n, type))
  <1> DEFINE d == Patterns(n, type, request.level, test, maskPattern)
             taken == Taken(n, type)
  <1>1. d[r][c] # "null" <=> DrawnAt(n, type, r, c)
    BY PatternsDrawnAt
  <1>2. DrawnAt(n, type, r, c) <=> <<r, c>> \in taken
    BY DrawnIsTaken
  <1>3. DrawnNow = d
    BY DEF DrawnNow
  <1> HIDE DEF d, taken
  <1>4. <<r, c>> \in taken => _modules[r][c] # "null"
    BY <1>1, <1>2, <1>3 DEF Kept
  <1>5. pc = "cache" => (_modules[r][c] = "null" <=> <<r, c>> \notin taken)
    BY <1>1, <1>2, <1>3 DEF Kept
  <1> QED BY <1>4, <1>5 DEF taken

(* mapData begins with nothing placed.                                     *)
LEMMA PlacedAtStart ==
  ASSUME SymbolInv, EncoderInv, Kept, Cache
  PROVE  Placed'
  <1>1. pc = "cache" /\ pc' \in {"map", "thrown"}
    BY DEF Cache, Throw
  <1>2. CASE pc' = "thrown"
    BY <1>2 DEF Placed
  <1>3. CASE pc' = "map"
    <2>1. PICK type \in 1 .. 40, n \in Nat : type = _typeNumber /\ n = _moduleCount /\ n = type * 4 + 17
      BY <1>1 DEF SymbolInv, EncoderInv, _moduleCount
    <2>2. col' = n - 1 /\ inc' = -1 /\ placed' = 0 /\ _modules' = _modules /\ _typeNumber' = type
      BY <1>3, <2>1 DEF Cache, Throw
    <2>3. _moduleCount' = n
      BY <2>1, <2>2 DEF _moduleCount
    <2>4. n - 1 = Column(n, 0) /\ 2 * 0 <= n - 3 /\ -1 = (IF (0 % 2) = 0 THEN -1 ELSE 1) /\ Right(n, 0) = n - 1
      BY <2>1 DEF Column, Right
    <2>5. 0 * (2 * n) = 0 /\ 1 .. 0 = {}
      OBVIOUS
    <2>6. Cardinality(Held(n, type, 0)) = 0
      BY <2>5, FS_EmptySet DEF Held
    <2>7. \A r \in 0 .. n - 1, c \in 0 .. n - 1 : <<r, c>> \notin Taken(n, type) => _modules[r][c] = "null"
      BY <1>1, <2>1, TakenIsDrawn
    <2>8. PlacedTo(n, type, 0)'
      BY <2>2, <2>4, <2>5, <2>6, <2>7 DEF PlacedTo
    <2> QED BY <1>3, <2>2, <2>3, <2>8 DEF Placed
  <1> QED BY <1>1, <1>2, <1>3

-----------------------------------------------------------------------------
(* After the p-th pair comes the next one, to the left of it and the other *)
(* way round, or the path is at its end.                                   *)
Advances(n, p) ==
  /\ SkipTiming(Column(n, p)) = Right(n, p) /\ Right(n, p) \in 1 .. n - 1
  /\ p * (2 * n) + 2 * n = (p + 1) * (2 * n)
  /\ (p + 1) * (2 * n) <= n * (n - 1)
  /\ (IF (p % 2) = 0 THEN 1 ELSE -1) = (IF ((p + 1) % 2) = 0 THEN -1 ELSE 1)
  /\ Right(n, p) - 2 > 0 =>
       /\ Right(n, p) - 2 = Column(n, p + 1) /\ 2 * (p + 1) <= n - 3
       /\ Right(n, p + 1) \in 0 .. Right(n, p) - 2
  /\ Right(n, p) - 2 <= 0 => (p + 1) * (2 * n) = n * (n - 1)

(* The pairs of columns follow each other, down to the last.               *)
LEMMA NextColumn ==
  ASSUME NEW type \in 1 .. 40, NEW n \in Nat, n = type * 4 + 17, NEW p \in Nat, 2 * p <= n - 3
  PROVE  Advances(n, p)
  <1>1. PICK h \in Nat : n = 2 * h + 1
    <2>1. type * 2 + 8 \in Nat /\ n = 2 * (type * 2 + 8) + 1
      OBVIOUS
    <2> QED BY <2>1
  <1>2. h >= 10 /\ p + 1 <= h
    BY <1>1
  <1>3. SkipTiming(Column(n, p)) = Right(n, p) /\ Right(n, p) \in 1 .. n - 1
    BY <1>1, <1>2 DEF SkipTiming, Column, Right
  <1>4. Right(n, p) - 2 > 0 =>
              /\ Right(n, p) - 2 = Column(n, p + 1) /\ 2 * (p + 1) <= n - 3
              /\ Right(n, p + 1) \in 0 .. Right(n, p) - 2
    BY <1>1, <1>2 DEF Column, Right
  <1>5. Right(n, p) - 2 <= 0 => p + 1 = h
    BY <1>1, <1>2 DEF Right
  <1>6. PICK d \in Nat : d = 2 * n
    OBVIOUS
  <1>7. p * d + d = (p + 1) * d
    OBVIOUS
  <1>8. h * d = n * (n - 1)
    <2>1. n - 1 = 2 * h
      BY <1>1
    <2>2. h * (2 * n) = n * (2 * h)
      OBVIOUS
    <2> QED BY <1>6, <2>1, <2>2
  <1>9. (p + 1) * d <= h * d
    <2>1. PICK e \in Nat : h = p + 1 + e
      BY <1>2
    <2>2. h * d = (p + 1) * d + e * d /\ e * d \in Nat /\ (p + 1) * d \in Nat
      BY <2>1
    <2> QED BY <2>2
  <1>10. (IF (p % 2) = 0 THEN 1 ELSE -1) = (IF ((p + 1) % 2) = 0 THEN -1 ELSE 1)
    OBVIOUS
  <1>11. Right(n, p) - 2 <= 0 => (p + 1) * (2 * n) = n * (n - 1)
    BY <1>5, <1>6, <1>8
  <1>12. p * (2 * n) + 2 * n = (p + 1) * (2 * n) /\ (p + 1) * (2 * n) <= n * (n - 1)
    BY <1>6, <1>7, <1>8, <1>9
  <1> QED BY <1>3, <1>4, <1>10, <1>11, <1>12 DEF Advances

(* What mapData does to a module of its columns, in terms of the path.     *)
LEMMA ColumnDrawn ==
  ASSUME SymbolInv, MapColumn, NEW n \in Nat, n = _moduleCount, NEW p \in Nat,
         NEW right \in Int, right = SkipTiming(col), inc = IF (p % 2) = 0 THEN -1 ELSE 1
  PROVE  /\ \A r, c \in 0 .. n - 1 : _modules'[r][c] =
              IF c \in {right, right - 1} /\ _modules[r][c] = "null"
              THEN Module(DataBit(placed + FreeIn(_modules, right, Passed(n, p, r))
                                  + (IF c < right /\ _modules[r][right] = "null" THEN 1 ELSE 0))
                          # getMaskFunction(maskPattern, r, c))
              ELSE _modules[r][c]
         /\ placed' = placed + FreeIn(_modules, right, 0 .. n - 1)
         /\ col' = right - 2 /\ inc' = -inc
         /\ right - 2 > 0 => pc' = "map"
         /\ right - 2 <= 0 => pc' \in {"score", "made"}
         /\ UNCHANGED <<request, _dataList, _typeNumber, _dataCache, test, maskPattern>>
  <1>1. pc = "map" /\ DOMAIN _modules = 0 .. n - 1 /\ test \in BOOLEAN
    BY DEF MapColumn, SymbolInv, Matrix, Kinds
  <1> DEFINE rows == DOMAIN _modules
             Free(R) == Cardinality({x \in R \X {right, right - 1} : _modules[x[1]][x[2]] = "null"})
             passed(r) == IF inc = -1 THEN {i \in rows : i > r} ELSE {i \in rows : i < r}
             beside(r, c) == IF c < right /\ _modules[r][right] = "null" THEN 1 ELSE 0
  <1>2. _modules' = [r \in rows |-> [c \in rows |->
          IF c \in {right, right - 1} /\ _modules[r][c] = "null"
          THEN Module(DataBit(placed + Free(passed(r)) + beside(r, c))
                      # getMaskFunction(maskPattern, r, c))
          ELSE _modules[r][c]]]
    BY DEF MapColumn
  <1>3. /\ placed' = placed + Free(rows) /\ col' = right - 2 /\ inc' = -inc
        /\ pc' = (CASE right - 2 > 0 -> "map" [] right - 2 <= 0 /\ test -> "score"
                [] right - 2 <= 0 /\ ~test -> "made")
        /\ UNCHANGED <<request, _dataList, _typeNumber, _dataCache, test, maskPattern>>
    BY DEF MapColumn
  <1>4. \A r \in 0 .. n - 1 : passed(r) = Passed(n, p, r)
    <2>1. CASE (p % 2) = 0
      <3>1. \A r \in 0 .. n - 1 : {i \in 0 .. n - 1 : i > r} = r + 1 .. n - 1
        OBVIOUS
      <3> QED BY <1>1, <2>1, <3>1 DEF Passed
    <2>2. CASE (p % 2) # 0
      <3>1. \A r \in 0 .. n - 1 : {i \in 0 .. n - 1 : i < r} = 0 .. r - 1
        OBVIOUS
      <3> QED BY <1>1, <2>2, <3>1 DEF Passed
    <2> QED BY <2>1, <2>2
  <1>5. \A R : Free(R) = FreeIn(_modules, right, R)
    BY DEF FreeIn
  <1> HIDE DEF Free, passed
  <1>6. ASSUME NEW r \in 0 .. n - 1, NEW c \in 0 .. n - 1
        PROVE  _modules'[r][c] =
              IF c \in {right, right - 1} /\ _modules[r][c] = "null"
              THEN Module(DataBit(placed + FreeIn(_modules, right, Passed(n, p, r)) + beside(r, c))
                          # getMaskFunction(maskPattern, r, c))
              ELSE _modules[r][c]
    BY <1>1, <1>2, <1>4, <1>5
  <1>7. (right - 2 > 0 => pc' = "map") /\ (right - 2 <= 0 => pc' \in {"score", "made"})
    BY <1>1, <1>3
  <1>8. placed' = placed + FreeIn(_modules, right, 0 .. n - 1)
    BY <1>1, <1>3, <1>5
  <1> QED BY <1>3, <1>6, <1>7, <1>8

(* A pair of columns places the next bits, in the order of the path.       *)
LEMMA PlacedByColumn ==
  ASSUME SymbolInv, EncoderInv, Kept, Placed, MapColumn
  PROVE  Placed'
  <1>2. pc = "map"
    BY DEF MapColumn
  <1>1. PICK type \in 1 .. 40, n \in Nat : type = _typeNumber /\ n = _moduleCount /\ n = type * 4 + 17
    BY <1>2 DEF SymbolInv, EncoderInv, _moduleCount
  <1>3. PICK p \in Nat : PlacedTo(n, type, p)
    BY <1>1, <1>2 DEF Placed
  <1>20. Advances(n, p)
    <2>1. 2 * p <= n - 3
      BY <1>3 DEF PlacedTo
    <2> QED BY <1>1, <2>1, NextColumn
  <1>4. PICK right \in 1 .. n - 1 : right = Right(n, p) /\ right = SkipTiming(col)
    BY <1>3, <1>20 DEF Advances, PlacedTo
  <1>5. PICK q \in Nat : q = p * (2 * n)
    OBVIOUS
  <1>6. q + 2 * n = (p + 1) * (2 * n) /\ q + 2 * n <= n * (n - 1)
    BY <1>5, <1>20 DEF Advances
  <1> DEFINE C == {right, right - 1}
             number(r, c) == placed + FreeIn(_modules, right, Passed(n, p, r))
                             + (IF c < right /\ _modules[r][right] = "null" THEN 1 ELSE 0)
             goal(r, c) == Module(DataBit(number(r, c)) # getMaskFunction(maskPattern, r, c))
  <1>7. /\ \A r, c \in 0 .. n - 1 :
             _modules'[r][c] = IF c \in C /\ _modules[r][c] = "null" THEN goal(r, c) ELSE _modules[r][c]
        /\ placed' = placed + FreeIn(_modules, right, 0 .. n - 1)
        /\ col' = right - 2 /\ inc' = -inc
        /\ right - 2 > 0 => pc' = "map"
        /\ right - 2 <= 0 => pc' \in {"score", "made"}
        /\ UNCHANGED <<request, _dataList, _typeNumber, _dataCache, test, maskPattern>>
    <2>1. right \in Int /\ inc = IF (p % 2) = 0 THEN -1 ELSE 1
      BY <1>3 DEF PlacedTo
    <2> QED BY <1>1, <1>4, <2>1, ColumnDrawn
  <1>8. \A r \in 0 .. n - 1, c \in C : _modules[r][c] = "null" <=> <<r, c>> \notin Taken(n, type)
    <2> SUFFICES ASSUME NEW r \in 0 .. n - 1, NEW c \in C
                 PROVE  _modules[r][c] = "null" <=> <<r, c>> \notin Taken(n, type)
      OBVIOUS
    <2>1. c \in 0 .. n - 1 /\ c \in 0 .. Right(n, p)
      BY <1>4
    <2>2. <<r, c>> \in Taken(n, type) => _modules[r][c] # "null"
      BY <1>1, <1>2, <2>1, TakenIsDrawn
    <2> QED BY <1>3, <2>1, <2>2 DEF PlacedTo
  <1>9. /\ FreeIn(_modules, right, 0 .. n - 1) \in Nat /\ Cardinality(Held(n, type, q)) \in Nat
        /\ Cardinality(Held(n, type, q + 2 * n))
             = Cardinality(Held(n, type, q)) + FreeIn(_modules, right, 0 .. n - 1)
        /\ \A w \in 0 .. 2 * n - 1 : \E r \in 0 .. n - 1, c \in C :
             NumberIs(_modules, n, type, p, right, r, c, w)
    <2>1. n >= 1 /\ right \in Int
      BY <1>1
    <2>2. Numbered(_modules, n, type, p, q, right)
      BY <1>4, <1>5, <1>6, <1>8, <2>1, ColumnsNumbered
    <2> QED BY <2>2 DEF Numbered
  <1>10. placed = Cardinality(Held(n, type, q)) /\ placed' = Cardinality(Held(n, type, q + 2 * n))
    BY <1>3, <1>5, <1>7, <1>9 DEF PlacedTo
  <1>11. \A k : DataBit(k)' = DataBit(k)
    BY <1>7 DEF DataBit
  <1>12. \A k, r, c : Module(DataBit(k) # getMaskFunction(maskPattern, r, c)) # "null"
    BY ModuleType
  <1>13. \A r, c \in 0 .. n - 1 : _modules[r][c] # "null" => _modules'[r][c] = _modules[r][c]
    BY <1>7
  <1>14. ASSUME NEW k \in 1 .. q PROVE DataRead(n, type, k)'
    <2>1. DataRead(n, type, k)
      BY <1>3, <1>5 DEF PlacedTo
    <2>2. PICK r \in 0 .. n - 1, c \in 0 .. n - 1 :
            /\ Path(n)[k] = <<r, c>>
            /\ <<r, c>> \notin Taken(n, type) =>
                 _modules[r][c] = Module(DataBit(Cardinality(Held(n, type, k - 1))) # getMaskFunction(maskPattern, r, c))
      BY <2>1 DEF DataRead
    <2>3. <<r, c>> \notin Taken(n, type) =>
            _modules'[r][c] = Module(DataBit(Cardinality(Held(n, type, k - 1))) # getMaskFunction(maskPattern, r, c))
      BY <1>12, <1>13, <2>2
    <2> QED BY <1>7, <1>11, <2>2, <2>3 DEF DataRead
  <1>15. ASSUME NEW k \in q + 1 .. q + 2 * n PROVE DataRead(n, type, k)'
    <2>1. PICK w \in 0 .. 2 * n - 1 : k = q + w + 1
      <3>1. k - q - 1 \in 0 .. 2 * n - 1 /\ k = q + (k - q - 1) + 1
        OBVIOUS
      <3> QED BY <3>1
    <2>2. PICK r \in 0 .. n - 1, c \in C : NumberIs(_modules, n, type, p, right, r, c, w)
      BY <1>9
    <2>3. c \in 0 .. n - 1
      BY <1>4
    <2>4. Path(n)[k] = <<r, c>>
      <3>1. n >= 1 /\ p * (2 * n) + w + 1 <= n * (n - 1)
        BY <1>1, <1>5, <1>6
      <3>2. Path(n)[p * (2 * n) + w + 1] = Step(n, p, w)
        BY <3>1, PathStep
      <3> QED BY <1>5, <2>1, <2>2, <3>2 DEF NumberIs
    <2>5. Cardinality(Held(n, type, k - 1)) = number(r, c)
      <3>1. k - 1 = q + w
        BY <2>1
      <3> QED BY <1>5, <1>10, <2>2, <3>1 DEF NumberIs
    <2>6. <<r, c>> \notin Taken(n, type) => _modules'[r][c] = goal(r, c)
      BY <1>7, <1>8, <2>2, <2>3
    <2> HIDE DEF number
    <2>7. <<r, c>> \notin Taken(n, type) =>
            _modules'[r][c] = Module(DataBit(Cardinality(Held(n, type, k - 1))) # getMaskFunction(maskPattern, r, c))
      BY <2>5, <2>6
    <2> QED BY <1>7, <1>11, <2>3, <2>4, <2>7 DEF DataRead
  <1>16. \A k \in 1 .. q + 2 * n : DataRead(n, type, k)'
    <2>1. \A k \in 1 .. q + 2 * n : k \in 1 .. q \/ k \in q + 1 .. q + 2 * n
      OBVIOUS
    <2> QED BY <1>14, <1>15, <2>1
  <1>17. _typeNumber' = type /\ _moduleCount' = n
    BY <1>1, <1>7 DEF _moduleCount
  <1>18. CASE right - 2 > 0
    <2>1. /\ right - 2 = Column(n, p + 1) /\ 2 * (p + 1) <= n - 3
          /\ Right(n, p + 1) \in 0 .. right - 2
          /\ (IF (p % 2) = 0 THEN 1 ELSE -1) = (IF ((p + 1) % 2) = 0 THEN -1 ELSE 1)
      BY <1>4, <1>18, <1>20 DEF Advances
    <2>2. inc' = IF ((p + 1) % 2) = 0 THEN -1 ELSE 1
      <3>1. inc' = IF (p % 2) = 0 THEN 1 ELSE -1
        BY <1>3, <1>7 DEF PlacedTo
      <3> QED BY <2>1, <3>1
    <2>3. ASSUME NEW r \in 0 .. n - 1, NEW c \in 0 .. Right(n, p + 1), <<r, c>> \notin Taken(n, type)
          PROVE  _modules'[r][c] = "null"
      <3>1. c \in 0 .. n - 1 /\ c \notin C /\ c \in 0 .. Right(n, p)
        BY <1>4, <2>1
      <3>2. _modules[r][c] = "null"
        BY <1>3, <2>3, <3>1 DEF PlacedTo
      <3> QED BY <1>7, <3>1, <3>2
    <2>4. placed' = Cardinality(Held(n, type, (p + 1) * (2 * n)))
      BY <1>6, <1>10
    <2>5. \A k \in 1 .. (p + 1) * (2 * n) : DataRead(n, type, k)'
      BY <1>6, <1>16
    <2>6. col' = Column(n, p + 1) /\ 2 * (p + 1) <= n - 3
      BY <1>7, <2>1
    <2>7. PlacedTo(n, type, p + 1)'
      BY <2>2, <2>3, <2>4, <2>5, <2>6 DEF PlacedTo
    <2>8. p + 1 \in Nat /\ pc' = "map"
      BY <1>7, <1>18
    <2> QED BY <1>17, <2>7, <2>8 DEF Placed
  <1>19. CASE right - 2 <= 0
    <2>1. q + 2 * n = n * (n - 1)
      BY <1>4, <1>6, <1>19, <1>20 DEF Advances
    <2>2. pc' \in {"score", "made"}
      BY <1>7, <1>19
    <2>3. \A k \in 1 .. n * (n - 1) : DataRead(n, type, k)'
      BY <1>16, <2>1
    <2> QED BY <1>17, <2>2, <2>3 DEF Placed
  <1> QED BY <1>4, <1>18, <1>19

-----------------------------------------------------------------------------
(* What has been computed is for the data and the type there are now.      *)
Cached ==
  /\ _typeNumber < 1 => _dataCache = NoCache
  /\ _dataCache # NoCache => _dataCache = createData(_typeNumber, request.level, _dataList)
  /\ pc \in {"map", "score", "made"} => _dataCache = createData(_typeNumber, request.level, _dataList)

(* Nothing is computed at the start.                                       *)
LEMMA CachedInit == Init => Cached /\ Placed
  BY DEF Init, SymbolInit, Cached, Placed

(* The codewords go with the data; the drawing goes on.                    *)
LEMMA CachedStep ==
  ASSUME SymbolInv, EncoderInv, Cached, [Next]_vars
  PROVE  Cached'
  <1>1. CASE Make
    <2>1. /\ pc' \in {"draw", "thrown"} /\ UNCHANGED <<request, _dataList, _dataCache>>
          /\ _typeNumber >= 1 => _typeNumber' = _typeNumber
      <3>1. CASE _typeNumber < 1 /\ ~Writable(_dataList)
        BY <1>1, <3>1 DEF Make, Throw
      <3>2. CASE ~(_typeNumber < 1 /\ ~Writable(_dataList))
        BY <1>1, <3>2 DEF Make, makeImpl, EncoderInv
      <3> QED BY <3>1, <3>2
    <2>2. _typeNumber >= 1 \/ _typeNumber < 1
      BY DEF EncoderInv
    <2>3. CASE _typeNumber >= 1
      BY <2>1, <2>3 DEF Cached
    <2>4. CASE _typeNumber < 1
      BY <2>1, <2>4 DEF Cached
    <2> QED BY <2>2, <2>3, <2>4
  <1>2. CASE DrawPatterns
    BY <1>2 DEF DrawPatterns, Cached
  <1>3. CASE Cache
    <2>1. pc = "cache" /\ _typeNumber >= 1 /\ UNCHANGED <<request, _dataList, _typeNumber>>
      BY <1>3 DEF Cache, Throw, SymbolInv
    <2>2. ~(_typeNumber < 1)
      BY <2>1 DEF EncoderInv
    <2>3. \/ pc' = "thrown" /\ _dataCache' = _dataCache
          \/ pc' = "map" /\ _dataCache' = IF _dataCache = NoCache
                           THEN createData(_typeNumber, request.level, _dataList)
                           ELSE _dataCache
      BY <1>3 DEF Cache, Throw
    <2> QED BY <2>1, <2>2, <2>3 DEF Cached
  <1>4. CASE MapColumn
    <2>1. pc = "map" /\ UNCHANGED <<request, _dataList, _typeNumber, _dataCache>>
      BY <1>4 DEF MapColumn
    <2> QED BY <2>1 DEF Cached
  <1>5. CASE Score
    <2>1. pc = "score" /\ UNCHANGED <<request, _dataList, _typeNumber, _dataCache>>
      BY <1>5 DEF Score
    <2> QED BY <2>1 DEF Cached
  <1>6. CASE AddData
    <2>1. pc' = "make" /\ _dataCache' = NoCache
      BY <1>6 DEF AddData
    <2> QED BY <2>1 DEF Cached
  <1>7. CASE UNCHANGED symbolVars
    BY <1>7 DEF symbolVars, Cached
  <1> QED BY <1>1, <1>2, <1>3, <1>4, <1>5, <1>6, <1>7
          DEF Next, Symbol, SymbolNext, CreateDataURL, WriteImage, vars

(* A mask inverts a module or does not.                                    *)
LEMMA MaskKind ==
  ASSUME NEW mask \in 0 .. 7, NEW i, NEW j
  PROVE  getMaskFunction(mask, i, j) \in BOOLEAN /\ Inverted(mask, i, j) \in BOOLEAN
  <1>1. mask \in {0, 1, 2, 3, 4, 5, 6, 7}
    OBVIOUS
  <1>2. CASE mask = 0
    BY <1>2 DEF getMaskFunction, Inverted
  <1>3. CASE mask = 1
    BY <1>3 DEF getMaskFunction, Inverted
  <1>4. CASE mask = 2
    BY <1>4 DEF getMaskFunction, Inverted
  <1>5. CASE mask = 3
    BY <1>5 DEF getMaskFunction, Inverted
  <1>6. CASE mask = 4
    BY <1>6 DEF getMaskFunction, Inverted
  <1>7. CASE mask = 5
    BY <1>7 DEF getMaskFunction, Inverted
  <1>8. CASE mask = 6
    BY <1>8 DEF getMaskFunction, Inverted
  <1>9. CASE mask = 7
    BY <1>9 DEF getMaskFunction, Inverted
  <1> QED BY <1>1, <1>2, <1>3, <1>4, <1>5, <1>6, <1>7, <1>8, <1>9

(* A mask that is applied twice is taken off.                              *)
LEMMA Unmasked ==
  ASSUME NEW look \in BOOLEAN, NEW bit \in BOOLEAN, NEW mask \in BOOLEAN, NEW inverted \in BOOLEAN,
         look <=> (bit # mask), mask <=> inverted
  PROVE  (look # inverted) <=> bit
  <1>1. CASE bit = TRUE
    BY <1>1
  <1>2. CASE bit = FALSE
    BY <1>2
  <1> QED BY <1>1, <1>2

(* Every step keeps it so.                                                 *)
LEMMA PlacedStep ==
  ASSUME SymbolInv, EncoderInv, Kept, Placed, [Next]_vars
  PROVE  Placed'
  <1>1. CASE Make \/ AddData \/ Score \/ DrawPatterns
    <2>1. pc' \in {"draw", "make", "thrown", "cache"}
      BY <1>1 DEF Make, AddData, Score, DrawPatterns, Throw, makeImpl
    <2> QED BY <2>1 DEF Placed
  <1>2. CASE Cache
    BY <1>2, PlacedAtStart
  <1>3. CASE MapColumn
    BY <1>3, PlacedByColumn
  <1>4. CASE UNCHANGED symbolVars
    <2>1. UNCHANGED <<_typeNumber, pc, _modules, _dataCache, maskPattern, col, inc, placed>>
      BY <1>4 DEF symbolVars, place
    <2>2. _moduleCount' = _moduleCount /\ \A k : DataBit(k)' = DataBit(k)
      BY <2>1 DEF _moduleCount, DataBit
    <2>3. \A n, type, k : DataRead(n, type, k)' <=> DataRead(n, type, k)
      BY <2>1, <2>2 DEF DataRead
    <2>4. \A n, type, p : PlacedTo(n, type, p)' <=> PlacedTo(n, type, p)
      BY <2>1, <2>3 DEF PlacedTo
    <2> QED BY <2>1, <2>2, <2>3, <2>4 DEF Placed
  <1> QED BY <1>1, <1>2, <1>3, <1>4 DEF Next, Symbol, SymbolNext, CreateDataURL, WriteImage, vars

(* In a finished symbol, a reader that follows its path and takes the mask *)
(* off finds the bits of the codewords one after the other, and zeros past *)
(* the last.                                                               *)
CodewordsPlaced ==
  LET n == _moduleCount
      codewords == createData(_typeNumber, request.level, _dataList)
      bit(k) == k < 8 * Len(codewords) /\ Bit(codewords[k \div 8 + 1], 7 - (k % 8)) = 1
  IN pc = "made" =>
       \A k \in 1 .. n * (n - 1) :
         LET x == Path(n)[k]
         IN x \notin Taken(n, _typeNumber) =>
              (Looks(_modules, x, TRUE) # Inverted(maskPattern, x[1], x[2]))
                <=> bit(Cardinality(Held(n, _typeNumber, k - 1)))

(* In a finished symbol a reader that follows the path of the standard up  *)
(* and down the pairs of columns, and takes off the mask that is drawn,    *)
(* finds the bits of the codewords of the present data one after the other *)
(* in the modules where no pattern is, and zeros past the last (mapData,   *)
(* getMask, createData). No bit is left out, none is put twice, and none   *)
(* is of the codewords of older data.                                      *)
THEOREM CodewordsArePlaced == Spec => []CodewordsPlaced
  <1> DEFINE Inv == EncoderInv /\ SymbolInv /\ Kept /\ Cached /\ Placed /\ RasterInv /\ StreamInv /\ ImageInv
  <1>1. Init => Inv
    BY EncoderInvInit, SymbolInvInit, KeptInit, CachedInit, ImageInvInit DEF Init
  <1>2. Inv /\ [Next]_vars => Inv'
    BY EncoderInvStep, SymbolInvStep, KeptStep, CachedStep, PlacedStep, ImageInvStep
  <1>3. Inv => CodewordsPlaced
    <2> SUFFICES ASSUME Inv, pc = "made", NEW k \in 1 .. _moduleCount * (_moduleCount - 1),
                        Path(_moduleCount)[k] \notin Taken(_moduleCount, _typeNumber)
                 PROVE  (Looks(_modules, Path(_moduleCount)[k], TRUE)
                           # Inverted(maskPattern, Path(_moduleCount)[k][1], Path(_moduleCount)[k][2]))
                        <=> DataBit(Cardinality(Held(_moduleCount, _typeNumber, k - 1)))
      BY DEF CodewordsPlaced, DataBit, Cached
    <2> DEFINE n == _moduleCount
               bit == DataBit(Cardinality(Held(n, _typeNumber, k - 1)))
    <2>1. DataRead(n, _typeNumber, k) /\ maskPattern \in 0 .. 7
      BY DEF Placed, SymbolInv, Kinds
    <2>2. n \in Nat
      BY DEF EncoderInv, _moduleCount
    <2>3. PICK r \in 0 .. n - 1, c \in 0 .. n - 1 :
            /\ Path(n)[k] = <<r, c>>
            /\ _modules[r][c] = Module(bit # getMaskFunction(maskPattern, r, c))
      BY <2>1 DEF DataRead
    <2>4. getMaskFunction(maskPattern, r, c) <=> Inverted(maskPattern, r, c)
      <3>1. r \in Nat /\ c \in Nat
        BY <2>2
      <3> QED BY <2>1, <3>1, MasksAgree
    <2>5. bit \in BOOLEAN /\ getMaskFunction(maskPattern, r, c) \in BOOLEAN
      BY <2>1, MaskKind DEF DataBit
    <2>6. Inverted(maskPattern, r, c) \in BOOLEAN
      BY <2>1, MaskKind
    <2> HIDE DEF bit
    <2>7. Looks(_modules, <<r, c>>, TRUE) <=> (bit # getMaskFunction(maskPattern, r, c))
      BY <2>3 DEF Looks, Module
    <2>8. (Looks(_modules, <<r, c>>, TRUE) # Inverted(maskPattern, r, c)) <=> bit
      <3> DEFINE look == Looks(_modules, <<r, c>>, TRUE)
                 mask == getMaskFunction(maskPattern, r, c)
                 inverted == Inverted(maskPattern, r, c)
      <3>1. look \in BOOLEAN
        BY DEF Looks
      <3>2. bit \in BOOLEAN /\ mask \in BOOLEAN /\ inverted \in BOOLEAN
        BY <2>5, <2>6
      <3>3. (look <=> (bit # mask)) /\ (mask <=> inverted)
        BY <2>4, <2>7
      <3> HIDE DEF look, mask, inverted
      <3>4. (look # inverted) <=> bit
        BY <3>1, <3>2, <3>3, Unmasked
      <3> QED BY <3>4 DEF look, inverted
    <2>9. Path(n)[k][1] = r /\ Path(n)[k][2] = c
      BY <2>3
    <2> QED BY <2>3, <2>8, <2>9 DEF bit
  <1> QED BY <1>1, <1>2, <1>3, PTL DEF Spec

-----------------------------------------------------------------------------
(* The i-th bit of the type information goes into column 8 and into row 8. *)
LEMMA InfoDrawn ==
  ASSUME NEW n \in Nat, n >= 21, NEW m, Sized(m, n), NEW level, NEW isTest, NEW mask, NEW i \in 0 .. 14,
         NEW word, word = getBCHTypeInfo(QRErrorCorrectionLevel[level] * 8 + mask)
  PROVE  /\ InfoAt(n, Vertical(n, i), 8) /\ Vertical(n, i) \in 0 .. n - 1
         /\ setupTypeInfo(m, n, level, isTest, mask)[Vertical(n, i)][8] = Module(~isTest /\ Bit(word, i) = 1)
         /\ InfoAt(n, 8, Horizontal(n, i)) /\ Horizontal(n, i) \in 0 .. n - 1
         /\ setupTypeInfo(m, n, level, isTest, mask)[8][Horizontal(n, i)] = Module(~isTest /\ Bit(word, i) = 1)
  <1> DEFINE Drawn0(j) == Module(~isTest /\ Bit(word, j) = 1)
             down(r) == {j \in 0 .. 14 : Vertical(n, j) = r}
             across(c) == {j \in 0 .. 14 : Horizontal(n, j) = c}
             d == setupTypeInfo(m, n, level, isTest, mask)
  <1>1. \A r, c \in 0 .. n - 1 :
          d[r][c] = CASE c = 8 /\ r = n - 8           -> Module(~isTest)
                      [] r = 8 /\ across(c) # {}         -> Drawn0(CHOOSE j \in across(c) : TRUE)
                      [] c = 8 /\ r # n - 8 /\ down(r) # {} -> Drawn0(CHOOSE j \in down(r) : TRUE)
                      [] OTHER                        -> m[r][c]
    BY DEF setupTypeInfo, Sized
  <1>2. Vertical(n, i) \in 0 .. n - 1 /\ Vertical(n, i) # n - 8 /\ InfoAt(n, Vertical(n, i), 8)
    BY DEF Vertical, InfoAt
  <1>3. Horizontal(n, i) \in 0 .. n - 1 /\ Horizontal(n, i) # 8 /\ InfoAt(n, 8, Horizontal(n, i))
    BY DEF Horizontal, InfoAt
  <1>4. across(8) = {}
    BY DEF Horizontal
  <1>5. down(Vertical(n, i)) = {i}
    BY DEF Vertical
  <1>6. across(Horizontal(n, i)) = {i}
    BY DEF Horizontal
  <1>7. 8 \in 0 .. n - 1 /\ 8 # n - 8
    OBVIOUS
  <1> HIDE DEF d, Drawn0, across, down
  <1>8. (CHOOSE j \in {i} : TRUE) = i
    OBVIOUS
  <1>9. d[Vertical(n, i)][8] = Drawn0(i)
    <2>1. PICK r \in 0 .. n - 1 : r = Vertical(n, i)
      BY <1>2
    <2>2. d[r][8] = Drawn0(CHOOSE j \in {i} : TRUE)
      BY <1>1, <1>2, <1>4, <1>5, <1>7, <2>1
    <2> QED BY <1>8, <2>1, <2>2
  <1>10. d[8][Horizontal(n, i)] = Drawn0(i)
    <2>1. PICK c \in 0 .. n - 1 : c = Horizontal(n, i)
      BY <1>3
    <2>2. d[8][c] = Drawn0(CHOOSE j \in {i} : TRUE)
      BY <1>1, <1>3, <1>6, <1>7, <2>1
    <2> QED BY <1>8, <2>1, <2>2
  <1> QED BY <1>2, <1>3, <1>9, <1>10 DEF d, Drawn0

(* The i-th bit of the type number goes into both of its places.           *)
LEMMA NumberDrawn ==
  ASSUME NEW n \in Nat, n >= 21, NEW m, Sized(m, n), NEW type, NEW isTest, NEW i \in 0 .. 17,
         NEW word, word = getBCHTypeNumber(type),
         NEW long \in 0 .. 5, NEW short \in 0 .. 2, i = 3 * long + short
  PROVE  /\ setupTypeNumber(m, n, type, isTest)[long][n - 11 + short] = Module(~isTest /\ Bit(word, i) = 1)
         /\ setupTypeNumber(m, n, type, isTest)[n - 11 + short][long] = Module(~isTest /\ Bit(word, i) = 1)
  <1> DEFINE Drawn0(a, b) == Module(~isTest /\ Bit(word, 3 * a + b) = 1)
             d == setupTypeNumber(m, n, type, isTest)
  <1>1. \A r, c \in 0 .. n - 1 :
          d[r][c] = CASE r \in 0 .. 5 /\ c \in n - 11 .. n - 9 -> Drawn0(r, c - (n - 11))
                      [] c \in 0 .. 5 /\ r \in n - 11 .. n - 9 -> Drawn0(c, r - (n - 11))
                      [] OTHER -> m[r][c]
    BY DEF setupTypeNumber, Sized
  <1>2. PICK e \in 0 .. n - 1 : e = n - 11 + short /\ e \in n - 11 .. n - 9 /\ e - (n - 11) = short /\ e \notin 0 .. 5
    OBVIOUS
  <1>3. long \in 0 .. n - 1 /\ long \notin n - 11 .. n - 9
    OBVIOUS
  <1> HIDE DEF d, Drawn0
  <1>4. d[long][e] = Drawn0(long, short) /\ d[e][long] = Drawn0(long, short)
    BY <1>1, <1>2, <1>3
  <1> QED BY <1>2, <1>4 DEF d, Drawn0

(* What the type information and the type number draw stays in the         *)
(* Nothing falls off the drawing while the words are added.                *)
LEMMA WordsSized ==
  ASSUME NEW type \in 1 .. 40, NEW n \in Nat, n = type * 4 + 17, NEW level, NEW isTest, NEW mask
  PROVE  /\ Sized(Timed(n, type), n)
         /\ Sized(setupTypeInfo(Timed(n, type), n, level, isTest, mask), n)
  <1>1. n >= 21 /\ 0 \in 0 .. n - 1
    OBVIOUS
  <1>2. Sized(Timed(n, type), n)
    BY <1>1, TimedShape
  <1> QED BY <1>1, <1>2, InfoShape

(* With typed before the type number, d is what has been drawn after it.   *)
WordsKept(d, typed, n, type, isTest, r, c) ==
  /\ InfoAt(n, r, c) => d[r][c] = typed[r][c]
  /\ type >= 7 => d[r][c] = setupTypeNumber(typed, n, type, isTest)[r][c]

(* patterns.                                                               *)
LEMMA WordsStay ==
  ASSUME NEW type \in 1 .. 40, NEW n \in Nat, n = type * 4 + 17, NEW level, NEW isTest, NEW mask,
         NEW r \in 0 .. n - 1, NEW c \in 0 .. n - 1
  PROVE  WordsKept(Patterns(n, type, level, isTest, mask),
                   setupTypeInfo(Timed(n, type), n, level, isTest, mask), n, type, isTest, r, c)
  <1> DEFINE typed == setupTypeInfo(Timed(n, type), n, level, isTest, mask)
             numbered == setupTypeNumber(typed, n, type, isTest)
             drawn == Patterns(n, type, level, isTest, mask)
  <1>1. drawn = IF type >= 7 THEN numbered ELSE typed
    BY DEF Patterns, Timed, Probes
  <1>2. Sized(typed, n)
    BY WordsSized
  <1> HIDE DEF typed
  <1>3. ~NumberAt(n, r, c) => numbered[r][c] = typed[r][c]
    BY <1>2, NumberShape
  <1>4. ~(InfoAt(n, r, c) /\ NumberAt(n, r, c))
    BY DEF InfoAt, NumberAt
  <1> HIDE DEF drawn
  <1>5. WordsKept(drawn, typed, n, type, isTest, r, c)
    BY <1>1, <1>3, <1>4 DEF WordsKept
  <1> QED BY <1>5 DEF drawn, typed

(* A finished symbol says twice, where a reader looks for it, what level   *)
(* and mask it has, and from type 7 on what type, bit by bit.              *)
WordsDrawn ==
  LET n == _moduleCount
      info == getBCHTypeInfo(QRErrorCorrectionLevel[request.level] * 8 + maskPattern)
      number == getBCHTypeNumber(_typeNumber)
  IN pc = "made" =>
       /\ \A cells \in FormatCopies(n) : \A k \in 1 .. 15 : Looks(_modules, cells[k], Bit(info, k - 1) = 1)
       /\ _typeNumber >= 7 => \A k \in 1 .. 18 :
            LET long == (k - 1) \div 3
                short == n - 11 + ((k - 1) % 3)
            IN Looks(_modules, <<long, short>>, Bit(number, k - 1) = 1)
               /\ Looks(_modules, <<short, long>>, Bit(number, k - 1) = 1)

(* Where a reader looks for the format is where the code puts it.          *)
LEMMA CopiesAre ==
  ASSUME NEW n \in Nat, n >= 21, NEW cells \in FormatCopies(n), NEW k \in 1 .. 15
  PROVE  cells[k] \in {<<Vertical(n, k - 1), 8>>, <<8, Horizontal(n, k - 1)>>}
  <1> DEFINE first == [j \in 1 .. 15 |-> CASE j <= 6 -> <<j - 1, 8>> [] j = 7 -> <<7, 8>> [] j = 8 -> <<8, 8>>
                        [] j = 9 -> <<8, 7>> [] j > 9 -> <<8, 15 - j>>]
             second == [j \in 1 .. 15 |-> IF j <= 8 THEN <<8, n - j>> ELSE <<n - 16 + j, 8>>]
  <1>1. cells = first \/ cells = second
    BY DEF FormatCopies
  <1>2. first[k] \in {<<Vertical(n, k - 1), 8>>, <<8, Horizontal(n, k - 1)>>}
    <2>1. CASE k <= 6
      BY <2>1 DEF Vertical
    <2>2. CASE k = 7
      BY <2>2 DEF Vertical
    <2>3. CASE k = 8
      BY <2>3 DEF Vertical
    <2>4. CASE k = 9
      BY <2>4 DEF Horizontal
    <2>5. CASE k > 9
      BY <2>5 DEF Horizontal
    <2> QED BY <2>1, <2>2, <2>3, <2>4, <2>5
  <1>3. second[k] \in {<<Vertical(n, k - 1), 8>>, <<8, Horizontal(n, k - 1)>>}
    <2>1. CASE k <= 8
      BY <2>1 DEF Horizontal
    <2>2. CASE k > 8
      BY <2>2 DEF Vertical
    <2> QED BY <2>1, <2>2
  <1> HIDE DEF first, second
  <1> QED BY <1>1, <1>2, <1>3

(* In a finished symbol both copies of the format are the fifteen bits of  *)
(* the BCH code of its level and mask, and from type 7 on both copies of   *)
(* the type number the eighteen bits of its BCH code, each at the module   *)
(* where a reader looks for it and in its order (setupTypeInfo,            *)
(* setupTypeNumber). Neither is overdrawn, and neither is the blank one of *)
(* a test.                                                                 *)
THEOREM WordsAreDrawn == Spec => []WordsDrawn
  <1> DEFINE Inv == EncoderInv /\ SymbolInv /\ Kept /\ RasterInv /\ StreamInv /\ ImageInv
  <1>1. Init => Inv
    BY EncoderInvInit, SymbolInvInit, KeptInit, ImageInvInit DEF Init
  <1>2. Inv /\ [Next]_vars => Inv'
    BY EncoderInvStep, SymbolInvStep, KeptStep, ImageInvStep
  <1>3. Inv => WordsDrawn
    <2> SUFFICES ASSUME Inv, pc = "made" PROVE WordsDrawn
      BY DEF WordsDrawn
    <2>1. PICK type \in 1 .. 40, n \in Nat : type = _typeNumber /\ n = _moduleCount /\ n = type * 4 + 17
      BY DEF SymbolInv, EncoderInv, _moduleCount
    <2>2. ~test
      BY DEF Kept
    <2> DEFINE d == Patterns(n, type, request.level, test, maskPattern)
               typed == setupTypeInfo(Timed(n, type), n, request.level, test, maskPattern)
               info == getBCHTypeInfo(QRErrorCorrectionLevel[request.level] * 8 + maskPattern)
               number == getBCHTypeNumber(type)
    <2>3. n >= 21
      BY <2>1
    <2>11. Sized(Timed(n, type), n) /\ Sized(typed, n)
      BY <2>1, WordsSized
    <2>12. ASSUME NEW r \in 0 .. n - 1, NEW c \in 0 .. n - 1
           PROVE  WordsKept(d, typed, n, type, test, r, c)
      BY <2>1, WordsStay
    <2>4. \A b \in BOOLEAN : Module(b) # "null" /\ Module(~test /\ b) = Module(b)
      BY <2>2 DEF Module
    <2>5. \A r, c \in 0 .. n - 1 : d[r][c] # "null" => _modules[r][c] = d[r][c]
      BY <2>1 DEF Kept, DrawnNow
    <2>7. ASSUME NEW i \in 0 .. 14
          PROVE  /\ _modules[Vertical(n, i)][8] = Module(Bit(info, i) = 1)
                 /\ _modules[8][Horizontal(n, i)] = Module(Bit(info, i) = 1)
      <3>1. PICK r \in 0 .. n - 1 : r = Vertical(n, i) /\ InfoAt(n, r, 8)
                 /\ typed[r][8] = Module(~test /\ Bit(info, i) = 1)
        BY <2>3, <2>11, InfoDrawn
      <3>2. PICK c \in 0 .. n - 1 : c = Horizontal(n, i) /\ InfoAt(n, 8, c)
                 /\ typed[8][c] = Module(~test /\ Bit(info, i) = 1)
        BY <2>3, <2>11, InfoDrawn
      <3>3. 8 \in 0 .. n - 1
        BY <2>3
      <3>4. d[r][8] = typed[r][8] /\ d[8][c] = typed[8][c]
        <4> HIDE DEF d, typed
        <4>1. WordsKept(d, typed, n, type, test, r, 8) /\ WordsKept(d, typed, n, type, test, 8, c)
          BY <2>12, <3>3
        <4> QED BY <3>1, <3>2, <4>1 DEF WordsKept
      <3> HIDE DEF d, typed, info
      <3>5. _modules[r][8] = Module(Bit(info, i) = 1) /\ _modules[8][c] = Module(Bit(info, i) = 1)
        BY <2>4, <2>5, <3>1, <3>2, <3>3, <3>4
      <3> QED BY <3>1, <3>2, <3>5
    <2>8. ASSUME type >= 7, NEW k \in 1 .. 18, NEW long \in 0 .. 5, NEW short \in 0 .. 2, k - 1 = 3 * long + short
          PROVE  /\ _modules[long][n - 11 + short] = Module(Bit(number, k - 1) = 1)
                 /\ _modules[n - 11 + short][long] = Module(Bit(number, k - 1) = 1)
      <3>1. PICK e \in 0 .. n - 1 : e = n - 11 + short
        BY <2>3
      <3>2. long \in 0 .. n - 1 /\ k - 1 \in 0 .. 17
        BY <2>3
      <3>4. setupTypeNumber(typed, n, type, test)[long][e] = Module(~test /\ Bit(number, k - 1) = 1)
            /\ setupTypeNumber(typed, n, type, test)[e][long] = Module(~test /\ Bit(number, k - 1) = 1)
        <4> HIDE DEF typed, number
        <4>1. PICK m : m = typed
          OBVIOUS
        <4>2. PICK i \in 0 .. 17 : i = k - 1 /\ i = 3 * long + short
          BY <2>8, <3>2
        <4>3. PICK word : word = number
          OBVIOUS
        <4>4. word = getBCHTypeNumber(type) /\ Sized(m, n)
          BY <2>11, <4>1, <4>3 DEF number
        <4>5. setupTypeNumber(m, n, type, test)[long][n - 11 + short] = Module(~test /\ Bit(word, i) = 1)
              /\ setupTypeNumber(m, n, type, test)[n - 11 + short][long] = Module(~test /\ Bit(word, i) = 1)
          BY <2>3, <4>2, <4>4, NumberDrawn
        <4> QED BY <3>1, <4>1, <4>2, <4>3, <4>5
      <3>5. d[long][e] = setupTypeNumber(typed, n, type, test)[long][e]
            /\ d[e][long] = setupTypeNumber(typed, n, type, test)[e][long]
        <4>1. ASSUME NEW r \in 0 .. n - 1, NEW c \in 0 .. n - 1
              PROVE  d[r][c] = setupTypeNumber(typed, n, type, test)[r][c]
          <5> HIDE DEF d, typed
          <5> QED BY <2>8, <2>12 DEF WordsKept
        <4>2. long \in 0 .. n - 1
          BY <3>2
        <4> HIDE DEF d, typed
        <4> QED BY <4>1, <4>2
      <3> HIDE DEF d, typed, number
      <3> QED BY <2>4, <2>5, <3>1, <3>2, <3>4, <3>5
    <2>9. ASSUME NEW cells \in FormatCopies(n), NEW k \in 1 .. 15
          PROVE  Looks(_modules, cells[k], Bit(info, k - 1) = 1)
      <3>1. cells[k] \in {<<Vertical(n, k - 1), 8>>, <<8, Horizontal(n, k - 1)>>}
        BY <2>3, CopiesAre
      <3>2. k - 1 \in 0 .. 14
        OBVIOUS
      <3> HIDE DEF info
      <3> QED BY <2>7, <3>1, <3>2 DEF Looks, Module
    <2>10. ASSUME type >= 7, NEW k \in 1 .. 18
           PROVE  Looks(_modules, <<(k - 1) \div 3, n - 11 + ((k - 1) % 3)>>, Bit(number, k - 1) = 1)
                  /\ Looks(_modules, <<n - 11 + ((k - 1) % 3), (k - 1) \div 3>>, Bit(number, k - 1) = 1)
      <3>1. PICK long \in 0 .. 5, short \in 0 .. 2 :
              long = (k - 1) \div 3 /\ short = (k - 1) % 3 /\ k - 1 = 3 * long + short
        OBVIOUS
      <3> HIDE DEF number
      <3>2. /\ _modules[long][n - 11 + short] = Module(Bit(number, k - 1) = 1)
            /\ _modules[n - 11 + short][long] = Module(Bit(number, k - 1) = 1)
        BY <2>8, <2>10, <3>1
      <3> QED BY <3>1, <3>2 DEF Looks, Module
    <2> HIDE DEF d, typed
    <2> QED BY <2>1, <2>9, <2>10 DEF WordsDrawn
  <1> QED BY <1>1, <1>2, <1>3, PTL DEF Spec

-----------------------------------------------------------------------------
(* The path goes through all modules but those of column 6.                *)
LEMMA OnPath ==
  ASSUME NEW type \in 1 .. 40, NEW n \in Nat, n = type * 4 + 17,
         NEW r \in 0 .. n - 1, NEW c \in 0 .. n - 1, c # 6
  PROVE  \E k \in 1 .. n * (n - 1) : Path(n)[k] = <<r, c>>
  <1>1. \E p \in Nat : 2 * p <= n - 3 /\ c \in {Right(n, p), Right(n, p) - 1}
    <2>1. PICK h \in Nat : n = 2 * h + 1
      <3>1. type * 2 + 8 \in Nat /\ n = 2 * (type * 2 + 8) + 1
        OBVIOUS
      <3> QED BY <3>1
    <2>2. CASE c > 6
      <3>1. PICK p \in Nat : p = (n - 1 - c) \div 2
        OBVIOUS
      <3>2. 2 * p <= n - 3 /\ c \in {Right(n, p), Right(n, p) - 1}
        BY <2>1, <2>2, <3>1 DEF Right
      <3> QED BY <3>2
    <2>3. CASE c < 6
      <3>1. PICK p \in Nat : p = (n - 2 - c) \div 2
        BY <2>3
      <3>2. 2 * p <= n - 3 /\ c \in {Right(n, p), Right(n, p) - 1}
        BY <2>1, <2>3, <3>1 DEF Right
      <3> QED BY <3>2
    <2> QED BY <2>2, <2>3
  <1>2. PICK p \in Nat : 2 * p <= n - 3 /\ c \in {Right(n, p), Right(n, p) - 1}
    BY <1>1
  <1>3. PICK right \in Int : right = Right(n, p)
    <2>1. Right(n, p) \in Int
      BY <1>2 DEF Right
    <2> QED BY <2>1
  <1>4. n >= 1
    OBVIOUS
  <1>5. PICK w \in 0 .. 2 * n - 1 : StepIs(n, p, right, r, c, w)
    BY <1>2, <1>3, <1>4, StepsOfPair
  <1>6. PICK q \in Nat : q = p * (2 * n)
    OBVIOUS
  <1>7. q + 2 * n <= n * (n - 1)
    <2>1. p * (2 * n) + 2 * n = (p + 1) * (2 * n) /\ (p + 1) * (2 * n) <= n * (n - 1)
      <3>1. Advances(n, p)
        BY <1>2, NextColumn
      <3> QED BY <3>1 DEF Advances
    <2> QED BY <1>6, <2>1
  <1>8. q + w + 1 \in 1 .. n * (n - 1)
    <2>1. PICK e \in Int : e = n * (n - 1)
      OBVIOUS
    <2> QED BY <1>7, <2>1
  <1>9. Path(n)[q + w + 1] = Step(n, p, w)
    <2>1. p * (2 * n) + w + 1 <= n * (n - 1)
      BY <1>6, <1>8
    <2>2. Path(n)[p * (2 * n) + w + 1] = Step(n, p, w)
      BY <1>4, <2>1, PathStep
    <2> QED BY <1>6, <2>2
  <1> QED BY <1>5, <1>8, <1>9 DEF StepIs

-----------------------------------------------------------------------------
(* The whole drawing for a mask: the patterns, and in the place of every   *)
(* other module the bit of the codewords that the path brings there.       *)
CodeBit(k) ==
  LET codewords == createData(_typeNumber, request.level, _dataList)
  IN k < 8 * Len(codewords) /\ Bit(codewords[k \div 8 + 1], 7 - (k % 8)) = 1

(* Where the path comes to a module.                                       *)
PlaceOf(n, r, c) == CHOOSE k \in 1 .. n * (n - 1) : Path(n)[k] = <<r, c>>

(* The drawing.                                                            *)
Whole(isTest, mask) ==
  LET n == _moduleCount
      patterns == Patterns(n, _typeNumber, request.level, isTest, mask)
      number(r, c) == Cardinality(Held(n, _typeNumber, PlaceOf(n, r, c) - 1))
  IN [r \in 0 .. n - 1 |-> [c \in 0 .. n - 1 |->
       IF patterns[r][c] # "null" THEN patterns[r][c]
       ELSE Module(CodeBit(number(r, c)) # getMaskFunction(mask, r, c))]]

(* That is what is drawn.                                                  *)
LEMMA WholeIsDrawn ==
  ASSUME SymbolInv, EncoderInv, Kept, Cached, Placed, pc \in {"score", "made"}
  PROVE  _modules = Whole(test, maskPattern)
  <1>1. PICK type \in 1 .. 40, n \in Nat : type = _typeNumber /\ n = _moduleCount /\ n = type * 4 + 17
    BY DEF SymbolInv, EncoderInv, _moduleCount
  <1> DEFINE d == Patterns(n, type, request.level, test, maskPattern)
             number(r, c) == Cardinality(Held(n, type, PlaceOf(n, r, c) - 1))
             cell(r, c) == IF d[r][c] # "null" THEN d[r][c]
                           ELSE Module(CodeBit(number(r, c)) # getMaskFunction(maskPattern, r, c))
  <1>2. Whole(test, maskPattern) = [r \in 0 .. n - 1 |-> [c \in 0 .. n - 1 |-> cell(r, c)]]
    BY <1>1 DEF Whole
  <1>3. _modules \in [0 .. n - 1 -> [0 .. n - 1 -> Cells]]
    BY <1>1 DEF SymbolInv, Matrix
  <1>4. \A k : CodeBit(k) = DataBit(k)
    BY DEF CodeBit, DataBit, Cached
  <1>5. ASSUME NEW r \in 0 .. n - 1, NEW c \in 0 .. n - 1
        PROVE  _modules[r][c] = cell(r, c)
    <2>1. d[r][c] # "null" <=> <<r, c>> \in Taken(n, type)
      <3>1. d[r][c] # "null" <=> DrawnAt(n, type, r, c)
        BY <1>1, PatternsDrawnAt
      <3> HIDE DEF d
      <3>2. DrawnAt(n, type, r, c) <=> <<r, c>> \in Taken(n, type)
        BY <1>1, DrawnIsTaken
      <3> QED BY <3>1, <3>2
    <2>2. CASE d[r][c] # "null"
      BY <1>1, <2>2 DEF Kept, DrawnNow
    <2>3. CASE d[r][c] = "null"
      <3>1. c # 6
        <4>1. CASE c = 6
          <5>1. Full(d, n, 6)
            BY <1>1, PatternsDrawn
          <5> QED BY <2>3, <4>1, <5>1 DEF Full
        <4> QED BY <4>1
      <3>2. PICK k \in 1 .. n * (n - 1) : k = PlaceOf(n, r, c) /\ Path(n)[k] = <<r, c>>
        BY <1>1, <3>1, OnPath DEF PlaceOf
      <3>3. DataRead(n, type, k)
        BY <1>1 DEF Placed
      <3>4. _modules[r][c] = Module(DataBit(number(r, c)) # getMaskFunction(maskPattern, r, c))
        BY <2>1, <2>3, <3>2, <3>3 DEF DataRead
      <3> HIDE DEF d, number
      <3> QED BY <1>4, <2>3, <3>4
    <2> QED BY <2>2, <2>3
  <1> HIDE DEF cell
  <1> QED BY <1>2, <1>3, <1>5

(* What a test drawing with a mask costs.                                  *)
Penalty(mask) == getLostPoint(Whole(TRUE, mask), _moduleCount)

(* The first of the masks up to k with the lowest penalty leads.           *)
Leading(k) ==
  /\ pattern \in 0 .. k /\ minLostPoint = Penalty(pattern)
  /\ \A j \in 0 .. k : minLostPoint <= Penalty(j)
  /\ \A j \in 0 .. pattern - 1 : minLostPoint < Penalty(j)

(* The masks that have been tested lead to the one that is drawn.          *)
Scored ==
  /\ pc = "score" => test
  /\ pc \in {"draw", "cache", "map", "score"} /\ test /\ maskPattern > 0 => Leading(maskPattern - 1)
  /\ pc \in {"draw", "cache", "map", "made"} /\ ~test => Leading(7) /\ maskPattern = pattern

(* There is no test yet.                                                   *)
LEMMA ScoredInit == Init => Scored
  BY DEF Init, SymbolInit, Scored

(* One more mask has been scored.                                          *)
LEMMA ScoredByScore ==
  ASSUME SymbolInv, EncoderInv, Kept, Cached, Placed, Scored, Score
  PROVE  Scored'
  <1> DEFINE lostPoint == getLostPoint(_modules, _moduleCount)
             better == maskPattern = 0 \/ minLostPoint > lostPoint
  <1>1. /\ pc = "score" /\ pc' = "draw" /\ UNCHANGED <<request, _dataList, _typeNumber>>
        /\ minLostPoint' = (IF better THEN lostPoint ELSE minLostPoint)
        /\ pattern' = (IF better THEN maskPattern ELSE pattern)
        /\ maskPattern < 7 => test' = TRUE /\ maskPattern' = maskPattern + 1
        /\ ~(maskPattern < 7) => test' = FALSE /\ maskPattern' = pattern'
    BY DEF Score, makeImpl
  <1>2. maskPattern \in 0 .. 7 /\ _moduleCount \in Nat
    <2>1. maskPattern \in 0 .. 7 /\ _typeNumber \in 0 .. 40
      BY DEF SymbolInv, Kinds, EncoderInv
    <2> QED BY <2>1 DEF _moduleCount
  <1>3. lostPoint = Penalty(maskPattern)
    <2>1. _modules = Whole(TRUE, maskPattern)
      <3>1. test = TRUE
        BY <1>1 DEF Scored, SymbolInv, Kinds
      <3> QED BY <1>1, <3>1, WholeIsDrawn
    <2> QED BY <2>1 DEF Penalty
  <1>4. \A j : Penalty(j)' = Penalty(j)
    BY <1>1 DEF Penalty, Whole, CodeBit, _moduleCount
  <1>5. \A j : Penalty(j) \in Nat
    BY <1>2, LostPointType DEF Penalty
  <1>6. maskPattern > 0 => Leading(maskPattern - 1)
    BY <1>1 DEF Scored
  <1> HIDE DEF lostPoint
  <1>7. PICK mask \in 0 .. 7 : mask = maskPattern
    BY <1>2
  <1>8. Leading(mask)'
    <2>1. /\ pattern' \in 0 .. mask /\ minLostPoint' = Penalty(pattern')
          /\ \A j \in 0 .. mask : minLostPoint' <= Penalty(j)
          /\ \A j \in 0 .. pattern' - 1 : minLostPoint' < Penalty(j)
      <3>1. CASE better
        <4>1. minLostPoint' = Penalty(mask) /\ pattern' = mask
          BY <1>1, <1>3, <1>7, <3>1
        <4>2. ASSUME NEW j \in 0 .. mask - 1 PROVE Penalty(mask) < Penalty(j)
          <5>1. mask > 0 /\ minLostPoint > Penalty(mask)
            BY <1>3, <1>7, <3>1, <4>2
          <5>2. minLostPoint \in Nat /\ minLostPoint <= Penalty(j)
            BY <1>5, <1>6, <1>7, <5>1 DEF Leading
          <5> QED BY <1>5, <5>1, <5>2
        <4>3. \A j \in 0 .. mask : j = mask \/ j \in 0 .. mask - 1
          OBVIOUS
        <4> QED BY <1>5, <4>1, <4>2, <4>3
      <3>2. CASE ~better
        <4>1. minLostPoint' = minLostPoint /\ pattern' = pattern /\ mask > 0
          BY <1>1, <1>7, <3>2
        <4>2. Leading(mask - 1)
          BY <1>6, <1>7, <4>1
        <4>3. minLostPoint <= Penalty(mask)
          <5>1. minLostPoint \in Nat
            BY <1>5, <4>2 DEF Leading
          <5> QED BY <1>3, <1>5, <1>7, <3>2, <5>1
        <4>4. \A j \in 0 .. mask : j = mask \/ j \in 0 .. mask - 1
          OBVIOUS
        <4> QED BY <4>1, <4>2, <4>3, <4>4 DEF Leading
      <3> QED BY <3>1, <3>2
    <2> QED BY <1>4, <2>1 DEF Leading
  <1>9. CASE mask < 7
    <2>1. pc' = "draw" /\ test' = TRUE /\ maskPattern' = mask + 1 /\ mask + 1 - 1 = mask
      BY <1>1, <1>7, <1>9
    <2> QED BY <1>8, <2>1 DEF Scored
  <1>10. CASE ~(mask < 7)
    <2>1. pc' = "draw" /\ test' = FALSE /\ maskPattern' = pattern' /\ mask = 7
      BY <1>1, <1>7, <1>10
    <2> QED BY <1>8, <2>1 DEF Scored
  <1> QED BY <1>9, <1>10

(* A step compares the mask of the test that was drawn with the best so    *)
(* far.                                                                    *)
LEMMA ScoredStep ==
  ASSUME SymbolInv, EncoderInv, Kept, Cached, Placed, Scored, [Next]_vars
  PROVE  Scored'
  <1>1. CASE Make
    <2>1. pc' = "thrown" \/ (pc' = "draw" /\ test' = TRUE /\ maskPattern' = 0)
      BY <1>1 DEF Make, Throw, makeImpl
    <2> QED BY <2>1 DEF Scored
  <1>2. CASE AddData
    <2>1. pc' = "make"
      BY <1>2 DEF AddData
    <2> QED BY <2>1 DEF Scored
  <1>3. CASE Score
    BY <1>3, ScoredByScore
  <1>4. ASSUME UNCHANGED <<request, _dataList, _typeNumber, test, maskPattern, best>>,
               \/ pc' \in {pc, "thrown"}
               \/ pc = "draw" /\ pc' = "cache"
               \/ pc = "cache" /\ pc' = "map"
               \/ pc = "map" /\ pc' = "score" /\ test
               \/ pc = "map" /\ pc' = "made" /\ ~test
        PROVE  Scored'
    <2>1. \A j : Penalty(j)' = Penalty(j)
      BY <1>4 DEF Penalty, Whole, CodeBit, _moduleCount
    <2>2. UNCHANGED <<test, maskPattern, minLostPoint, pattern>>
      BY <1>4 DEF best
    <2>3. \A k : Leading(k)' <=> Leading(k)
      BY <2>1, <2>2 DEF Leading
    <2> QED BY <1>4, <2>2, <2>3 DEF Scored
  <1>5. CASE DrawPatterns
    BY <1>4, <1>5 DEF DrawPatterns
  <1>6. CASE Cache
    BY <1>4, <1>6 DEF Cache, Throw
  <1>7. CASE MapColumn
    <2>1. pc = "map" /\ UNCHANGED <<request, _dataList, _typeNumber, test, maskPattern, best>>
          /\ pc' = (CASE SkipTiming(col) - 2 > 0 -> "map"
                     [] SkipTiming(col) - 2 <= 0 /\ test -> "score"
                     [] SkipTiming(col) - 2 <= 0 /\ ~test -> "made")
      BY <1>7 DEF MapColumn
    <2>2. SkipTiming(col) \in Int /\ test \in BOOLEAN
      <3>1. col \in -1 .. 176 /\ test \in BOOLEAN
        BY DEF SymbolInv, Kinds
      <3> QED BY <3>1 DEF SkipTiming
    <2>3. pc' = "map" \/ (pc' = "score" /\ test) \/ (pc' = "made" /\ ~test)
      BY <2>1, <2>2
    <2> QED BY <1>4, <2>1, <2>3
  <1>8. CASE UNCHANGED symbolVars
    BY <1>4, <1>8 DEF symbolVars
  <1> QED BY <1>1, <1>2, <1>3, <1>5, <1>6, <1>7, <1>8
          DEF Next, Symbol, SymbolNext, CreateDataURL, WriteImage, vars

(* A finished symbol is the drawing of its data for the first mask whose   *)
(* test drawing has the lowest penalty of the eight: nothing else, not     *)
(* what was drawn before either, has a part in it.                         *)
BestDrawn ==
  pc = "made" =>
    /\ _modules = Whole(FALSE, maskPattern)
    /\ \A j \in 0 .. 7 : Penalty(maskPattern) <= Penalty(j)
    /\ \A j \in 0 .. maskPattern - 1 : Penalty(maskPattern) < Penalty(j)

(* The symbol that is finished has the first of the eight masks whose test *)
(* drawing has the lowest penalty, and is the drawing of that mask and of  *)
(* the present data from a blank matrix: neither the tests, nor a symbol   *)
(* that was made before, leave a trace in it (getBestMaskPattern,          *)
(* makeImpl).                                                              *)
THEOREM BestIsDrawn == Spec => []BestDrawn
  <1> DEFINE Inv == EncoderInv /\ SymbolInv /\ Kept /\ Cached /\ Placed /\ Scored
                      /\ RasterInv /\ StreamInv /\ ImageInv
  <1>1. Init => Inv
    BY EncoderInvInit, SymbolInvInit, KeptInit, CachedInit, ScoredInit, ImageInvInit DEF Init
  <1>2. Inv /\ [Next]_vars => Inv'
    BY EncoderInvStep, SymbolInvStep, KeptStep, CachedStep, PlacedStep, ScoredStep, ImageInvStep
  <1>3. Inv => BestDrawn
    <2> SUFFICES ASSUME Inv, pc = "made" PROVE BestDrawn
      BY DEF BestDrawn
    <2>1. test = FALSE
      BY DEF Kept, SymbolInv, Kinds
    <2>2. _modules = Whole(FALSE, maskPattern)
      BY <2>1, WholeIsDrawn
    <2>3. Leading(7) /\ maskPattern = pattern
      BY <2>1 DEF Scored
    <2> QED BY <2>2, <2>3 DEF BestDrawn, Leading
  <1> QED BY <1>1, <1>2, <1>3, PTL DEF Spec
=============================================================================
