-------------------------- MODULE FormFieldsProofs --------------------------
(***************************************************************************)
(* Proofs about the values of the form (FormFields): what the conversions  *)
(* lose, for every number and colour; then that a schedule comes back as   *)
(* it was saved, that the sliders follow the colour, and what a save is    *)
(* refused for.                                                            *)
(***************************************************************************)
EXTENDS FormFields, TLAPS

-----------------------------------------------------------------------------
(* What the conversions compute *)

\* Rounded is off by at most a half.
LEMMA RoundedIs ==
    ASSUME NEW n \in Int, NEW d \in Nat \ {0}, NEW r \in Rounded(n, d)
    PROVE  /\ r \in Int
           /\ 2 * (r * d) - 2 * n <= d /\ 2 * n - 2 * (r * d) <= d
<1>. DEFINE a == 2 * n + d
            b == 2 * d
            up == a \div b
<1>1. a \in Int /\ b \in Nat \ {0}
    OBVIOUS
<1>2. up \in Int /\ a = b * up + (a % b) /\ a % b \in 0..(b - 1)
    <2>. HIDE DEF a, b
    <2>. QED BY <1>1
<1>3. r = up \/ (r = up - 1 /\ a % b = 0)
    BY DEF Rounded
<1>. HIDE DEF up
<1>4. CASE r = up
    BY <1>2, <1>4
<1>5. CASE r = up - 1 /\ a % b = 0
    BY <1>2, <1>5
<1>. QED BY <1>3, <1>4, <1>5

LEMMA DaysKept ==
    ASSUME NEW days \in SUBSET Days
    PROVE  /\ GetDaysOfWeekBitmask(days) \in 0..127
           /\ SetDayToggles(GetDaysOfWeekBitmask(days)) = days
<1>. DEFINE mask(d) == IF d \in days THEN Bit[d + 1] ELSE 0
            m == GetDaysOfWeekBitmask(days)
<1>1. m = mask(0) + mask(1) + mask(2) + mask(3) + mask(4) + mask(5) + mask(6)
    BY DEF GetDaysOfWeekBitmask
<1>2. /\ Bit[0 + 1] = 1 /\ Bit[1 + 1] = 2 /\ Bit[2 + 1] = 4 /\ Bit[3 + 1] = 8
      /\ Bit[4 + 1] = 16 /\ Bit[5 + 1] = 32 /\ Bit[6 + 1] = 64
    BY DEF Bit
<1>3. /\ mask(0) \in {0, 1} /\ mask(1) \in {0, 2} /\ mask(2) \in {0, 4} /\ mask(3) \in {0, 8}
      /\ mask(4) \in {0, 16} /\ mask(5) \in {0, 32} /\ mask(6) \in {0, 64}
      /\ 0 \in days <=> mask(0) = 1
      /\ 1 \in days <=> mask(1) = 2
      /\ 2 \in days <=> mask(2) = 4
      /\ 3 \in days <=> mask(3) = 8
      /\ 4 \in days <=> mask(4) = 16
      /\ 5 \in days <=> mask(5) = 32
      /\ 6 \in days <=> mask(6) = 64
    BY <1>2
<1>. HIDE DEF mask, m
<1>4. m \in 0..127
    BY <1>1, <1>3
<1>5. /\ (m \div 1) % 2 = 1 <=> 0 \in days
      /\ (m \div 2) % 2 = 1 <=> 1 \in days
      /\ (m \div 4) % 2 = 1 <=> 2 \in days
      /\ (m \div 8) % 2 = 1 <=> 3 \in days
      /\ (m \div 16) % 2 = 1 <=> 4 \in days
      /\ (m \div 32) % 2 = 1 <=> 5 \in days
      /\ (m \div 64) % 2 = 1 <=> 6 \in days
    <2>1. (m \div 1) % 2 = 1 <=> 0 \in days
        BY <1>1, <1>3, SMTT(30)
    <2>2. (m \div 2) % 2 = 1 <=> 1 \in days
        BY <1>1, <1>3, SMTT(30)
    <2>3. (m \div 4) % 2 = 1 <=> 2 \in days
        BY <1>1, <1>3, SMTT(30)
    <2>4. (m \div 8) % 2 = 1 <=> 3 \in days
        BY <1>1, <1>3, SMTT(30)
    <2>5. (m \div 16) % 2 = 1 <=> 4 \in days
        BY <1>1, <1>3, SMTT(30)
    <2>6. (m \div 32) % 2 = 1 <=> 5 \in days
        BY <1>1, <1>3, SMTT(30)
    <2>7. (m \div 64) % 2 = 1 <=> 6 \in days
        BY <1>1, <1>3, SMTT(30)
    <2>. QED BY <2>1, <2>2, <2>3, <2>4, <2>5, <2>6, <2>7
<1>6. \A d \in Days : (m \div Bit[d + 1]) % 2 = 1 <=> d \in days
    BY <1>2, <1>5 DEF Days
<1>. QED BY <1>4, <1>6 DEF SetDayToggles, m

LEMMA HexKept ==
    /\ \A rgb \in Colours :
          RgbToHex(rgb) \in Hexes /\ HexToRgb(RgbToHex(rgb)) = rgb
    /\ \A hex \in Hexes :
          HexToRgb(hex) \in Colours /\ RgbToHex(HexToRgb(hex)) = hex
<1>1. ASSUME NEW r \in Bytes, NEW g \in Bytes, NEW b \in Bytes
      PROVE  LET hex == (r * 256 + g) * 256 + b IN
             /\ hex \in Hexes
             /\ hex \div 65536 = r /\ (hex \div 256) % 256 = g /\ hex % 256 = b
    <2>. DEFINE hex == (r * 256 + g) * 256 + b
    <2>1. r \in 0..255 /\ g \in 0..255 /\ b \in 0..255
        BY DEF Bytes
    <2>2. hex \in Nat /\ hex < 16777216 /\ hex \div 65536 = r
        BY <2>1, SMT
    <2>3. hex \div 256 = r * 256 + g /\ hex % 256 = b
        BY <2>1, SMT
    <2>4. (r * 256 + g) % 256 = g
        BY <2>1, SMT
    <2>. QED BY <2>2, <2>3, <2>4, SMT DEF Hexes
<1>2. ASSUME NEW hex \in Hexes
      PROVE  /\ hex \div 65536 \in Bytes /\ (hex \div 256) % 256 \in Bytes /\ hex % 256 \in Bytes
             /\ ((hex \div 65536) * 256 + ((hex \div 256) % 256)) * 256 + (hex % 256) = hex
    <2>. DEFINE q == hex \div 256
    <2>1. hex \in Nat /\ hex < 16777216
        BY SMT DEF Hexes
    <2>2. q \in Nat /\ q < 65536 /\ hex = 256 * q + (hex % 256) /\ hex % 256 \in 0..255
        BY <2>1, SMT
    <2>3. hex \div 65536 = q \div 256
        BY <2>1, SMT
    <2>. HIDE DEF q
    <2>4. q = 256 * (q \div 256) + (q % 256) /\ q \div 256 \in 0..255 /\ q % 256 \in 0..255
        BY <2>2, SMT
    <2>. QED BY <2>2, <2>3, <2>4, SMT DEF Bytes, q
<1>3. ASSUME NEW rgb \in Colours
      PROVE  RgbToHex(rgb) \in Hexes /\ HexToRgb(RgbToHex(rgb)) = rgb
    <2>1. rgb = <<rgb[1], rgb[2], rgb[3]>> /\ rgb[1] \in Bytes /\ rgb[2] \in Bytes /\ rgb[3] \in Bytes
        BY DEF Colours
    <2>2. RgbToHex(rgb) = (rgb[1] * 256 + rgb[2]) * 256 + rgb[3]
        BY SMT DEF RgbToHex
    <2>3. /\ RgbToHex(rgb) \div 65536 = rgb[1] /\ (RgbToHex(rgb) \div 256) % 256 = rgb[2]
          /\ RgbToHex(rgb) % 256 = rgb[3] /\ RgbToHex(rgb) \in Hexes
        BY <2>1, <2>2, <1>1, SMT
    <2>. QED BY <2>1, <2>3, SMT DEF HexToRgb, Colours
<1>4. ASSUME NEW hex \in Hexes
      PROVE  HexToRgb(hex) \in Colours /\ RgbToHex(HexToRgb(hex)) = hex
    BY <1>2, SMT DEF HexToRgb, RgbToHex, Colours
<1>. QED BY <1>3, <1>4

\* A percentage of the slider comes back from the brightness that is stored.
LEMMA PercentKept ==
    ASSUME NEW pct \in 1..100, NEW bri \in PercentToBri(pct)
    PROVE  bri \in Bytes /\ \A p \in BriToPercent(bri) : Slider(p) = pct
<1>1. bri \in Int /\ 200 * bri - 510 * pct <= 100 /\ 510 * pct - 200 * bri <= 100
    BY RoundedIs DEF PercentToBri
<1>2. ASSUME NEW p \in BriToPercent(bri) PROVE p = pct
    <2>1. p \in Int /\ 510 * p - 200 * bri <= 255 /\ 200 * bri - 510 * p <= 255
        BY <1>1, <1>2, RoundedIs DEF BriToPercent
    <2>. QED BY <1>1, <2>1
<1>. QED BY <1>1, <1>2 DEF Bytes, Slider

LEMMA PercentTypes ==
    ASSUME NEW bri \in Bytes, NEW p \in BriToPercent(bri)
    PROVE  Slider(p) \in 1..100
<1>1. p \in Int /\ 510 * p - 200 * bri <= 255 /\ 200 * bri - 510 * p <= 255
    BY RoundedIs DEF BriToPercent, Bytes
<1>. QED BY <1>1 DEF Slider, Bytes

\* What Top, Largest and Spread find.
LEMMA Channel ==
    ASSUME NEW rgb \in Colours
    PROVE  /\ Top(rgb) \in Channels /\ Largest(rgb) = rgb[Top(rgb)] /\ Largest(rgb) \in Bytes
           /\ \A i \in Channels : rgb[i] \in Bytes /\ rgb[i] <= Largest(rgb)
           /\ \E v \in Channels : Spread(rgb) = Largest(rgb) - rgb[v] /\ \A w \in Channels : rgb[v] <= rgb[w]
<1>1. rgb[1] \in Bytes /\ rgb[2] \in Bytes /\ rgb[3] \in Bytes
    BY DEF Colours
<1>2. \A i \in Channels : rgb[i] \in Int /\ rgb[i] \in Bytes
    BY <1>1 DEF Channels, Bytes
<1>3. Channels = {1, 2, 3}
    BY DEF Channels
<1>4. \E v \in Channels : \A w \in Channels : rgb[w] <= rgb[v]
    BY <1>2, <1>3
<1>5. Top(rgb) \in Channels /\ \A w \in Channels : rgb[w] <= rgb[Top(rgb)]
    BY <1>4 DEF Top
<1>6. \E v \in Channels : \A w \in Channels : rgb[v] <= rgb[w]
    BY <1>2, <1>3
<1>. DEFINE Least(v) == v \in {rgb[w] : w \in Channels} /\ \A w \in Channels : v <= rgb[w]
            least == CHOOSE v \in {rgb[w] : w \in Channels} : \A w \in Channels : v <= rgb[w]
<1>7. \E v \in {rgb[w] : w \in Channels} : \A w \in Channels : v <= rgb[w]
    BY <1>6
<1>8. least \in {rgb[w] : w \in Channels} /\ \A w \in Channels : least <= rgb[w]
    BY <1>7
<1>9. Spread(rgb) = Largest(rgb) - least
    BY DEF Spread
<1>. HIDE DEF least
<1>. QED BY <1>2, <1>5, <1>8, <1>9 DEF Largest

\* The spread is the largest distance of two channels.
LEMMA SpreadIs ==
    ASSUME NEW rgb \in Colours
    PROVE  /\ Spread(rgb) \in Int /\ 0 <= Spread(rgb) /\ Spread(rgb) <= Largest(rgb)
           /\ rgb[1] \in Int /\ rgb[2] \in Int /\ rgb[3] \in Int
           /\ rgb[1] - rgb[3] <= Spread(rgb) /\ rgb[2] - rgb[1] <= Spread(rgb) /\ rgb[1] - rgb[2] <= Spread(rgb)
           /\ rgb[3] - rgb[1] <= Spread(rgb) /\ rgb[2] - rgb[3] <= Spread(rgb) /\ rgb[3] - rgb[2] <= Spread(rgb)
           /\ \A i \in Channels : Spread(rgb) >= Largest(rgb) - rgb[i]
           /\ \E i \in Channels : Spread(rgb) = Largest(rgb) - rgb[i]
<1>1. PICK v \in Channels : Spread(rgb) = Largest(rgb) - rgb[v] /\ \A w \in Channels : rgb[v] <= rgb[w]
    BY Channel
<1>2. /\ Largest(rgb) \in Int /\ 0 <= Largest(rgb) /\ Largest(rgb) <= 255
      /\ \A i \in Channels : rgb[i] \in Int /\ 0 <= rgb[i] /\ rgb[i] <= Largest(rgb)
    BY Channel DEF Bytes
<1>3. ASSUME NEW i \in Channels
      PROVE  rgb[i] \in Int /\ rgb[i] <= Largest(rgb) /\ rgb[v] <= rgb[i]
    BY <1>1, <1>2
<1>4. rgb[v] \in Int /\ 0 <= rgb[v] /\ rgb[v] <= Largest(rgb)
    BY <1>2
<1>5. 1 \in Channels /\ 2 \in Channels /\ 3 \in Channels
    BY DEF Channels
<1>6. /\ rgb[1] \in Int /\ rgb[1] <= Largest(rgb) /\ rgb[v] <= rgb[1]
      /\ rgb[2] \in Int /\ rgb[2] <= Largest(rgb) /\ rgb[v] <= rgb[2]
      /\ rgb[3] \in Int /\ rgb[3] <= Largest(rgb) /\ rgb[v] <= rgb[3]
    BY <1>3, <1>5
<1>7. \A i \in Channels : Spread(rgb) >= Largest(rgb) - rgb[i]
    BY <1>1, <1>2, <1>3, <1>4
<1>. QED BY <1>1, <1>2, <1>4, <1>6, <1>7

\* A hue is an angle, a saturation a percentage.
LEMMA HueTypes ==
    ASSUME NEW rgb \in Colours, NEW hs \in RgbToHs(rgb)
    PROVE  hs[1] \in Degrees /\ hs[2] \in PerCent
<1>. DEFINE d == Spread(rgb)
            l == Largest(rgb)
            n == CASE Top(rgb) = 1 -> 60 * (rgb[2] - rgb[3])
                   [] Top(rgb) = 2 -> 60 * (rgb[3] - rgb[1]) + 120 * d
                   [] OTHER -> 60 * (rgb[1] - rgb[2]) + 240 * d
            turned == IF n < 0 THEN n + 360 * d ELSE n
<1>1. /\ d \in 0..255 /\ l \in 0..255 /\ d <= l
      /\ \A v, w \in Channels : rgb[v] \in Int /\ rgb[w] \in Int /\ rgb[v] - rgb[w] <= d
    <2>1. PICK v \in Channels : d = l - rgb[v] /\ \A w \in Channels : rgb[v] <= rgb[w]
        BY Channel
    <2>2. /\ l \in Int /\ 0 <= l /\ l <= 255
          /\ \A i \in Channels : rgb[i] \in Int /\ 0 <= rgb[i] /\ rgb[i] <= l
        BY Channel DEF Bytes
    <2>. HIDE DEF d, l, n, turned
    <2>3. rgb[v] \in Int /\ 0 <= rgb[v] /\ rgb[v] <= l
        BY <2>2
    <2>4. d \in 0..255 /\ d <= l
        BY <2>1, <2>2, <2>3
    <2>5. ASSUME NEW i \in Channels, NEW w \in Channels
          PROVE  rgb[i] \in Int /\ rgb[w] \in Int /\ rgb[i] - rgb[w] <= d
        <3>1. rgb[i] \in Int /\ rgb[w] \in Int /\ rgb[i] <= l /\ rgb[v] <= rgb[w]
            BY <2>1, <2>2
        <3>. QED BY <2>1, <2>2, <2>3, <3>1
    <2>. QED BY <2>2, <2>4, <2>5
<1>2. CASE d = 0
    BY <1>2 DEF RgbToHs, Degrees, PerCent
<1>3. CASE d # 0
    <2>1. hs \in Rounded(turned, d) \X Rounded(100 * d, l)
        BY <1>3 DEF RgbToHs
    <2>2. n \in Int /\ - 60 * d <= n /\ n <= 300 * d
        <3>1. 1 \in Channels /\ 2 \in Channels /\ 3 \in Channels
            BY DEF Channels
        <3>2. /\ Top(rgb) = 1 => n = 60 * (rgb[2] - rgb[3])
              /\ Top(rgb) = 2 => n = 60 * (rgb[3] - rgb[1]) + 120 * d
              /\ Top(rgb) \notin {1, 2} => n = 60 * (rgb[1] - rgb[2]) + 240 * d
            OBVIOUS
        <3>. HIDE DEF d, l, n, turned
        <3>3. /\ rgb[2] - rgb[3] \in -d..d /\ rgb[3] - rgb[1] \in -d..d
              /\ rgb[1] - rgb[2] \in -d..d /\ d \in 0..255
            <4>1. rgb[1] \in Int /\ rgb[2] \in Int /\ rgb[3] \in Int /\ d \in 0..255
                BY <1>1, <3>1
            <4>2. /\ rgb[2] - rgb[3] <= d /\ rgb[3] - rgb[2] <= d /\ rgb[3] - rgb[1] <= d
                  /\ rgb[1] - rgb[3] <= d /\ rgb[1] - rgb[2] <= d /\ rgb[2] - rgb[1] <= d
                BY <1>1, <3>1
            <4>. QED BY <4>1, <4>2
        <3>. QED BY <3>2, <3>3
    <2>. HIDE DEF d, l, n
    <2>3. turned \in Int /\ 0 <= turned /\ turned <= 360 * d
        BY <1>1, <2>2
    <2>. HIDE DEF turned
    <2>4. hs[1] \in Rounded(turned, d) /\ hs[2] \in Rounded(100 * d, l)
        BY <2>1
    <2>5. hs[1] \in Int /\ 2 * (hs[1] * d) - 2 * turned <= d /\ 2 * turned - 2 * (hs[1] * d) <= d
        BY <1>1, <1>3, <2>3, <2>4, RoundedIs
    <2>6. hs[2] \in Int /\ 2 * (hs[2] * l) - 200 * d <= l /\ 200 * d - 2 * (hs[2] * l) <= l
        BY <1>1, <1>3, <2>4, RoundedIs
    <2>7. hs[1] >= 0 /\ hs[1] <= 360
        <3>1. ASSUME hs[1] <= -1 PROVE FALSE
            <4>1. hs[1] * d <= - d
                BY <1>1, <1>3, <2>5, <3>1
            <4>. QED BY <1>1, <1>3, <2>3, <2>5, <4>1
        <3>2. ASSUME hs[1] >= 361 PROVE FALSE
            <4>1. hs[1] * d >= 361 * d
                BY <1>1, <1>3, <2>5, <3>2
            <4>. QED BY <1>1, <1>3, <2>3, <2>5, <4>1
        <3>. QED BY <2>5, <3>1, <3>2
    <2>8. hs[2] >= 0 /\ hs[2] <= 100
        <3>1. ASSUME hs[2] <= -1 PROVE FALSE
            <4>1. hs[2] * l <= - l
                BY <1>1, <1>3, <2>6, <3>1
            <4>. QED BY <1>1, <1>3, <2>6, <4>1
        <3>2. ASSUME hs[2] >= 101 PROVE FALSE
            <4>1. hs[2] * l >= 101 * l
                BY <1>1, <1>3, <2>6, <3>2
            <4>. QED BY <1>1, <1>3, <2>6, <4>1
        <3>. QED BY <2>6, <3>1, <3>2
    <2>. QED BY <2>5, <2>6, <2>7, <2>8 DEF Degrees, PerCent
<1>. QED BY <1>2, <1>3

\* A light that is between dark and full is a byte.
LEMMA ByteIs ==
    ASSUME NEW u \in Int, 0 <= u, u <= 6000, NEW m \in Rounded(u * 255, 6000)
    PROVE  m \in Bytes /\ 6000 * m - 255 * u <= 3000 /\ 255 * u - 6000 * m <= 3000
<1>1. m \in Int /\ 2 * (m * 6000) - 2 * (u * 255) <= 6000 /\ 2 * (u * 255) - 2 * (m * 6000) <= 6000
    BY RoundedIs
<1>. QED BY <1>1 DEF Bytes

\* The channels the sliders stand for, before they are rounded to bytes: Units[i]
\* of 6000.
Units(h, s) ==
    LET c == 60 * s
        x == s * (60 - Distance(h % 120, 60))
        sextant == h \div 60
        v == CASE sextant < 1 -> <<c, x, 0>> [] sextant = 1 -> <<x, c, 0>>
               [] sextant = 2 -> <<0, c, x>> [] sextant = 3 -> <<0, x, c>>
               [] sextant = 4 -> <<x, 0, c>> [] OTHER -> <<c, 0, x>>
    IN  <<v[1] + 6000 - c, v[2] + 6000 - c, v[3] + 6000 - c>>

LEMMA UnitsAre ==
    ASSUME NEW h \in Degrees, NEW s \in PerCent
    PROVE  /\ \A i \in Channels :
                 Units(h, s)[i] \in Int /\ 0 <= Units(h, s)[i] /\ Units(h, s)[i] <= 6000
           /\ HsToRgb(h, s) = Rounded(Units(h, s)[1] * 255, 6000)
                                  \X Rounded(Units(h, s)[2] * 255, 6000)
                                  \X Rounded(Units(h, s)[3] * 255, 6000)
<1>. DEFINE c == 60 * s
            k == 60 - Distance(h % 120, 60)
            x == s * k
            sextant == h \div 60
            v == CASE sextant < 1 -> <<c, x, 0>> [] sextant = 1 -> <<x, c, 0>>
                   [] sextant = 2 -> <<0, c, x>> [] sextant = 3 -> <<0, x, c>>
                   [] sextant = 4 -> <<x, 0, c>> [] OTHER -> <<c, 0, x>>
<1>1. k \in 0..60
    <2>1. h % 120 \in 0..119
        BY DEF Degrees
    <2>. QED BY <2>1 DEF Distance
<1>2. c \in Nat /\ c <= 6000 /\ s \in Nat
    BY DEF PerCent
<1>. HIDE DEF k
<1>3. x \in Int /\ 0 <= x /\ x <= c
    BY <1>1, <1>2
<1>. HIDE DEF x, c
<1>4. \A i \in {1, 2, 3} : v[i] \in Int /\ 0 <= v[i] /\ v[i] <= c
    <2>1. \/ v = <<c, x, 0>> \/ v = <<x, c, 0>> \/ v = <<0, c, x>>
          \/ v = <<0, x, c>> \/ v = <<x, 0, c>> \/ v = <<c, 0, x>>
        OBVIOUS
    <2>. HIDE DEF v
    <2>. QED BY <1>2, <1>3, <2>1
<1>. HIDE DEF v
<1>5. Units(h, s) = <<v[1] + 6000 - c, v[2] + 6000 - c, v[3] + 6000 - c>>
    BY DEF Units, v, sextant, x, k, c
<1>6. HsToRgb(h, s) = Rounded((v[1] + 6000 - c) * 255, 6000)
                          \X Rounded((v[2] + 6000 - c) * 255, 6000)
                          \X Rounded((v[3] + 6000 - c) * 255, 6000)
    BY DEF HsToRgb, v, sextant, x, k, c
<1>7. ASSUME NEW i \in {1, 2, 3}
      PROVE  v[i] + 6000 - c \in Int /\ 0 <= v[i] + 6000 - c /\ v[i] + 6000 - c <= 6000
    BY <1>2, <1>4
<1>8. Units(h, s)[1] = v[1] + 6000 - c /\ Units(h, s)[2] = v[2] + 6000 - c /\ Units(h, s)[3] = v[3] + 6000 - c
    BY <1>5
<1>9. ASSUME NEW i \in Channels
      PROVE  Units(h, s)[i] \in Int /\ 0 <= Units(h, s)[i] /\ Units(h, s)[i] <= 6000
    <2>1. i = 1 \/ i = 2 \/ i = 3
        BY DEF Channels
    <2>. QED BY <1>7, <1>8, <2>1
<1>. QED BY <1>6, <1>8, <1>9

LEMMA MadeIs ==
    ASSUME NEW h \in Degrees, NEW s \in PerCent, NEW rgb \in HsToRgb(h, s)
    PROVE  /\ rgb \in Colours
           /\ \A i \in Channels : /\ rgb[i] \in Int
                                  /\ 6000 * rgb[i] - 255 * Units(h, s)[i] <= 3000
                                  /\ 255 * Units(h, s)[i] - 6000 * rgb[i] <= 3000
<1>1. 1 \in Channels /\ 2 \in Channels /\ 3 \in Channels /\ Channels = {1, 2, 3}
    BY DEF Channels
<1>2. /\ rgb = <<rgb[1], rgb[2], rgb[3]>>
      /\ \A i \in Channels : rgb[i] \in Rounded(Units(h, s)[i] * 255, 6000)
    <2>. DEFINE A(i) == Rounded(Units(h, s)[i] * 255, 6000)
    <2>1. rgb \in A(1) \X A(2) \X A(3)
        BY UnitsAre
    <2>. HIDE DEF A
    <2>2. rgb = <<rgb[1], rgb[2], rgb[3]>> /\ rgb[1] \in A(1) /\ rgb[2] \in A(2) /\ rgb[3] \in A(3)
        BY <2>1
    <2>3. \A i \in Channels : rgb[i] \in A(i)
        BY <1>1, <2>2
    <2>. QED BY <2>2, <2>3 DEF A
<1>3. \A i \in Channels : Units(h, s)[i] \in Int /\ 0 <= Units(h, s)[i] /\ Units(h, s)[i] <= 6000
    BY UnitsAre
<1>4. ASSUME NEW i \in Channels
      PROVE  /\ rgb[i] \in Bytes
             /\ 6000 * rgb[i] - 255 * Units(h, s)[i] <= 3000
             /\ 255 * Units(h, s)[i] - 6000 * rgb[i] <= 3000
    BY <1>2, <1>3, ByteIs
<1>5. rgb \in Colours
    BY <1>1, <1>2, <1>4 DEF Colours
<1>6. \A i \in Channels : rgb[i] \in Int
    BY <1>4 DEF Bytes
<1>. QED BY <1>4, <1>5, <1>6

-----------------------------------------------------------------------------
(* A colour at full value, to the sliders and back *)

\* HsToRgb, sextant by sextant, the borders in both.
LEMMA SextantUnits ==
    ASSUME NEW h \in Degrees, NEW s \in PerCent
    PROVE  LET low == 6000 - 60 * s IN
           /\ h <= 60 => Units(h, s) = <<6000, s * h + low, low>>
           /\ h >= 60 /\ h <= 120 => Units(h, s) = <<s * (120 - h) + low, 6000, low>>
           /\ h >= 120 /\ h <= 180 => Units(h, s) = <<low, 6000, s * (h - 120) + low>>
           /\ h >= 180 /\ h <= 240 => Units(h, s) = <<low, s * (240 - h) + low, 6000>>
           /\ h >= 240 /\ h <= 300 => Units(h, s) = <<s * (h - 240) + low, low, 6000>>
           /\ h >= 300 => Units(h, s) = <<6000, low, s * (360 - h) + low>>
<1>. DEFINE low == 6000 - 60 * s
            c == 60 * s
            k == 60 - Distance(h % 120, 60)
            X(j) == s * j
            x == X(k)
            sextant == h \div 60
            v == CASE sextant < 1 -> <<c, x, 0>> [] sextant = 1 -> <<x, c, 0>>
                   [] sextant = 2 -> <<0, c, x>> [] sextant = 3 -> <<0, x, c>>
                   [] sextant = 4 -> <<x, 0, c>> [] OTHER -> <<c, 0, x>>
<1>1. h \in Int /\ 0 <= h /\ h <= 360 /\ s \in Int
    BY DEF Degrees, PerCent
<1>2. /\ h < 120 => h % 120 = h
      /\ h >= 120 /\ h < 240 => h % 120 = h - 120
      /\ h >= 240 /\ h < 360 => h % 120 = h - 240
      /\ h = 360 => h % 120 = 0
    BY <1>1
<1>3. /\ k \in Int
      /\ h <= 60 => k = h
      /\ h >= 60 /\ h <= 120 => k = 120 - h
      /\ h >= 120 /\ h <= 180 => k = h - 120
      /\ h >= 180 /\ h <= 240 => k = 240 - h
      /\ h >= 240 /\ h <= 300 => k = h - 240
      /\ h >= 300 => k = 360 - h
    BY <1>1, <1>2 DEF Distance
<1>. HIDE DEF k
<1>4. Units(h, s) = <<v[1] + 6000 - c, v[2] + 6000 - c, v[3] + 6000 - c>>
    BY DEF Units, k, x, c, v, sextant, X
<1>5. X(0) = 0 /\ X(60) = c /\ c \in Int /\ \A j \in Int : X(j) \in Int
    BY <1>1
<1>. HIDE DEF X
<1>6. x = X(k)
    OBVIOUS
<1>. HIDE DEF x
<1>7. /\ h < 60 => sextant = 0
      /\ h >= 60 /\ h < 120 => sextant = 1
      /\ h >= 120 /\ h < 180 => sextant = 2
      /\ h >= 180 /\ h < 240 => sextant = 3
      /\ h >= 240 /\ h < 300 => sextant = 4
      /\ h >= 300 => sextant \in {5, 6}
    BY <1>1
<1>. HIDE DEF c, low, sextant
<1>8. /\ h < 60 => v = <<c, x, 0>>
      /\ h >= 60 /\ h < 120 => v = <<x, c, 0>>
      /\ h >= 120 /\ h < 180 => v = <<0, c, x>>
      /\ h >= 180 /\ h < 240 => v = <<0, x, c>>
      /\ h >= 240 /\ h < 300 => v = <<x, 0, c>>
      /\ h >= 300 => v = <<c, 0, x>>
    BY <1>7
<1>. HIDE DEF v
<1>9. /\ h <= 60 => v = <<c, X(h), 0>>
      /\ h >= 60 /\ h <= 120 => v = <<X(120 - h), c, 0>>
      /\ h >= 120 /\ h <= 180 => v = <<0, c, X(h - 120)>>
      /\ h >= 180 /\ h <= 240 => v = <<0, X(240 - h), c>>
      /\ h >= 240 /\ h <= 300 => v = <<X(h - 240), 0, c>>
      /\ h >= 300 => v = <<c, 0, X(360 - h)>>
    <2>1. h <= 60 => v = <<c, X(h), 0>>
        BY <1>1, <1>3, <1>5, <1>6, <1>8
    <2>2. h >= 60 /\ h <= 120 => v = <<X(120 - h), c, 0>>
        BY <1>1, <1>3, <1>5, <1>6, <1>8
    <2>3. h >= 120 /\ h <= 180 => v = <<0, c, X(h - 120)>>
        BY <1>1, <1>3, <1>5, <1>6, <1>8
    <2>4. h >= 180 /\ h <= 240 => v = <<0, X(240 - h), c>>
        BY <1>1, <1>3, <1>5, <1>6, <1>8
    <2>5. h >= 240 /\ h <= 300 => v = <<X(h - 240), 0, c>>
        BY <1>1, <1>3, <1>5, <1>6, <1>8
    <2>6. h >= 300 => v = <<c, 0, X(360 - h)>>
        BY <1>1, <1>3, <1>5, <1>6, <1>8
    <2>. QED BY <2>1, <2>2, <2>3, <2>4, <2>5, <2>6
<1>10. c + 6000 - c = 6000 /\ \A y \in Int : y + 6000 - c = y + low
    BY <1>1 DEF low, c
<1>11. 0 + low = low /\ low \in Int
    BY <1>1 DEF low
<1>12. X(h) \in Int /\ X(120 - h) \in Int /\ X(h - 120) \in Int /\ X(240 - h) \in Int
       /\ X(h - 240) \in Int /\ X(360 - h) \in Int
    BY <1>1, <1>5
<1>13. ASSUME NEW y \in Int
       PROVE  /\ v = <<c, y, 0>> => Units(h, s) = <<6000, y + low, low>>
              /\ v = <<y, c, 0>> => Units(h, s) = <<y + low, 6000, low>>
              /\ v = <<0, c, y>> => Units(h, s) = <<low, 6000, y + low>>
              /\ v = <<0, y, c>> => Units(h, s) = <<low, y + low, 6000>>
              /\ v = <<y, 0, c>> => Units(h, s) = <<y + low, low, 6000>>
              /\ v = <<c, 0, y>> => Units(h, s) = <<6000, low, y + low>>
    <2>1. y + 6000 - c = y + low /\ 0 + 6000 - c = low
        BY <1>10, <1>11
    <2>. QED BY <1>4, <1>10, <2>1
<1>14. /\ h <= 60 => Units(h, s) = <<6000, X(h) + low, low>>
       /\ h >= 60 /\ h <= 120 => Units(h, s) = <<X(120 - h) + low, 6000, low>>
       /\ h >= 120 /\ h <= 180 => Units(h, s) = <<low, 6000, X(h - 120) + low>>
       /\ h >= 180 /\ h <= 240 => Units(h, s) = <<low, X(240 - h) + low, 6000>>
       /\ h >= 240 /\ h <= 300 => Units(h, s) = <<X(h - 240) + low, low, 6000>>
       /\ h >= 300 => Units(h, s) = <<6000, low, X(360 - h) + low>>
    BY <1>9, <1>12, <1>13
<1>. QED BY <1>14 DEF low, X

\* RgbToHs of a colour at full value, in whole numbers.
LEMMA HueIs ==
    ASSUME NEW rgb \in Colours, Largest(rgb) = 255, Spread(rgb) # 0, NEW hs \in RgbToHs(rgb)
    PROVE  LET d == Spread(rgb)
               hd == hs[1] * d
               Near(turned) == 2 * hd - 2 * turned <= d /\ 2 * turned - 2 * hd <= d
           IN
           /\ 510 * hs[2] - 200 * d <= 255 /\ 200 * d - 510 * hs[2] <= 255
           /\ Top(rgb) = 1 /\ rgb[2] >= rgb[3] => Near(60 * (rgb[2] - rgb[3]))
           /\ Top(rgb) = 1 /\ rgb[2] < rgb[3] => Near(60 * (rgb[2] - rgb[3]) + 360 * d)
           /\ Top(rgb) = 2 => Near(60 * (rgb[3] - rgb[1]) + 120 * d)
           /\ Top(rgb) = 3 => Near(60 * (rgb[1] - rgb[2]) + 240 * d)
<1>. DEFINE d == Spread(rgb)
            n == CASE Top(rgb) = 1 -> 60 * (rgb[2] - rgb[3])
                   [] Top(rgb) = 2 -> 60 * (rgb[3] - rgb[1]) + 120 * d
                   [] OTHER -> 60 * (rgb[1] - rgb[2]) + 240 * d
            turned == IF n < 0 THEN n + 360 * d ELSE n
<1>1. hs[1] \in Rounded(turned, d) /\ hs[2] \in Rounded(100 * d, 255)
    BY DEF RgbToHs
<1>2. /\ Top(rgb) = 1 => n = 60 * (rgb[2] - rgb[3])
      /\ Top(rgb) = 2 => n = 60 * (rgb[3] - rgb[1]) + 120 * d
      /\ Top(rgb) = 3 => n = 60 * (rgb[1] - rgb[2]) + 240 * d
    OBVIOUS
<1>. HIDE DEF n
<1>3. turned = IF n < 0 THEN n + 360 * d ELSE n
    OBVIOUS
<1>. HIDE DEF turned, d
<1>4. /\ d \in Int /\ 0 < d /\ d <= 255 /\ d = Spread(rgb)
      /\ rgb[1] \in Int /\ rgb[2] \in Int /\ rgb[3] \in Int
      /\ rgb[1] - rgb[3] <= d /\ rgb[2] - rgb[1] <= d /\ rgb[1] - rgb[2] <= d
      /\ rgb[3] - rgb[1] <= d /\ rgb[2] - rgb[3] <= d /\ rgb[3] - rgb[2] <= d
    BY SpreadIs DEF d
<1>5. Top(rgb) \in {1, 2, 3}
    BY Channel DEF Channels
<1>6. n \in Int
    BY <1>2, <1>4, <1>5
<1>7. turned \in Int
    BY <1>3, <1>4, <1>6
<1>8. hs[1] \in Int /\ 2 * (hs[1] * d) - 2 * turned <= d /\ 2 * turned - 2 * (hs[1] * d) <= d
    BY <1>1, <1>4, <1>7, RoundedIs
<1>9. hs[2] \in Int /\ 2 * (hs[2] * 255) - 2 * (100 * d) <= 255 /\ 2 * (100 * d) - 2 * (hs[2] * 255) <= 255
    BY <1>1, <1>4, RoundedIs
<1>10. /\ Top(rgb) = 1 /\ rgb[2] >= rgb[3] => turned = 60 * (rgb[2] - rgb[3])
       /\ Top(rgb) = 1 /\ rgb[2] < rgb[3] => turned = 60 * (rgb[2] - rgb[3]) + 360 * d
       /\ Top(rgb) = 2 => turned = 60 * (rgb[3] - rgb[1]) + 120 * d
       /\ Top(rgb) = 3 => turned = 60 * (rgb[1] - rgb[2]) + 240 * d
    BY <1>2, <1>3, <1>4
<1>11. 510 * hs[2] - 200 * d <= 255 /\ 200 * d - 510 * hs[2] <= 255
    BY <1>4, <1>9
<1>. QED BY <1>8, <1>10, <1>11 DEF d

LEMMA SextantRange ==
    ASSUME NEW d \in Int, 0 < d, NEW p \in Int, 0 <= p, p <= d, NEW k \in Int,
           2 * (k * d) - 120 * p <= d, 120 * p - 2 * (k * d) <= d
    PROVE  0 <= k /\ k <= 60
<1>1. ASSUME k <= -1 PROVE FALSE
    <2>1. k * d <= - d
        BY <1>1
    <2>. QED BY <2>1
<1>2. ASSUME k >= 61 PROVE FALSE
    <2>1. k * d >= 61 * d
        BY <1>2
    <2>. QED BY <2>1
<1>. QED BY <1>1, <1>2

\* What the sliders stand for is the colour picked, to three steps of a channel.
LEMMA PickedNear ==
    ASSUME NEW rgb \in Colours, Largest(rgb) = 255, NEW hs \in RgbToHs(rgb),
           NEW made \in HsToRgb(hs[1], hs[2]), NEW i \in Channels
    PROVE  made[i] - rgb[i] <= 3 /\ rgb[i] - made[i] <= 3
<1>. DEFINE d == Spread(rgb)
            h == hs[1]
            s == hs[2]
            near(j) == made[j] - rgb[j] <= 3 /\ rgb[j] - made[j] <= 3
<1>10. made \in HsToRgb(h, s)
    OBVIOUS
<1>. SUFFICES near(1) /\ near(2) /\ near(3)
    BY DEF Channels
<1>1. h \in Degrees /\ s \in PerCent /\ h \in Int /\ s \in Int
    BY HueTypes DEF Degrees, PerCent
<1>. HIDE DEF h, s
<1>2. /\ d \in Int /\ 0 <= d /\ d <= 255
      /\ rgb[1] \in Int /\ rgb[2] \in Int /\ rgb[3] \in Int
      /\ rgb[1] - rgb[3] <= d /\ rgb[2] - rgb[1] <= d /\ rgb[1] - rgb[2] <= d
      /\ rgb[3] - rgb[1] <= d /\ rgb[2] - rgb[3] <= d /\ rgb[3] - rgb[2] <= d
    BY SpreadIs
<1>3. 1 \in Channels /\ 2 \in Channels /\ 3 \in Channels
    BY DEF Channels
<1>4. Top(rgb) \in {1, 2, 3} /\ rgb[Top(rgb)] = 255
    BY Channel DEF Channels
<1>5. rgb[1] <= 255 /\ rgb[2] <= 255 /\ rgb[3] <= 255
    BY Channel, <1>3
<1>6. rgb[1] = 255 - d \/ rgb[2] = 255 - d \/ rgb[3] = 255 - d
    <2>1. PICK j \in Channels : d = 255 - rgb[j]
        BY SpreadIs
    <2>. QED BY <1>2, <2>1 DEF Channels
<1>7. rgb[1] >= 255 - d /\ rgb[2] >= 255 - d /\ rgb[3] >= 255 - d
    BY <1>2, <1>3, SpreadIs
<1>8. CASE d = 0
    <2>1. h = 0 /\ s = 0
        BY <1>8 DEF RgbToHs, h, s
    <2>2. Units(h, s) = <<6000, 0 * 0 + (6000 - 60 * 0), 6000 - 60 * 0>>
        BY <1>1, <2>1, SextantUnits
    <2>3. Units(h, s)[1] = 6000 /\ Units(h, s)[2] = 6000 /\ Units(h, s)[3] = 6000
        BY <2>2
    <2>4. \A j \in Channels : made[j] \in Int /\ 6000 * made[j] - 255 * Units(h, s)[j] <= 3000
                                /\ 255 * Units(h, s)[j] - 6000 * made[j] <= 3000
        BY <1>1, <1>10, MadeIs
    <2>. QED BY <1>2, <1>3, <1>5, <1>7, <1>8, <2>3, <2>4
<1>9. CASE d # 0
    <2>1. 0 < d
        BY <1>2, <1>9
    <2>2. 510 * s - 200 * d <= 255 /\ 200 * d - 510 * s <= 255
        BY <1>9, HueIs DEF h, s
    <2>. DEFINE hd == h * d
                Turned(turned) == 2 * hd - 2 * turned <= d /\ 2 * turned - 2 * hd <= d
    <2>3. hd \in Int /\ h * d = hd
        BY <1>1, <1>2
    <2>4. /\ Top(rgb) = 1 /\ rgb[2] >= rgb[3] => Turned(60 * (rgb[2] - rgb[3]))
          /\ Top(rgb) = 1 /\ rgb[2] < rgb[3] => Turned(60 * (rgb[2] - rgb[3]) + 360 * d)
          /\ Top(rgb) = 2 => Turned(60 * (rgb[3] - rgb[1]) + 120 * d)
          /\ Top(rgb) = 3 => Turned(60 * (rgb[1] - rgb[2]) + 240 * d)
        BY <1>9, HueIs DEF h, s
    <2>5. ASSUME NEW top \in Channels, NEW mid \in Channels, NEW low \in Channels,
                 {top, mid, low} = {1, 2, 3},
                 NEW p \in Int, 0 <= p, p <= d, NEW k \in Int,
                 2 * (k * d) - 120 * p <= d, 120 * p - 2 * (k * d) <= d,
                 rgb[top] = 255, rgb[low] = 255 - d, rgb[mid] = 255 - d + p,
                 0 <= k /\ k <= 60 =>
                     /\ Units(h, s)[top] = 6000 /\ Units(h, s)[mid] = s * k + (6000 - 60 * s)
                     /\ Units(h, s)[low] = 6000 - 60 * s
          PROVE  near(1) /\ near(2) /\ near(3)
        <3>1. 0 <= k /\ k <= 60
            BY <1>2, <2>1, <2>5, SextantRange
        <3>2. /\ made[top] = 255
              /\ made[mid] - (255 - d + p) <= 3 /\ (255 - d + p) - made[mid] <= 3
              /\ made[low] - (255 - d) <= 3 /\ (255 - d) - made[low] <= 3
            <4>. HIDE DEF d, hd, near, Turned
            <4>1. /\ made[top] \in Int /\ made[mid] \in Int /\ made[low] \in Int
                  /\ 6000 * made[top] - 255 * 6000 <= 3000 /\ 255 * 6000 - 6000 * made[top] <= 3000
                  /\ 6000 * made[mid] - 255 * (s * k + 6000 - 60 * s) <= 3000
                  /\ 255 * (s * k + 6000 - 60 * s) - 6000 * made[mid] <= 3000
                  /\ 6000 * made[low] - 255 * (6000 - 60 * s) <= 3000
                  /\ 255 * (6000 - 60 * s) - 6000 * made[low] <= 3000
                <5>1. \A j \in Channels : /\ made[j] \in Int
                                          /\ 6000 * made[j] - 255 * Units(h, s)[j] <= 3000
                                          /\ 255 * Units(h, s)[j] - 6000 * made[j] <= 3000
                    BY <1>1, <1>10, MadeIs
                <5>2. s * k + (6000 - 60 * s) = s * k + 6000 - 60 * s
                    BY <1>1
                <5>. QED BY <2>5, <3>1, <5>1, <5>2
            <4>2. made[top] = 255
                BY <4>1
            <4>3. made[mid] - (255 - d + p) <= 3 /\ (255 - d + p) - made[mid] <= 3
                <5>. DEFINE a == 60 - k
                            t == 200 * d - 510 * s
                            sk == s * k
                            kd == k * d
                <5>1. a \in Int /\ 0 <= a /\ a <= 60 /\ t \in Int /\ -255 <= t /\ t <= 255
                    BY <1>1, <1>2, <2>2, <3>1
                <5>2. a * t = 12000 * d - 30600 * s - 200 * kd + 510 * sk /\ sk \in Int /\ kd \in Int
                    BY <1>1, <1>2
                <5>. HIDE DEF a, t
                <5>3. a * t <= 15300 /\ -15300 <= a * t
                    BY <5>1
                <5>4. /\ 6000 * made[mid] - 255 * (sk + 6000 - 60 * s) <= 3000
                      /\ 255 * (sk + 6000 - 60 * s) - 6000 * made[mid] <= 3000
                      /\ 2 * kd - 120 * p <= d /\ 120 * p - 2 * kd <= d
                      /\ made[mid] \in Int
                    BY <2>5, <4>1
                <5>. HIDE DEF sk, kd
                <5>5. /\ 510 * sk - 30600 * s + 12000 * d - 12000 * p <= 15300 + 100 * d
                      /\ -15300 - 100 * d <= 510 * sk - 30600 * s + 12000 * d - 12000 * p
                    BY <1>1, <1>2, <2>5, <5>2, <5>3, <5>4
                <5>. QED BY <1>1, <1>2, <2>5, <5>2, <5>4, <5>5
            <4>4. made[low] - (255 - d) <= 3 /\ (255 - d) - made[low] <= 3
                BY <1>1, <1>2, <2>2, <4>1
            <4>. QED BY <4>2, <4>3, <4>4
        <3>3. near(top) /\ near(mid) /\ near(low)
            BY <1>2, <2>5, <3>2
        <3>. QED BY <2>5, <3>3
    <2>. HIDE DEF d, near, hd
    <2>6. CASE Top(rgb) = 1 /\ rgb[2] >= rgb[3]
        <3>. DEFINE p == rgb[2] - rgb[3]
                    k == h
        <3>1. /\ rgb[1] = 255 /\ rgb[3] = 255 - d /\ rgb[2] = 255 - d + p
              /\ p \in Int /\ 0 <= p /\ p <= d
            BY <1>2, <1>4, <1>5, <1>6, <1>7, <2>1, <2>6
        <3>2. 2 * (k * d) - 120 * p <= d /\ 120 * p - 2 * (k * d) <= d
            BY <1>1, <1>2, <2>3, <2>4, <2>6
        <3>3. ASSUME 0 <= k, k <= 60
              PROVE  Units(h, s) = <<6000, s * h + (6000 - 60 * s), 6000 - 60 * s>>
            <4>1. h <= 60
                BY <1>1, <3>3
            <4>. QED BY <1>1, <4>1, SextantUnits
        <3>4. k \in Int
            BY <1>1
        <3>. HIDE DEF p
        <3>5. 0 <= k /\ k <= 60 =>
                  /\ Units(h, s)[1] = 6000 /\ Units(h, s)[2] = s * k + (6000 - 60 * s)
                  /\ Units(h, s)[3] = 6000 - 60 * s
            BY <3>3
        <3>. HIDE DEF k
        <3>. QED BY <1>3, <2>5, <3>1, <3>2, <3>4, <3>5
    <2>7. CASE Top(rgb) = 1 /\ rgb[2] < rgb[3]
        <3>. DEFINE p == rgb[3] - rgb[2]
                    k == 360 - h
        <3>1. /\ rgb[1] = 255 /\ rgb[2] = 255 - d /\ rgb[3] = 255 - d + p
              /\ p \in Int /\ 0 <= p /\ p <= d
            BY <1>2, <1>4, <1>5, <1>6, <1>7, <2>1, <2>7
        <3>2. 2 * (k * d) - 120 * p <= d /\ 120 * p - 2 * (k * d) <= d
            BY <1>1, <1>2, <2>3, <2>4, <2>7
        <3>3. ASSUME 0 <= k, k <= 60
              PROVE  Units(h, s) = <<6000, 6000 - 60 * s, s * (360 - h) + (6000 - 60 * s)>>
            <4>1. h >= 300
                BY <1>1, <3>3
            <4>. QED BY <1>1, <4>1, SextantUnits
        <3>4. k \in Int
            BY <1>1
        <3>. HIDE DEF p
        <3>5. 0 <= k /\ k <= 60 =>
                  /\ Units(h, s)[1] = 6000 /\ Units(h, s)[3] = s * k + (6000 - 60 * s)
                  /\ Units(h, s)[2] = 6000 - 60 * s
            BY <3>3
        <3>. HIDE DEF k
        <3>. QED BY <1>3, <2>5, <3>1, <3>2, <3>4, <3>5
    <2>8. CASE Top(rgb) = 2 /\ rgb[3] < rgb[1]
        <3>. DEFINE p == rgb[1] - rgb[3]
                    k == 120 - h
        <3>1. /\ rgb[2] = 255 /\ rgb[3] = 255 - d /\ rgb[1] = 255 - d + p
              /\ p \in Int /\ 0 <= p /\ p <= d
            BY <1>2, <1>4, <1>5, <1>6, <1>7, <2>1, <2>8
        <3>2. 2 * (k * d) - 120 * p <= d /\ 120 * p - 2 * (k * d) <= d
            BY <1>1, <1>2, <2>3, <2>4, <2>8
        <3>3. ASSUME 0 <= k, k <= 60
              PROVE  Units(h, s) = <<s * (120 - h) + (6000 - 60 * s), 6000, 6000 - 60 * s>>
            <4>1. h >= 60 /\ h <= 120
                BY <1>1, <3>3
            <4>. QED BY <1>1, <4>1, SextantUnits
        <3>4. k \in Int
            BY <1>1
        <3>. HIDE DEF p
        <3>5. 0 <= k /\ k <= 60 =>
                  /\ Units(h, s)[2] = 6000 /\ Units(h, s)[1] = s * k + (6000 - 60 * s)
                  /\ Units(h, s)[3] = 6000 - 60 * s
            BY <3>3
        <3>. HIDE DEF k
        <3>. QED BY <1>3, <2>5, <3>1, <3>2, <3>4, <3>5
    <2>9. CASE Top(rgb) = 2 /\ rgb[3] >= rgb[1]
        <3>. DEFINE p == rgb[3] - rgb[1]
                    k == h - 120
        <3>1. /\ rgb[2] = 255 /\ rgb[1] = 255 - d /\ rgb[3] = 255 - d + p
              /\ p \in Int /\ 0 <= p /\ p <= d
            BY <1>2, <1>4, <1>5, <1>6, <1>7, <2>1, <2>9
        <3>2. 2 * (k * d) - 120 * p <= d /\ 120 * p - 2 * (k * d) <= d
            BY <1>1, <1>2, <2>3, <2>4, <2>9
        <3>3. ASSUME 0 <= k, k <= 60
              PROVE  Units(h, s) = <<6000 - 60 * s, 6000, s * (h - 120) + (6000 - 60 * s)>>
            <4>1. h >= 120 /\ h <= 180
                BY <1>1, <3>3
            <4>. QED BY <1>1, <4>1, SextantUnits
        <3>4. k \in Int
            BY <1>1
        <3>. HIDE DEF p
        <3>5. 0 <= k /\ k <= 60 =>
                  /\ Units(h, s)[2] = 6000 /\ Units(h, s)[3] = s * k + (6000 - 60 * s)
                  /\ Units(h, s)[1] = 6000 - 60 * s
            BY <3>3
        <3>. HIDE DEF k
        <3>. QED BY <1>3, <2>5, <3>1, <3>2, <3>4, <3>5
    <2>10. CASE Top(rgb) = 3 /\ rgb[1] < rgb[2]
        <3>. DEFINE p == rgb[2] - rgb[1]
                    k == 240 - h
        <3>1. /\ rgb[3] = 255 /\ rgb[1] = 255 - d /\ rgb[2] = 255 - d + p
              /\ p \in Int /\ 0 <= p /\ p <= d
            BY <1>2, <1>4, <1>5, <1>6, <1>7, <2>1, <2>10
        <3>2. 2 * (k * d) - 120 * p <= d /\ 120 * p - 2 * (k * d) <= d
            BY <1>1, <1>2, <2>3, <2>4, <2>10
        <3>3. ASSUME 0 <= k, k <= 60
              PROVE  Units(h, s) = <<6000 - 60 * s, s * (240 - h) + (6000 - 60 * s), 6000>>
            <4>1. h >= 180 /\ h <= 240
                BY <1>1, <3>3
            <4>. QED BY <1>1, <4>1, SextantUnits
        <3>4. k \in Int
            BY <1>1
        <3>. HIDE DEF p
        <3>5. 0 <= k /\ k <= 60 =>
                  /\ Units(h, s)[3] = 6000 /\ Units(h, s)[2] = s * k + (6000 - 60 * s)
                  /\ Units(h, s)[1] = 6000 - 60 * s
            BY <3>3
        <3>. HIDE DEF k
        <3>. QED BY <1>3, <2>5, <3>1, <3>2, <3>4, <3>5
    <2>11. CASE Top(rgb) = 3 /\ rgb[1] >= rgb[2]
        <3>. DEFINE p == rgb[1] - rgb[2]
                    k == h - 240
        <3>1. /\ rgb[3] = 255 /\ rgb[2] = 255 - d /\ rgb[1] = 255 - d + p
              /\ p \in Int /\ 0 <= p /\ p <= d
            BY <1>2, <1>4, <1>5, <1>6, <1>7, <2>1, <2>11
        <3>2. 2 * (k * d) - 120 * p <= d /\ 120 * p - 2 * (k * d) <= d
            BY <1>1, <1>2, <2>3, <2>4, <2>11
        <3>3. ASSUME 0 <= k, k <= 60
              PROVE  Units(h, s) = <<s * (h - 240) + (6000 - 60 * s), 6000 - 60 * s, 6000>>
            <4>1. h >= 240 /\ h <= 300
                BY <1>1, <3>3
            <4>. QED BY <1>1, <4>1, SextantUnits
        <3>4. k \in Int
            BY <1>1
        <3>. HIDE DEF p
        <3>5. 0 <= k /\ k <= 60 =>
                  /\ Units(h, s)[3] = 6000 /\ Units(h, s)[1] = s * k + (6000 - 60 * s)
                  /\ Units(h, s)[2] = 6000 - 60 * s
            BY <3>3
        <3>. HIDE DEF k
        <3>. QED BY <1>3, <2>5, <3>1, <3>2, <3>4, <3>5
    <2>. QED BY <1>2, <1>4, <2>6, <2>7, <2>8, <2>9, <2>10, <2>11
<1>. QED BY <1>2, <1>8, <1>9

-----------------------------------------------------------------------------
(* The controls *)

\* The values of a control, so that the provers need not look into them.
TimeField == 0..1439 \cup {Blank}
DaysField == SUBSET Days
DateField == Dates \cup {Blank}
PercentField == 1..100

LEMMA ControlsAre ==
    Controls = [trigger : Triggers, time : TimeField, offset : Int, days : DaysField,
                start : DateField, end : DateField, annual : BOOLEAN, hint : BOOLEAN,
                on : BOOLEAN, percent : PercentField, hex : Hexes, hue : Degrees, sat : PerCent]
BY DEF Controls, TimeField, DaysField, DateField, PercentField

LEMMA FieldsAreNumbers == (\A t \in TimeField : t \in Int) /\ (\A d \in DateField : d \in Int)
<1>1. ASSUME NEW t \in TimeField PROVE t \in Int
    <2>1. Blank \in Int
        BY DEF Blank
    <2>2. t \in 0..1439 \/ t = Blank
        BY DEF TimeField
    <2>. QED BY <2>1, <2>2
<1>2. ASSUME NEW d \in DateField PROVE d \in Int
    <2>1. Blank \in Int
        BY DEF Blank
    <2>2. d \in Nat \/ d = Blank
        BY FieldsAssumption DEF DateField
    <2>. QED BY <2>1, <2>2
<1>. QED BY <1>1, <1>2

\* The sliders stand where the colour shown puts them, or the colour is what
\* the sliders make.
Fits(f) ==
    \/ \E hs \in RgbToHs(HexToRgb(f.hex)) : f.hue = hs[1] /\ f.sat = hs[2]
    \/ HexToRgb(f.hex) \in HsToRgb(f.hue, f.sat)

LEMMA PickedIs ==
    ASSUME NEW f \in Controls, NEW hex \in Hexes, NEW g \in Picked(f, hex)
    PROVE  /\ g \in Controls /\ Fits(g)
           /\ g.trigger = f.trigger /\ g.time = f.time /\ g.offset = f.offset /\ g.days = f.days
           /\ g.start = f.start /\ g.end = f.end /\ g.annual = f.annual /\ g.hint = f.hint
           /\ g.on = f.on /\ g.percent = f.percent /\ g.hex = hex
<1>1. PICK hs \in RgbToHs(HexToRgb(hex)) : g = [f EXCEPT !.hex = hex, !.hue = hs[1], !.sat = hs[2]]
    BY DEF Picked
<1>2. hs[1] \in Degrees /\ hs[2] \in PerCent
    BY HexKept, HueTypes
<1>3. g \in Controls
    BY <1>1, <1>2, ControlsAre
<1>4. g.hex = hex /\ g.hue = hs[1] /\ g.sat = hs[2]
    BY <1>1, ControlsAre
<1>5. Fits(g)
    BY <1>4 DEF Fits
<1>6. /\ g.trigger = f.trigger /\ g.time = f.time /\ g.offset = f.offset /\ g.days = f.days
      /\ g.start = f.start /\ g.end = f.end /\ g.annual = f.annual /\ g.hint = f.hint
      /\ g.on = f.on /\ g.percent = f.percent
    BY <1>1, ControlsAre
<1>. QED BY <1>3, <1>4, <1>5, <1>6

LEMMA RenderedIs == ASSUME NEW f \in Rendered PROVE f \in Controls /\ Fits(f)
<1>. DEFINE blank ==
         [trigger |-> "time", time |-> 19 * 60, offset |-> 0, days |-> {},
          start |-> Blank, end |-> Blank, annual |-> FALSE, hint |-> FALSE,
          on |-> TRUE, percent |-> 80, hex |-> 0, hue |-> 0, sat |-> 0]
<1>1. 0 \in Hexes /\ 0 \in Degrees /\ 0 \in PerCent
    BY DEF Hexes, Degrees, PerCent
<1>2. blank \in Controls
    BY <1>1 DEF Controls, Triggers, Blank
<1>3. RgbToHex(<<242, 168, 61>>) \in Hexes
    BY HexKept DEF Colours, Bytes
<1>4. f \in Picked(blank, RgbToHex(<<242, 168, 61>>))
    BY DEF Rendered
<1>. HIDE DEF blank
<1>. QED BY <1>2, <1>3, <1>4, PickedIs

\* The payload names every column, so nothing that was stored is left over.
LEMMA NothingLeftOver ==
    ASSUME NEW f \in Controls, editing => schedule \in StoredRow
    PROVE  Merged(SchedulePayload(f)) = SchedulePayload(f)
<1>. DEFINE p == SchedulePayload(f)
            kept == IF editing THEN schedule ELSE Defaults
<1>1. DOMAIN p = {"trigger", "time", "offset", "days", "start", "end", "annual"}
    BY DEF SchedulePayload
<1>2. DOMAIN kept \subseteq DOMAIN p
    <2>1. CASE editing
        BY <1>1, <2>1 DEF StoredRow
    <2>2. CASE ~ editing
        BY <1>1, <2>2 DEF Defaults
    <2>. QED BY <2>1, <2>2
<1>3. p = [k \in DOMAIN p |-> p[k]]
    BY DEF SchedulePayload
<1>. HIDE DEF p, kept
<1>4. [k \in DOMAIN p \cup DOMAIN kept |-> IF k \in DOMAIN p THEN p[k] ELSE kept[k]] = [k \in DOMAIN p |-> p[k]]
    BY <1>2
<1>. QED BY <1>3, <1>4 DEF Merged, p, kept

\* What the validators let through is a row.
LEMMA PayloadIsRow ==
    ASSUME NEW f \in Controls, Valid(SchedulePayload(f))
    PROVE  SchedulePayload(f) \in StoredRow /\ (f.trigger = "time" => f.time # Blank)
<1>. DEFINE p == SchedulePayload(f)
<1>1. /\ f.trigger \in Triggers /\ f.time \in 0..1439 \cup {Blank} /\ f.offset \in Int
      /\ f.days \in SUBSET Days /\ f.start \in Dates \cup {Blank} /\ f.end \in Dates \cup {Blank}
      /\ f.annual \in BOOLEAN
    BY DEF Controls
<1>2. /\ p.time = IF f.trigger # "time" THEN Blank ELSE IF f.time = Blank THEN BadTime ELSE 60 * f.time
      /\ p.offset = IF f.trigger = "time" THEN Blank ELSE f.offset
      /\ p.trigger = f.trigger
    BY DEF SchedulePayload
<1>3. Blank = -1000 /\ BadTime = -1001 /\ Null = -1000
    BY DEF Blank, BadTime, Null
<1>4. /\ p.time # BadTime
      /\ IF p.trigger = "time" THEN p.time # Null /\ p.offset = Null
         ELSE p.offset \in -720..720 /\ p.time = Null
    BY DEF Valid, LocationNotConfigured
<1>5. GetDaysOfWeekBitmask(f.days) \in 0..127
    BY <1>1, DaysKept
<1>. DEFINE days == GetDaysOfWeekBitmask(f.days)
<1>6. p = [trigger |-> f.trigger, time |-> p.time, offset |-> p.offset, days |-> days,
           start |-> f.start, end |-> f.end, annual |-> f.annual]
    BY <1>2 DEF SchedulePayload
<1>. HIDE DEF p, days
<1>7. ASSUME p.time \in {t \in Nat : t < 86400} \cup {Null}, p.offset \in -720..720 \cup {Null},
              IF f.trigger = "time" THEN p.time # Null /\ p.offset = Null
              ELSE p.time = Null /\ p.offset # Null
       PROVE  p \in StoredRow
    <2>. DEFINE times == {t \in Nat : t < 86400} \cup {Null}
                offsets == -720..720 \cup {Null}
                dates == Dates \cup {Null}
                masks == 0..127
    <2>1. p.time \in times /\ p.offset \in offsets
        BY <1>7
    <2>2. f.start \in dates /\ f.end \in dates
        BY <1>1 DEF Null
    <2>3. days \in masks
        BY <1>5 DEF days
    <2>. HIDE DEF times, offsets, dates, masks
    <2>4. p \in [trigger : Triggers, time : times, offset : offsets, days : masks,
                 start : dates, end : dates, annual : BOOLEAN]
        BY <1>1, <1>6, <2>1, <2>2, <2>3
    <2>. QED BY <1>2, <1>7, <2>4 DEF StoredRow, times, offsets, dates, masks
<1>8. CASE f.trigger = "time"
    <2>1. f.time # Blank /\ p.time = 60 * f.time
        BY <1>1, <1>2, <1>4, <1>8
    <2>2. f.time \in Int /\ 0 <= f.time /\ f.time <= 1439
        <3>. DEFINE n == f.time
        <3>1. n \in 0..1439
            BY <1>1, <2>1
        <3>. HIDE DEF n
        <3>2. n \in Int /\ 0 <= n /\ n <= 1439
            BY <3>1
        <3>. QED BY <3>2 DEF n
    <2>3. 60 * f.time \in Nat /\ 60 * f.time < 86400
        BY <2>2, SMT
    <2>4. p.time \in {t \in Nat : t < 86400} /\ p.time # Null /\ p.offset = Null
        BY <1>2, <1>3, <1>4, <1>8, <2>1, <2>3
    <2>. QED BY <1>8, <2>1, <2>4, <1>7 DEF p
<1>9. CASE f.trigger # "time"
    <2>1. p.offset \in -720..720 /\ p.time = Null /\ p.offset # Null
        BY <1>2, <1>3, <1>4, <1>9
    <2>. QED BY <1>9, <2>1, <1>7 DEF p
<1>. QED BY <1>8, <1>9

LEMMA LightIs ==
    ASSUME NEW f \in Controls, NEW light \in StatePayload(f)
    PROVE  light \in Lights /\ light # Nothing
<1>1. CASE ~ f.on
    <2>1. light = [on |-> FALSE]
        BY <1>1 DEF StatePayload
    <2>2. DOMAIN light = {"on"} /\ DOMAIN Nothing = {"none"}
        BY <2>1 DEF Nothing
    <2>. QED BY <2>1, <2>2 DEF Lights
<1>2. CASE f.on
    <2>1. PICK bri \in PercentToBri(f.percent) : light = [on |-> TRUE, bri |-> bri, col |-> HexToRgb(f.hex)]
        BY <1>2 DEF StatePayload
    <2>2. bri \in Bytes /\ HexToRgb(f.hex) \in Colours
        BY PercentKept, HexKept DEF Controls
    <2>3. DOMAIN light = {"on", "bri", "col"} /\ DOMAIN Nothing = {"none"}
        BY <2>1 DEF Nothing
    <2>. QED BY <2>1, <2>2, <2>3 DEF Lights
<1>. QED BY <1>1, <1>2

LEMMA RowIsSomething == ASSUME NEW row \in StoredRow PROVE row # Nothing
<1>1. DOMAIN row = {"trigger", "time", "offset", "days", "start", "end", "annual"}
    BY DEF StoredRow
<1>2. DOMAIN Nothing = {"none"}
    BY DEF Nothing
<1>. QED BY <1>1, <1>2

LEMMA RowFields ==
    ASSUME NEW row \in StoredRow
    PROVE  /\ row.trigger \in Triggers /\ row.annual \in BOOLEAN
           /\ row.start \in DateField /\ row.end \in DateField
           /\ row.trigger = "time" => row.time \in Nat /\ row.time < 86400
           /\ row.trigger # "time" => row.offset \in Int
<1>1. /\ row \in [trigger : Triggers, time : {t \in Nat : t < 86400} \cup {Null}, offset : -720..720 \cup {Null},
                  days : 0..127, start : Dates \cup {Null}, end : Dates \cup {Null}, annual : BOOLEAN]
      /\ IF row.trigger = "time" THEN row.time # Null /\ row.offset = Null
         ELSE row.time = Null /\ row.offset # Null
    BY DEF StoredRow
<1>2. /\ row.trigger \in Triggers /\ row.annual \in BOOLEAN
      /\ row.start \in Dates \cup {Null} /\ row.end \in Dates \cup {Null}
      /\ row.time \in {t \in Nat : t < 86400} \cup {Null} /\ row.offset \in -720..720 \cup {Null}
    BY <1>1
<1>3. row.trigger = "time" => row.time \in Nat /\ row.time < 86400
    BY <1>1, <1>2
<1>4. row.trigger # "time" => row.offset \in Int
    BY <1>1, <1>2
<1>5. DateField = Dates \cup {Null}
    BY DEF DateField, Null
<1>. QED BY <1>2, <1>3, <1>4, <1>5

LEMMA FilledIs ==
    ASSUME NEW f \in Controls, schedule \in StoredRow
    PROVE  FillSchedule(f) \in Controls
<1>. DEFINE trigger == schedule.trigger
            time == IF schedule.trigger = "time" THEN schedule.time \div 60 ELSE f.time
            offset == IF schedule.trigger = "time" THEN f.offset ELSE schedule.offset
            days == SetDayToggles(schedule.days)
            start == schedule.start
            end == schedule.end
            annual == schedule.annual
<1>1. FillSchedule(f) = [f EXCEPT !.trigger = trigger, !.time = time, !.offset = offset, !.days = days,
                                  !.start = start, !.end = end, !.annual = annual]
    BY DEF FillSchedule
<1>2. trigger \in Triggers /\ start \in DateField /\ end \in DateField /\ annual \in BOOLEAN
    BY RowFields
<1>3. days \in DaysField
    BY DEF SetDayToggles, DaysField
<1>4. f.time \in TimeField /\ f.offset \in Int
    BY ControlsAre
<1>5. time \in TimeField
    <2>1. CASE schedule.trigger = "time"
        <3>1. schedule.time \in Nat /\ schedule.time < 86400
            BY <2>1, RowFields
        <3>2. schedule.time \div 60 \in Int /\ 0 <= schedule.time \div 60 /\ schedule.time \div 60 <= 1439
            BY <3>1, SMT
        <3>3. schedule.time \div 60 \in 0..1439
            BY <3>2
        <3>. QED BY <2>1, <3>3 DEF TimeField
    <2>2. CASE schedule.trigger # "time"
        BY <1>4, <2>2
    <2>. QED BY <2>1, <2>2
<1>6. offset \in Int
    BY <1>4, RowFields
<1>. HIDE DEF trigger, time, offset, days, start, end, annual
<1>. QED BY <1>1, <1>2, <1>3, <1>5, <1>6, ControlsAre

-----------------------------------------------------------------------------
(* The invariant of the types, and of what is known of an open page *)

\* When the page is ready its labels say what the box says; a page that edits,
\* and one that was left, have a row, and every row has an action.
FieldsInv ==
    /\ TypeOK
    /\ pc = "ready" => fields.hint = fields.annual
    /\ editing \/ pc = "gone" => schedule # Nothing
    /\ schedule # Nothing => action # Nothing

\* Whatever the user does, one control changes, or the three of the colour do.
LEMMA ChangeIs ==
    ASSUME fields \in Controls,
           Enter \/ (\E t \in Triggers : ChooseTrigger(t)) \/ (\E d \in Toggled : ToggleDay(d))
    PROVE  \E f \in Controls :
              /\ Change(f)
              /\ f.hint = f.annual \/ (f.hint = fields.hint /\ f.annual = fields.annual)
              /\ Fits(fields) => Fits(f)
<1>. DEFINE Goal == \E f \in Controls :
              /\ Change(f)
              /\ f.hint = f.annual \/ (f.hint = fields.hint /\ f.annual = fields.annual)
              /\ Fits(fields) => Fits(f)
<1>1. ASSUME NEW f \in Controls, Change(f), f.hint = fields.hint, f.annual = fields.annual,
             f.hex = fields.hex, f.hue = fields.hue, f.sat = fields.sat
      PROVE  Goal
    BY <1>1 DEF Fits
<1>2. ASSUME NEW t \in Times, Change([fields EXCEPT !.time = t]) PROVE Goal
    <2>1. [fields EXCEPT !.time = t] \in Controls
        BY FieldsAssumption, ControlsAre DEF TimeField
    <2>. QED BY <1>1, <1>2, <2>1, ControlsAre
<1>3. ASSUME NEW m \in Offsets, Change([fields EXCEPT !.offset = m]) PROVE Goal
    <2>1. [fields EXCEPT !.offset = m] \in Controls
        BY FieldsAssumption, ControlsAre
    <2>. QED BY <1>1, <1>3, <2>1, ControlsAre
<1>4. ASSUME NEW d \in Dates \cup {Blank}, Change([fields EXCEPT !.start = d]) PROVE Goal
    <2>1. [fields EXCEPT !.start = d] \in Controls
        BY ControlsAre DEF DateField
    <2>. QED BY <1>1, <1>4, <2>1, ControlsAre
<1>5. ASSUME NEW d \in Dates \cup {Blank}, Change([fields EXCEPT !.end = d]) PROVE Goal
    <2>1. [fields EXCEPT !.end = d] \in Controls
        BY ControlsAre DEF DateField
    <2>. QED BY <1>1, <1>5, <2>1, ControlsAre
<1>6. ASSUME Change(UpdateRepeatAnnuallyVisibility([fields EXCEPT !.annual = ~ @])) PROVE Goal
    <2>. DEFINE f == UpdateRepeatAnnuallyVisibility([fields EXCEPT !.annual = ~ @])
    <2>1. f = [fields EXCEPT !.annual = ~ fields.annual, !.hint = ~ fields.annual]
        BY ControlsAre DEF UpdateRepeatAnnuallyVisibility
    <2>2. f \in Controls /\ f.hint = f.annual /\ f.hex = fields.hex /\ f.hue = fields.hue /\ f.sat = fields.sat
        BY <2>1, ControlsAre
    <2>3. Fits(fields) => Fits(f)
        BY <2>2 DEF Fits
    <2>. QED BY <1>6, <2>2, <2>3
<1>7. ASSUME Change([fields EXCEPT !.on = ~ @]) PROVE Goal
    <2>1. [fields EXCEPT !.on = ~ @] \in Controls
        BY ControlsAre
    <2>. QED BY <1>1, <1>7, <2>1, ControlsAre
<1>8. ASSUME NEW pct \in Percents, Change([fields EXCEPT !.percent = pct]) PROVE Goal
    <2>1. [fields EXCEPT !.percent = pct] \in Controls
        BY FieldsAssumption, ControlsAre DEF PercentField
    <2>. QED BY <1>1, <1>8, <2>1, ControlsAre
<1>9. ASSUME NEW h \in Degrees, NEW s \in PerCent, Sync(h, s) PROVE Goal
    <2>1. PICK rgb \in HsToRgb(h, s) : Change([fields EXCEPT !.hue = h, !.sat = s, !.hex = RgbToHex(rgb)])
        BY <1>9 DEF Sync
    <2>. DEFINE hex == RgbToHex(rgb)
                f == [fields EXCEPT !.hue = h, !.sat = s, !.hex = hex]
    <2>2. hex \in Hexes /\ HexToRgb(hex) = rgb
        BY MadeIs, HexKept
    <2>3. Change(f)
        BY <2>1
    <2>. HIDE DEF hex
    <2>4. f \in Controls /\ f.hint = fields.hint /\ f.annual = fields.annual
          /\ f.hex = hex /\ f.hue = h /\ f.sat = s
        BY <2>2, ControlsAre
    <2>5. Fits(f)
        BY <2>2, <2>4 DEF Fits
    <2>. QED BY <2>3, <2>4, <2>5
<1>10. CASE Enter
    <2>1. ASSUME NEW h \in Hues, Sync(h, fields.sat) PROVE Goal
        BY <1>9, <2>1, FieldsAssumption, ControlsAre
    <2>2. ASSUME NEW s \in Sats, Sync(fields.hue, s) PROVE Goal
        BY <1>9, <2>2, FieldsAssumption, ControlsAre
    <2>. QED BY <1>2, <1>3, <1>4, <1>5, <1>6, <1>7, <1>8, <1>10, <2>1, <2>2 DEF Enter
<1>11. ASSUME NEW t \in Triggers, ChooseTrigger(t) PROVE Goal
    <2>1. [fields EXCEPT !.trigger = t] \in Controls
        BY ControlsAre
    <2>. QED BY <1>1, <1>11, <2>1, ControlsAre DEF ChooseTrigger
<1>12. ASSUME NEW d \in Toggled, ToggleDay(d) PROVE Goal
    <2>. DEFINE days == IF d \in fields.days THEN fields.days \ {d} ELSE fields.days \cup {d}
    <2>1. d \in Days /\ fields.days \in SUBSET Days
        BY FieldsAssumption, ControlsAre DEF DaysField
    <2>2. days \in DaysField
        BY <2>1 DEF DaysField
    <2>3. Change([fields EXCEPT !.days = days])
        BY <1>12 DEF ToggleDay
    <2>. HIDE DEF days
    <2>4. [fields EXCEPT !.days = days] \in Controls
        BY <2>2, ControlsAre
    <2>. QED BY <1>1, <2>3, <2>4, ControlsAre
<1>. QED BY <1>10, <1>11, <1>12

LEMMA ColourIs == ASSUME NEW light \in Lights, light.on PROVE light.bri \in Bytes /\ light.col \in Colours
<1>1. ASSUME light = [on |-> FALSE] PROVE FALSE
    <2>1. light.on = FALSE
        BY <1>1
    <2>. QED BY <2>1
<1>2. light \in {[on |-> FALSE]} \/ light \in [on : {TRUE}, bri : Bytes, col : Colours]
    BY DEF Lights
<1>3. light \in [on : {TRUE}, bri : Bytes, col : Colours]
    BY <1>1, <1>2
<1>. QED BY <1>3

LEMMA LightFilled ==
    ASSUME NEW f \in Controls, action \in Lights, NEW g \in FillAction(f)
    PROVE  g \in Controls /\ (Fits(f) => Fits(g))
<1>1. CASE ~ action.on
    <2>1. g = [f EXCEPT !.on = FALSE]
        BY <1>1 DEF FillAction
    <2>2. g \in Controls /\ g.hex = f.hex /\ g.hue = f.hue /\ g.sat = f.sat
        BY <2>1, ControlsAre
    <2>. QED BY <2>2 DEF Fits
<1>2. CASE action.on
    <2>1. PICK pct \in BriToPercent(action.bri) :
             g \in Picked([f EXCEPT !.on = TRUE, !.percent = Slider(pct)], RgbToHex(action.col))
        BY <1>2 DEF FillAction
    <2>2. Slider(pct) \in PercentField
        BY <1>2, ColourIs, PercentTypes DEF PercentField
    <2>3. [f EXCEPT !.on = TRUE, !.percent = Slider(pct)] \in Controls
        BY <2>2, ControlsAre
    <2>4. RgbToHex(action.col) \in Hexes
        BY <1>2, ColourIs, HexKept
    <2>. QED BY <2>1, <2>3, <2>4, PickedIs
<1>. QED BY <1>1, <1>2

LEMMA FieldsInit == Init => FieldsInv /\ Fits(fields)
<1>. SUFFICES ASSUME Init PROVE FieldsInv /\ Fits(fields)
    OBVIOUS
<1>1. fields \in Controls /\ Fits(fields)
    BY RenderedIs DEF Init
<1>2. \/ schedule = Nothing /\ action = Nothing
      \/ schedule \in StoredRow /\ action \in Lights
    BY FieldsAssumption DEF Init
<1>3. pc = "opened" /\ touched = FALSE /\ clicks = 0 /\ editing = (schedule # Nothing) /\ settings \in Settings
    BY DEF Init
<1>4. clicks \in 0..MaxClicks
    BY <1>3, FieldsAssumption
<1>5. action \in Lights => action # Nothing
    <2>1. action \in Lights => DOMAIN action = {"on"} \/ DOMAIN action = {"on", "bri", "col"}
        BY DEF Lights
    <2>2. DOMAIN Nothing = {"none"}
        BY DEF Nothing
    <2>. QED BY <2>1, <2>2
<1>. QED BY <1>1, <1>2, <1>3, <1>4, <1>5 DEF FieldsInv, TypeOK

LEMMA FieldsStep == FieldsInv /\ [Next]_vars => FieldsInv'
<1>. SUFFICES ASSUME FieldsInv, [Next]_vars PROVE FieldsInv'
    OBVIOUS
<1>1. /\ fields \in Controls /\ schedule \in StoredRow \cup {Nothing} /\ action \in Lights \cup {Nothing}
      /\ clicks \in 0..MaxClicks /\ MaxClicks \in Nat
      /\ editing \/ pc = "gone" => schedule \in StoredRow /\ action \in Lights
    BY FieldsAssumption DEF FieldsInv, TypeOK
<1>2. CASE LoadSchedule
    <2>1. fields' \in Controls
        <3>1. CASE editing
            BY <1>1, <1>2, <3>1, FilledIs DEF LoadSchedule
        <3>2. CASE ~ editing
            <4>1. SetDayToggles(127) \in DaysField
                BY DEF SetDayToggles, DaysField
            <4>2. fields' = [fields EXCEPT !.days = SetDayToggles(127)]
                BY <1>2, <3>2 DEF LoadSchedule
            <4>. QED BY <1>1, <4>1, <4>2, ControlsAre
        <3>. QED BY <3>1, <3>2
    <2>. QED BY <1>2, <2>1 DEF LoadSchedule, FieldsInv, TypeOK
<1>3. CASE LoadAction
    <2>1. PICK f \in (IF editing THEN FillAction(fields) ELSE {fields}) :
             fields' = UpdateRepeatAnnuallyVisibility(f)
        BY <1>3 DEF LoadAction
    <2>2. f \in Controls
        BY <1>1, <2>1, LightFilled
    <2>3. fields' \in Controls /\ fields'.hint = fields'.annual
        BY <2>1, <2>2, ControlsAre DEF UpdateRepeatAnnuallyVisibility
    <2>. QED BY <1>3, <2>3 DEF LoadAction, FieldsInv, TypeOK
<1>4. CASE Enter \/ (\E t \in Triggers : ChooseTrigger(t)) \/ (\E d \in Toggled : ToggleDay(d))
    <2>1. PICK f \in Controls : Change(f) /\ (f.hint = f.annual \/ (f.hint = fields.hint /\ f.annual = fields.annual))
        BY <1>1, <1>4, ChangeIs
    <2>2. clicks + 1 \in 0..MaxClicks
        BY <1>1, <2>1 DEF Change
    <2>. QED BY <2>1, <2>2 DEF Change, FieldsInv, TypeOK
<1>5. ASSUME NEW answered \in BOOLEAN, Save(answered) PROVE FieldsInv'
    <2>1. Merged(SchedulePayload(fields)) = SchedulePayload(fields)
        BY <1>1, NothingLeftOver
    <2>2. schedule' \in StoredRow /\ schedule' # Nothing
        BY <1>1, <1>5, <2>1, PayloadIsRow, RowIsSomething DEF Save
    <2>3. action' \in Lights /\ action' # Nothing
        BY <1>1, <1>5, LightIs DEF Save
    <2>4. clicks' \in 0..MaxClicks
        BY <1>1, <1>5 DEF Save
    <2>5. /\ fields' = fields /\ touched' = touched /\ settings' = settings /\ editing' = editing
          /\ pc' \in {pc, "gone"}
        BY <1>5 DEF Save, Leave
    <2>. QED BY <2>2, <2>3, <2>4, <2>5 DEF FieldsInv, TypeOK
<1>6. CASE SaveHalf
    <2>1. action' \in Lights /\ action' # Nothing
        BY <1>1, <1>6, LightIs DEF SaveHalf
    <2>2. clicks' \in 0..MaxClicks
        BY <1>1, <1>6 DEF SaveHalf
    <2>. QED BY <1>6, <2>1, <2>2 DEF SaveHalf, FieldsInv, TypeOK
<1>7. CASE Cancel
    BY <1>7 DEF Cancel, Leave, FieldsInv, TypeOK
<1>8. CASE Open
    <2>1. fields' \in Controls
        BY <1>8, RenderedIs DEF Open
    <2>. QED BY <1>8, <2>1 DEF Open, FieldsInv, TypeOK
<1>9. CASE UNCHANGED vars
    BY <1>9 DEF vars, FieldsInv, TypeOK
<1>. QED BY <1>2, <1>3, <1>4, <1>5, <1>6, <1>7, <1>8, <1>9 DEF Next

LEMMA FitsStep == FieldsInv /\ Fits(fields) /\ [Next]_vars => Fits(fields)'
<1>. SUFFICES ASSUME FieldsInv, Fits(fields), [Next]_vars PROVE Fits(fields')
    BY DEF Fits
<1>1. /\ fields \in Controls
      /\ editing => schedule \in StoredRow /\ action \in Lights
    BY DEF FieldsInv, TypeOK
<1>2. ASSUME fields'.hex = fields.hex, fields'.hue = fields.hue, fields'.sat = fields.sat
      PROVE  Fits(fields')
    BY <1>2 DEF Fits
<1>3. CASE LoadSchedule
    <2>1. fields' = FillSchedule(fields) \/ fields' = [fields EXCEPT !.days = SetDayToggles(127)]
        BY <1>3 DEF LoadSchedule
    <2>. QED BY <1>1, <1>2, <2>1, ControlsAre DEF FillSchedule
<1>4. CASE LoadAction
    <2>1. PICK f \in (IF editing THEN FillAction(fields) ELSE {fields}) :
             fields' = UpdateRepeatAnnuallyVisibility(f)
        BY <1>4 DEF LoadAction
    <2>2. f \in Controls /\ Fits(f)
        BY <1>1, <2>1, LightFilled
    <2>3. fields'.hex = f.hex /\ fields'.hue = f.hue /\ fields'.sat = f.sat
        BY <2>1, <2>2, ControlsAre DEF UpdateRepeatAnnuallyVisibility
    <2>. QED BY <2>2, <2>3 DEF Fits
<1>5. CASE Enter \/ (\E t \in Triggers : ChooseTrigger(t)) \/ (\E d \in Toggled : ToggleDay(d))
    <2>1. PICK f \in Controls : Change(f) /\ Fits(f)
        BY <1>1, <1>5, ChangeIs
    <2>. QED BY <2>1 DEF Change
<1>6. CASE Open
    BY <1>6, RenderedIs DEF Open
<1>7. CASE (\E answered \in BOOLEAN : Save(answered)) \/ SaveHalf \/ Cancel \/ UNCHANGED vars
    BY <1>7 DEF Save, SaveHalf, Cancel, Leave, vars
<1>. QED BY <1>3, <1>4, <1>5, <1>6, <1>7 DEF Next

\* The controls hold what a browser lets be entered, and the server what its
\* validators let through.
THEOREM FieldsTypes == Spec => []TypeOK
<1>1. Init => FieldsInv
    BY FieldsInit
<1>2. FieldsInv => TypeOK
    BY DEF FieldsInv
<1>. QED BY <1>1, <1>2, FieldsStep, PTL DEF Spec

\* Two colours that the same sliders make differ by a step, as a half is rounded
\* up or down.
LEMMA FitsNear == fields \in Controls /\ Fits(fields) => SlidersShowColour
<1>. DEFINE rgb == HexToRgb(fields.hex)
<1>. SUFFICES ASSUME fields \in Controls, Fits(fields), Largest(rgb) = 255,
                     NEW made \in HsToRgb(fields.hue, fields.sat), NEW i \in Channels
              PROVE  Distance(made[i], rgb[i]) <= 3
    BY DEF SlidersShowColour
<1>1. fields.hex \in Hexes /\ fields.hue \in Degrees /\ fields.sat \in PerCent
    BY ControlsAre
<1>2. rgb \in Colours
    BY <1>1, HexKept
<1>3. made[i] \in Int /\ rgb[i] \in Int
    BY <1>1, <1>2, MadeIs, Channel DEF Bytes
<1>4. made[i] - rgb[i] <= 3 /\ rgb[i] - made[i] <= 3
    <2>1. CASE \E hs \in RgbToHs(rgb) : fields.hue = hs[1] /\ fields.sat = hs[2]
        <3>1. PICK hs \in RgbToHs(rgb) : fields.hue = hs[1] /\ fields.sat = hs[2]
            BY <2>1
        <3>2. made \in HsToRgb(hs[1], hs[2])
            BY <3>1
        <3>. HIDE DEF rgb
        <3>. QED BY <1>2, <3>2, PickedNear
    <2>2. CASE rgb \in HsToRgb(fields.hue, fields.sat)
        <3>. DEFINE u == Units(fields.hue, fields.sat)[i]
        <3>1. u \in Int
            BY <1>1, UnitsAre
        <3>2. 6000 * made[i] - 255 * u <= 3000 /\ 255 * u - 6000 * made[i] <= 3000
            BY <1>1, MadeIs
        <3>3. 6000 * rgb[i] - 255 * u <= 3000 /\ 255 * u - 6000 * rgb[i] <= 3000
            <4>. HIDE DEF rgb
            <4>. QED BY <1>1, <2>2, MadeIs
        <3>. HIDE DEF u, rgb
        <3>. QED BY <1>3, <3>1, <3>2, <3>3
    <2>. QED BY <2>1, <2>2 DEF Fits
<1>. HIDE DEF rgb
<1>. QED BY <1>3, <1>4 DEF Distance

\* The sliders stand for the colour that is shown, whether the colour was picked,
\* loaded or made by them; a colour at full value misses by at most three steps.
THEOREM SlidersFollow == Spec => []SlidersShowColour
<1>1. Init => FieldsInv /\ Fits(fields)
    BY FieldsInit
<1>2. FieldsInv /\ Fits(fields) /\ [Next]_vars => FieldsInv' /\ Fits(fields)'
    BY FieldsStep, FitsStep
<1>3. FieldsInv /\ Fits(fields) => SlidersShowColour
    BY FitsNear DEF FieldsInv, TypeOK
<1>. QED BY <1>1, <1>2, <1>3, PTL DEF Spec

-----------------------------------------------------------------------------
(* What a save is refused for *)

IsShown(shown) ==
    \/ shown.trigger = "time" /\ shown.when = Blank
    \/ shown.trigger # "time" /\ (shown.when \notin -720..720 \/ ~ settings.located \/ ~ settings.zoned)
    \/ shown.annual /\ fields.hint /\ Blank \in {shown.start, shown.end}
    \/ ~ shown.annual /\ Blank \notin {shown.start, shown.end} /\ shown.end < shown.start

LEMMA RefusalShown == FieldsInv => RefusedForWhatIsShown
<1>. SUFFICES ASSUME FieldsInv, pc = "ready", ~ Valid(Merged(SchedulePayload(fields)))
     PROVE  IsShown(Shown(fields))
    BY DEF RefusedForWhatIsShown, IsShown
<1>1. ~ Valid(SchedulePayload(fields))
    <2>1. fields \in Controls /\ (editing => schedule \in StoredRow)
        BY DEF FieldsInv, TypeOK
    <2>. QED BY <2>1, NothingLeftOver
<1>2. /\ fields.time \in Int /\ fields.offset \in Int /\ fields.start \in Int /\ fields.end \in Int
      /\ fields.annual \in BOOLEAN /\ fields.hint = fields.annual
    <2>1. /\ fields.time \in TimeField /\ fields.offset \in Int /\ fields.start \in DateField
          /\ fields.end \in DateField /\ fields.annual \in BOOLEAN
        BY ControlsAre DEF FieldsInv, TypeOK
    <2>2. fields.hint = fields.annual
        BY DEF FieldsInv
    <2>. QED BY <2>1, <2>2, FieldsAreNumbers
<1>3. 60 * fields.time # Null /\ 60 * fields.time # BadTime
    BY <1>2 DEF Null, Blank, BadTime
<1>. DEFINE p == SchedulePayload(fields)
            shown == Shown(fields)
<1>4. /\ p.trigger = fields.trigger /\ p.start = fields.start /\ p.end = fields.end
      /\ p.annual = fields.annual
      /\ p.time = IF fields.trigger # "time" THEN Blank
                  ELSE IF fields.time = Blank THEN BadTime ELSE 60 * fields.time
      /\ p.offset = IF fields.trigger = "time" THEN Blank ELSE fields.offset
    BY DEF SchedulePayload
<1>5. /\ shown.trigger = fields.trigger /\ shown.start = fields.start /\ shown.end = fields.end
      /\ shown.annual = fields.annual
      /\ shown.when = IF fields.trigger = "time" THEN fields.time ELSE fields.offset
    BY DEF Shown
<1>6. Null = -1000 /\ Blank = -1000 /\ BadTime = -1001
    BY DEF Null, Blank, BadTime
<1>7. \/ p.time = BadTime
      \/ fields.trigger = "time" /\ p.time = Null
      \/ fields.trigger = "time" /\ p.offset # Null
      \/ fields.trigger # "time" /\ (p.offset \notin -720..720 \/ p.time # Null \/ ~ settings.located \/ ~ settings.zoned)
      \/ p.annual /\ (p.start = Null \/ p.end = Null)
      \/ ~ p.annual /\ p.start # Null /\ p.end # Null /\ ~ (p.start <= p.end)
    BY <1>1, <1>4 DEF Valid, LocationNotConfigured
<1>. HIDE DEF p, shown
<1>8. ASSUME fields.trigger = "time", p.time \in {BadTime, Null} \/ p.offset # Null PROVE IsShown(shown)
    BY <1>3, <1>4, <1>5, <1>6, <1>8 DEF IsShown
<1>9. ASSUME fields.trigger # "time", p.time = BadTime \/ p.offset \notin -720..720 \/ p.time # Null \/ ~ settings.located \/ ~ settings.zoned
      PROVE  IsShown(shown)
    BY <1>4, <1>5, <1>6, <1>9 DEF IsShown
<1>10. ASSUME p.annual, p.start = Null \/ p.end = Null PROVE IsShown(shown)
    BY <1>2, <1>4, <1>5, <1>6, <1>10 DEF IsShown
<1>11. ASSUME ~ p.annual, p.start # Null, p.end # Null, ~ (p.start <= p.end) PROVE IsShown(shown)
    BY <1>2, <1>4, <1>5, <1>6, <1>11 DEF IsShown
<1>12. IsShown(shown)
    BY <1>7, <1>8, <1>9, <1>10, <1>11
<1>. QED BY <1>12 DEF shown

\* A save is refused only for something that the page shows: no control that is
\* hidden, and nothing stored under an earlier trigger, reaches the validators
\* (schedule_form.js:412-416).
THEOREM RefusalIsShown == Spec => []RefusedForWhatIsShown
<1>1. Init => FieldsInv
    BY FieldsInit
<1>. QED BY <1>1, FieldsStep, RefusalShown, PTL DEF Spec

-----------------------------------------------------------------------------
(* A schedule that is opened again *)

\* The row and the action are what the form f asked for, and f shows what was
\* on the page.
StoredFrom(f) ==
    /\ saved = Shown(f) /\ schedule = SchedulePayload(f) /\ action \in StatePayload(f)
    /\ f.trigger = "time" => f.time # Blank

\* f shows the schedule of g; the light may differ.
SameSchedule(f, g) ==
    /\ f.trigger = g.trigger /\ f.days = g.days
    /\ f.start = g.start /\ f.end = g.end /\ f.annual = g.annual
    /\ IF f.trigger = "time" THEN f.time = g.time ELSE f.offset = g.offset

\* As long as the row is what a page saved, a page that opens it and is left
\* alone has the schedule first and then all that was shown.
KeptInv ==
    saved # Nothing =>
        \E f \in Controls :
            /\ StoredFrom(f)
            /\ editing /\ ~ touched /\ pc = "filled" => SameSchedule(fields, f)
            /\ editing /\ ~ touched /\ pc = "ready" => Shown(fields) = saved

LEMMA FilledAsSaved ==
    ASSUME NEW f \in Controls, NEW g \in Controls, schedule = SchedulePayload(g),
           g.trigger = "time" => g.time # Blank
    PROVE  SameSchedule(FillSchedule(f), g)
<1>. DEFINE r == FillSchedule(f)
<1>1. /\ r.trigger = schedule.trigger
      /\ r.time = IF schedule.trigger = "time" THEN schedule.time \div 60 ELSE f.time
      /\ r.offset = IF schedule.trigger = "time" THEN f.offset ELSE schedule.offset
      /\ r.days = SetDayToggles(schedule.days)
      /\ r.start = schedule.start /\ r.end = schedule.end /\ r.annual = schedule.annual
    BY ControlsAre DEF FillSchedule
<1>2. /\ schedule.trigger = g.trigger
      /\ schedule.time = IF g.trigger # "time" THEN Blank
                         ELSE IF g.time = Blank THEN BadTime ELSE 60 * g.time
      /\ schedule.offset = IF g.trigger = "time" THEN Blank ELSE g.offset
      /\ schedule.days = GetDaysOfWeekBitmask(g.days)
      /\ schedule.start = g.start /\ schedule.end = g.end /\ schedule.annual = g.annual
    BY DEF SchedulePayload
<1>3. g.days \in SUBSET Days /\ g.time \in TimeField
    BY ControlsAre DEF DaysField
<1>4. r.days = g.days
    BY <1>1, <1>2, <1>3, DaysKept
<1>5. g.trigger = "time" => r.time = g.time
    <2>. DEFINE n == g.time
    <2>1. n \in Int
        BY <1>3, FieldsAreNumbers
    <2>. HIDE DEF n
    <2>2. (60 * n) \div 60 = n
        BY <2>1
    <2>3. g.trigger = "time" => r.time = (60 * n) \div 60
        BY <1>1, <1>2 DEF n
    <2>. QED BY <2>2, <2>3 DEF n
<1>. HIDE DEF r
<1>6. SameSchedule(r, g)
    BY <1>1, <1>2, <1>4, <1>5 DEF SameSchedule
<1>. QED BY <1>6 DEF r

LEMMA ShownAsSaved ==
    ASSUME NEW f \in Controls, NEW g \in Controls, SameSchedule(f, g),
           action \in StatePayload(g), NEW r \in FillAction(f)
    PROVE  r \in Controls /\ Shown(r) = Shown(g)
<1>1. action \in Lights
    BY LightIs
<1>2. r \in Controls
    BY <1>1, LightFilled
<1>3. f.on \in BOOLEAN /\ g.on \in BOOLEAN /\ g.percent \in 1..100 /\ g.hex \in Hexes
    BY ControlsAre DEF PercentField
<1>4. CASE g.on
    <2>1. PICK bri \in PercentToBri(g.percent) : action = [on |-> TRUE, bri |-> bri, col |-> HexToRgb(g.hex)]
        BY <1>4 DEF StatePayload
    <2>2. action.on /\ action.bri = bri /\ action.col = HexToRgb(g.hex)
        BY <2>1
    <2>3. PICK pct \in BriToPercent(action.bri) :
             r \in Picked([f EXCEPT !.on = TRUE, !.percent = Slider(pct)], RgbToHex(action.col))
        BY <2>2 DEF FillAction
    <2>4. Slider(pct) = g.percent /\ RgbToHex(action.col) = g.hex
        BY <1>3, <2>2, <2>3, PercentKept, HexKept
    <2>. DEFINE b == [f EXCEPT !.on = TRUE, !.percent = g.percent]
    <2>5. b \in Controls
        BY <1>3, ControlsAre DEF PercentField
    <2>6. r \in Picked(b, g.hex)
        BY <2>3, <2>4
    <2>7. /\ b.trigger = f.trigger /\ b.time = f.time /\ b.offset = f.offset /\ b.days = f.days
          /\ b.start = f.start /\ b.end = f.end /\ b.annual = f.annual
          /\ b.on = TRUE /\ b.percent = g.percent
        BY ControlsAre
    <2>. HIDE DEF b
    <2>8. /\ r.trigger = b.trigger /\ r.time = b.time /\ r.offset = b.offset /\ r.days = b.days
          /\ r.start = b.start /\ r.end = b.end /\ r.annual = b.annual
          /\ r.on = b.on /\ r.percent = b.percent /\ r.hex = g.hex
        BY <1>3, <2>5, <2>6, PickedIs
    <2>9. g.on = TRUE
        BY <1>3, <1>4
    <2>. QED BY <1>2, <2>7, <2>8, <2>9 DEF Shown, SameSchedule
<1>5. CASE ~ g.on
    <2>1. action = [on |-> FALSE]
        BY <1>5 DEF StatePayload
    <2>2. r = [f EXCEPT !.on = FALSE]
        BY <2>1 DEF FillAction
    <2>3. /\ r.trigger = f.trigger /\ r.time = f.time /\ r.offset = f.offset /\ r.days = f.days
          /\ r.start = f.start /\ r.end = f.end /\ r.annual = f.annual /\ r.on = FALSE
        BY <2>2, ControlsAre
    <2>4. g.on = FALSE
        BY <1>3, <1>5
    <2>. QED BY <1>2, <2>3, <2>4 DEF Shown, SameSchedule
<1>. QED BY <1>3, <1>4, <1>5

LEMMA KeptStep == FieldsInv /\ KeptInv /\ [Next]_vars => KeptInv'
<1>. SUFFICES ASSUME FieldsInv, KeptInv, [Next]_vars, saved' # Nothing
              PROVE  KeptInv'
    BY DEF KeptInv
<1>1. fields \in Controls /\ (editing => schedule \in StoredRow)
    BY DEF FieldsInv, TypeOK
<1>2. ASSUME NEW f \in Controls, StoredFrom(f), saved' = saved, schedule' = schedule, action' = action,
             editing' /\ ~ touched' /\ pc' = "filled" => SameSchedule(fields', f),
             editing' /\ ~ touched' /\ pc' = "ready" => Shown(fields') = saved'
      PROVE  KeptInv'
    <2>1. StoredFrom(f)'
        BY <1>2 DEF StoredFrom
    <2>. QED BY <1>2, <2>1 DEF KeptInv, SameSchedule, Shown
<1>3. CASE LoadSchedule
    <2>1. saved' = saved /\ schedule' = schedule /\ action' = action /\ editing' = editing /\ pc' = "filled"
        BY <1>3 DEF LoadSchedule
    <2>2. PICK f \in Controls : StoredFrom(f)
        BY <2>1 DEF KeptInv
    <2>3. editing => SameSchedule(fields', f)
        BY <1>1, <1>3, <2>2, FilledAsSaved DEF LoadSchedule, StoredFrom
    <2>. QED BY <1>2, <2>1, <2>2, <2>3
<1>4. CASE LoadAction
    <2>1. saved' = saved /\ schedule' = schedule /\ action' = action /\ editing' = editing /\ pc' = "ready"
          /\ pc = "filled" /\ touched' = touched
        BY <1>4 DEF LoadAction
    <2>2. PICK f \in Controls : StoredFrom(f) /\ (editing /\ ~ touched => SameSchedule(fields, f))
        BY <2>1 DEF KeptInv
    <2>3. ASSUME editing, ~ touched PROVE Shown(fields') = saved
        <3>1. PICK r \in FillAction(fields) : fields' = UpdateRepeatAnnuallyVisibility(r)
            BY <1>4, <2>3 DEF LoadAction
        <3>2. r \in Controls /\ Shown(r) = saved
            BY <1>1, <2>2, <2>3, ShownAsSaved DEF StoredFrom
        <3>3. Shown(fields') = Shown(r)
            BY <3>1, <3>2, ControlsAre DEF UpdateRepeatAnnuallyVisibility, Shown
        <3>. QED BY <3>2, <3>3
    <2>. QED BY <1>2, <2>1, <2>2, <2>3
<1>5. CASE Enter \/ (\E t \in Triggers : ChooseTrigger(t)) \/ (\E d \in Toggled : ToggleDay(d))
    <2>1. PICK g \in Controls : Change(g)
        BY <1>1, <1>5, ChangeIs
    <2>2. saved' = saved /\ schedule' = schedule /\ action' = action /\ touched'
        BY <2>1 DEF Change
    <2>3. PICK f \in Controls : StoredFrom(f)
        BY <2>2 DEF KeptInv
    <2>. QED BY <1>2, <2>2, <2>3
<1>6. ASSUME NEW answered \in BOOLEAN, Save(answered) PROVE KeptInv'
    <2>1. schedule' = SchedulePayload(fields) /\ Valid(SchedulePayload(fields))
        BY <1>1, <1>6, NothingLeftOver DEF Save
    <2>2. fields.trigger = "time" => fields.time # Blank
        BY <1>1, <2>1, PayloadIsRow
    <2>3. /\ saved' = Shown(fields) /\ action' \in StatePayload(fields) /\ fields' = fields
          /\ pc' \in {"ready", "gone"}
        BY <1>6 DEF Save, Leave
    <2>4. StoredFrom(fields)'
        BY <2>1, <2>2, <2>3 DEF StoredFrom, Shown, SchedulePayload, StatePayload
    <2>5. Shown(fields)' = saved'
        BY <2>3 DEF Shown
    <2>. QED BY <1>1, <2>3, <2>4, <2>5 DEF KeptInv
<1>7. CASE SaveHalf
    BY <1>7 DEF SaveHalf
<1>8. CASE Cancel \/ Open
    <2>1. saved' = saved /\ schedule' = schedule /\ action' = action /\ pc' \in {"gone", "opened"}
        BY <1>8 DEF Cancel, Leave, Open
    <2>2. PICK f \in Controls : StoredFrom(f)
        BY <2>1 DEF KeptInv
    <2>. QED BY <1>2, <2>1, <2>2
<1>9. CASE UNCHANGED vars
    BY <1>9 DEF vars, KeptInv, StoredFrom, SameSchedule, Shown
<1>. QED BY <1>3, <1>4, <1>5, <1>6, <1>7, <1>8, <1>9 DEF Next

\* A schedule that is opened again shows all that was on the page when it was
\* saved, whatever the page was before.
THEOREM ReopenedIsSaved == Spec => []ReopenedAsSaved
<1>1. Init => FieldsInv /\ KeptInv
    BY FieldsInit DEF Init, KeptInv
<1>2. FieldsInv /\ KeptInv /\ [Next]_vars => FieldsInv' /\ KeptInv'
    BY FieldsStep, KeptStep
<1>3. KeptInv => ReopenedAsSaved
    BY DEF KeptInv, ReopenedAsSaved
<1>. QED BY <1>1, <1>2, <1>3, PTL DEF Spec
=============================================================================
