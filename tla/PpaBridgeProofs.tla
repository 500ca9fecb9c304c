--------------------------- MODULE PpaBridgeProofs ---------------------------
(***************************************************************************)
(* PpaBridge for words of any width, and any surfaces, textures and        *)
(* rectangles: what the bridges hand to the hardware draws what the        *)
(* renderer asked for and stays within the buffers, and they hand over     *)
(* everything the hardware can do.                                         *)
(***************************************************************************)
EXTENDS PpaBridge, Integers, TLAPS

------------------------------------------------------------------------------
(* Arithmetic.                                                             *)

(* A division that leaves no remainder is undone by a product.             *)
LEMMA ExactDivision ==
  ASSUME NEW a \in Nat \ {0}, NEW b \in Nat
  PROVE  /\ b \div a \in Nat
         /\ b % a = 0 => a * (b \div a) = b
         /\ \A s \in Nat : a * s = b => b % a = 0 /\ b \div a = s
<1>1. b \div a \in Nat /\ b = a * (b \div a) + (b % a) /\ b % a \in 0 .. a - 1
    OBVIOUS
<1>2. b % a = 0 => a * (b \div a) = b
    BY <1>1
<1>3. ASSUME NEW s \in Nat, a * s = b
      PROVE  b % a = 0 /\ b \div a = s
    BY <1>3
<1> QED
    BY <1>1, <1>2, <1>3

(* a <= WordMax / b is that the product fits, and then it does not wrap.   *)
LEMMA ProductFits ==
  ASSUME NEW a \in Nat, NEW b \in Nat \ {0}
  PROVE  /\ a <= WordMax \div b <=> a * b <= WordMax
         /\ a * b <= WordMax => Mul(a, b) = a * b
         /\ a * b \in Nat
<1>1. WordMax \in Nat
    BY PpaAssumption
<1>2. WordMax = b * (WordMax \div b) + (WordMax % b) /\ WordMax % b \in 0 .. b - 1
      /\ WordMax \div b \in Nat
    BY <1>1
<1> DEFINE q == WordMax \div b
           r == WordMax % b
<1>3. a * b \in Nat /\ b * q \in Nat
    BY <1>2
<1>4. a <= q => a * b <= b * q
    BY <1>2
<1>5. ~(a <= q) => a * b >= b * q + b
    BY <1>2
<1>6. a <= q <=> a * b <= WordMax
    <2> HIDE DEF q, r
    <2> QED
        BY <1>1, <1>2, <1>3, <1>4, <1>5 DEF q, r
<1>7. a * b <= WordMax => Mul(a, b) = a * b
    BY <1>1, <1>3 DEF Mul
<1> QED
    BY <1>3, <1>6, <1>7

LEMMA PpaConstants ==
  /\ WordMax \in Nat \ {0} /\ Steps \in Nat \ {0} /\ ScaleLimit \in Nat \ {0}
  /\ \A surface \in Surfaces : /\ surface.width \in Nat /\ surface.height \in Nat
                                /\ surface.pixels \in Nat /\ surface.pixels <= WordMax
  /\ \A source \in Sources : /\ source.width \in Nat /\ source.height \in Nat
                              /\ source.bytes \in Nat /\ source.bytes <= WordMax
  /\ \A rect \in Rects : /\ rect.x \in Nat /\ rect.y \in Nat
                          /\ rect.width \in Nat /\ rect.height \in Nat
  /\ \A color \in Colors : color \in Nat /\ color < 65536
  /\ \A alpha \in Alphas : alpha \in Nat /\ alpha < 256
<1>1. WordMax \in Nat \ {0} /\ Steps \in Nat \ {0} /\ ScaleLimit \in Nat \ {0}
    BY PpaAssumption
<1>2. /\ \A n \in Word : n \in Nat /\ n <= WordMax
      /\ \A n \in 0 .. WordMax \div 2 : n \in Nat /\ n <= WordMax
    BY <1>1 DEF Word
<1>3. \A surface \in Surfaces : /\ surface.width \in Word /\ surface.height \in Word
                                /\ surface.pixels \in 0 .. WordMax \div 2
    BY PpaAssumption
<1>4. /\ \A source \in Sources : /\ source.width \in Word /\ source.height \in Word
                                  /\ source.bytes \in Word
      /\ \A rect \in Rects : /\ rect.x \in Word /\ rect.y \in Word
                              /\ rect.width \in Word /\ rect.height \in Word
      /\ \A color \in Colors : color \in Nat /\ color < 65536
      /\ \A alpha \in Alphas : alpha \in Nat /\ alpha < 256
    BY PpaAssumption
<1> QED
    BY <1>1, <1>2, <1>3, <1>4

------------------------------------------------------------------------------
(* The checks mean in machine arithmetic what they should.                 *)

(* Whatever pixels are claimed for a width and a height.                   *)
LEMMA SurfaceCheck ==
  ASSUME NEW surface, surface.width \in Nat, surface.height \in Nat, surface.pixels \in Nat,
         surface.pixels <= WordMax
  PROVE  SurfaceIsValid(surface) <=>
           surface.width * surface.height = surface.pixels /\ surface.pixels # 0
<1> DEFINE w == surface.width
           h == surface.height
           n == surface.pixels
<1>1. SurfaceIsValid(surface) <=> w # 0 /\ h # 0 /\ w <= WordMax \div h /\ n = Mul(w, h)
    BY DEF SurfaceIsValid
<1> HIDE DEF w, h, n
<1>2. w \in Nat /\ h \in Nat /\ n \in Nat /\ n <= WordMax
    BY DEF w, h, n
<1>3. CASE h = 0 \/ w = 0
    BY <1>1, <1>2, <1>3 DEF w, h, n
<1>4. CASE h # 0 /\ w # 0
    <2>1. w * h # 0
        BY <1>2, <1>4
    <2>2. /\ w <= WordMax \div h <=> w * h <= WordMax
          /\ w * h <= WordMax => Mul(w, h) = w * h
        BY <1>2, <1>4, ProductFits
    <2>3. SurfaceIsValid(surface) <=> w * h = n /\ n # 0
        BY <1>1, <1>2, <1>4, <2>1, <2>2
    <2> QED
        BY <2>3 DEF w, h, n
<1> QED
    BY <1>3, <1>4

LEMMA RectCheck ==
  ASSUME NEW width \in Nat, NEW height \in Nat, NEW rect \in Rects
  PROVE  RectIsValid(width, height, rect) <=>
           /\ rect.width # 0 /\ rect.height # 0
           /\ rect.x + rect.width <= width /\ rect.y + rect.height <= height
<1> DEFINE x == rect.x
           y == rect.y
           w == rect.width
           h == rect.height
<1>1. x \in Nat /\ y \in Nat /\ w \in Nat /\ h \in Nat
    BY PpaConstants
<1>2. RectIsValid(width, height, rect) <=>
        /\ w > 0 /\ h > 0 /\ x <= width /\ y <= height
        /\ w <= width - x /\ h <= height - y
    BY DEF RectIsValid
<1> HIDE DEF x, y, w, h
<1>3. RectIsValid(width, height, rect) <=>
        w # 0 /\ h # 0 /\ x + w <= width /\ y + h <= height
    BY <1>1, <1>2
<1> QED
    BY <1>3 DEF x, y, w, h

LEMMA SourceCheck ==
  ASSUME NEW source \in Sources
  PROVE  SourceIsValid(source) <=>
           /\ source.width # 0 /\ source.height # 0
           /\ 2 * (source.width * source.height) <= source.bytes
<1> DEFINE w == source.width
           h == source.height
           n == source.bytes
<1>1. SourceIsValid(source) <=>
        /\ w # 0 /\ h # 0 /\ w <= WordMax \div h /\ Mul(w, h) <= WordMax \div 2
        /\ n >= Mul(Mul(w, h), 2)
    BY DEF SourceIsValid
<1> HIDE DEF w, h, n
<1>2. w \in Nat /\ h \in Nat /\ n \in Nat /\ n <= WordMax /\ WordMax \in Nat
    BY PpaConstants DEF w, h, n
<1>3. CASE h = 0 \/ w = 0
    BY <1>1, <1>3 DEF w, h, n
<1>4. CASE h # 0 /\ w # 0
    <2>1. /\ w <= WordMax \div h <=> w * h <= WordMax
          /\ w * h <= WordMax => Mul(w, h) = w * h
          /\ w * h \in Nat
        BY <1>2, <1>4, ProductFits
    <2>2. /\ w * h <= WordMax \div 2 <=> (w * h) * 2 <= WordMax
          /\ (w * h) * 2 <= WordMax => Mul(w * h, 2) = (w * h) * 2
        BY <2>1, ProductFits
    <2> DEFINE area == w * h
    <2>3. SourceIsValid(source) <=> area * 2 <= n
        <3>1. area \in Nat
            BY <2>1
        <3>2. area * 2 <= WordMax => area <= WordMax
            BY <1>2, <3>1
        <3> HIDE DEF area
        <3>3. CASE area * 2 <= WordMax
            BY <1>1, <1>2, <1>4, <2>1, <2>2, <3>1, <3>2, <3>3 DEF area
        <3>4. CASE ~(area * 2 <= WordMax)
            BY <1>1, <1>2, <1>4, <2>1, <2>2, <3>1, <3>2, <3>4 DEF area
        <3> QED
            BY <3>3, <3>4
    <2> QED
        BY <1>2, <1>4, <2>1, <2>3 DEF w, h, n
<1> QED
    BY <1>3, <1>4

(* exact_scale finds the scale that is exact, if there is one, and a block *)
(* scaled by it has the very size asked for.                               *)
LEMMA ScaleIsExact ==
  ASSUME NEW from \in Nat \ {0}, NEW to \in Nat
  PROVE  /\ Scale(from, to) \in Nat
         /\ Scale(from, to) # 0 <=> Scalable(from, to)
         /\ Scale(from, to) # 0 => (from * Scale(from, to)) \div Steps = to
<1> DEFINE most == ScaleLimit * Steps - 1
<1>1. /\ WordMax \in Nat /\ Steps \in Nat \ {0} /\ ScaleLimit \in Nat \ {0}
    BY PpaConstants
<1>0. most \in Nat
    <2>1. ScaleLimit * Steps \in Nat /\ ScaleLimit * Steps # 0
        BY <1>1
    <2> QED
        BY <2>1
<1> HIDE DEF most
<1>2. /\ to <= WordMax \div Steps <=> to * Steps <= WordMax
      /\ to * Steps <= WordMax => Mul(to, Steps) = to * Steps
      /\ to * Steps \in Nat /\ WordMax \div Steps \in Nat
    BY <1>1, ProductFits
<1>3. Scale(from, to) =
        IF to > WordMax \div Steps \/ Mul(to, Steps) % from # 0
           \/ Mul(to, Steps) \div from \notin 1 .. most
        THEN 0 ELSE Mul(to, Steps) \div from
    BY DEF Scale, most
<1>4. Scalable(from, to) <=> to * Steps <= WordMax /\ \E s \in 1 .. most : from * s = to * Steps
    BY DEF Scalable, most
<1>5. CASE ~(to * Steps <= WordMax)
    BY <1>1, <1>2, <1>3, <1>4, <1>5
<1>6. CASE to * Steps <= WordMax
    <2> DEFINE product == to * Steps
               scale == product \div from
    <2>1. product \in Nat /\ ~(to > WordMax \div Steps) /\ Mul(to, Steps) = product
        BY <1>2, <1>6
    <2>2. /\ scale \in Nat
          /\ product % from = 0 => from * scale = product
          /\ \A s \in Nat : from * s = product => product % from = 0 /\ scale = s
        BY <2>1, ExactDivision
    <2>3. product \div Steps = to
        BY <1>1, ExactDivision
    <2>4. Scale(from, to) = IF product % from # 0 \/ scale \notin 1 .. most THEN 0 ELSE scale
        BY <1>3, <2>1
    <2>5. Scalable(from, to) <=> \E s \in 1 .. most : from * s = product
        BY <1>4, <1>6
    <2> HIDE DEF product, scale
    <2>6. Scalable(from, to) <=> product % from = 0 /\ scale \in 1 .. most
        <3>1. 1 .. most \subseteq Nat
            BY <1>0
        <3> QED
            BY <2>2, <2>5, <3>1
    <2>7. 0 \notin 1 .. most
        BY <1>0
    <2> QED
        BY <2>2, <2>3, <2>4, <2>6, <2>7
<1> QED
    BY <1>5, <1>6

(* Five and six bits made eight come back as they were.                    *)
LEMMA ColorKept ==
  ASSUME NEW color \in Nat, color < 65536
  PROVE  SameColor(Argb(color), color)
<1> DEFINE r == color \div 2048
           g == (color \div 32) % 64
           b == color % 32
<1>1. r \in 0 .. 31 /\ g \in 0 .. 63 /\ b \in 0 .. 31 /\ color = 2048 * r + 32 * g + b
    OBVIOUS
<1>2. Argb(color) = [r |-> r * 8 + (r \div 4), g |-> g * 4 + (g \div 16), b |-> b * 8 + (b \div 4)]
    BY DEF Argb, Red, Green, Blue
<1> HIDE DEF r, g, b
<1>3. /\ (r * 8 + (r \div 4)) \div 8 = r /\ (g * 4 + (g \div 16)) \div 4 = g
      /\ (b * 8 + (b \div 4)) \div 8 = b
    BY <1>1
<1>4. color = 65535 => r = 31 /\ g = 63 /\ b = 31
    BY <1>1
<1>5. color = 65535 => /\ r * 8 + (r \div 4) = 255 /\ g * 4 + (g \div 16) = 255
                       /\ b * 8 + (b \div 4) = 255
    BY <1>1, <1>4
<1>6. r * 2048 + g * 32 + b = color
    BY <1>1
<1> QED
    BY <1>2, <1>3, <1>5, <1>6 DEF SameColor

LEMMA AlphaKept ==
  ASSUME NEW alpha \in Nat, alpha < 256, alpha # 0
  PROVE  SameAlpha(FixedAlpha(alpha), alpha)
BY DEF SameAlpha, FixedAlpha

------------------------------------------------------------------------------
(* The invariant.                                                          *)

BridgeInv == (asked = Nothing => driven = Nothing) /\ DrawnAsAsked /\ DrivenWhenPossible

(* The geometry that FILL and BLEND check is the geometry that fits.       *)
LEMMA GeometryCheck ==
  ASSUME NEW surface \in Surfaces, NEW rect \in Rects
  PROVE  /\ SurfaceIsValid(surface) /\ RectIsValid(surface.width, surface.height, rect)
              <=> Fits(surface.width, surface.height, surface.pixels, rect)
         /\ Fits(surface.width, surface.height, surface.pixels, rect) =>
              Within(rect, surface.width, surface.height, surface.pixels)
<1>1. /\ surface.width \in Nat /\ surface.height \in Nat
      /\ surface.pixels \in Nat /\ surface.pixels <= WordMax
    BY PpaConstants
<1>2. SurfaceIsValid(surface) <=>
        surface.width * surface.height = surface.pixels /\ surface.pixels # 0
    BY <1>1, SurfaceCheck
<1>3. RectIsValid(surface.width, surface.height, rect) <=>
        /\ rect.width # 0 /\ rect.height # 0
        /\ rect.x + rect.width <= surface.width /\ rect.y + rect.height <= surface.height
    BY <1>1, RectCheck
<1>4. Fits(surface.width, surface.height, surface.pixels, rect) <=>
        /\ surface.width * surface.height = surface.pixels /\ surface.pixels # 0
        /\ rect.width # 0 /\ rect.height # 0
        /\ rect.x + rect.width <= surface.width /\ rect.y + rect.height <= surface.height
    BY DEF Fits
<1>5. surface.width * surface.height = surface.pixels =>
        surface.width * surface.height <= surface.pixels
    BY <1>1
<1> QED
    BY <1>2, <1>3, <1>4, <1>5, Zenon DEF Within

LEMMA FillsKeep ==
  ASSUME NEW surface \in Surfaces, NEW rect \in Rects, NEW color \in Colors,
         FillRgb565(surface, rect, color)
  PROVE  BridgeInv'
<1>1. /\ asked' # Nothing /\ asked'.operation = "fill" /\ asked'.surface = surface
      /\ asked'.rect = rect /\ asked'.color = color /\ client' = client
    BY DEF FillRgb565, Nothing
<1> DEFINE fits == Fits(surface.width, surface.height, surface.pixels, rect)
<1>2. Possible' <=> fits
    BY <1>1 DEF Possible
<1>3. CASE "fill" \in client /\ fits
    <2>1. driven' = [operation |-> "fill", block |-> rect, argb |-> Argb(color)]
        BY <1>3, GeometryCheck DEF FillRgb565, Drive
    <2>2. driven' # Nothing /\ driven'.operation = "fill" /\ driven'.block = rect
          /\ driven'.argb = Argb(color)
        BY <2>1 DEF Nothing
    <2>3. Drawn' = rect
        BY <2>2 DEF Drawn
    <2>4. BlocksInside'
        BY <1>1, <1>3, <2>3, GeometryCheck DEF BlocksInside
    <2>5. SameColor(driven'.argb, color)
        BY <2>2, PpaConstants, ColorKept
    <2> QED
        BY <1>1, <1>2, <1>3, <2>2, <2>3, <2>4, <2>5
           DEF BridgeInv, DrawnAsAsked, DrivenWhenPossible
<1>4. CASE ~("fill" \in client /\ fits)
    <2>1. driven' = Nothing /\ handled' = FALSE
        BY <1>4, GeometryCheck DEF FillRgb565, Decline
    <2> QED
        BY <1>1, <1>2, <1>4, <2>1 DEF BridgeInv, DrawnAsAsked, DrivenWhenPossible
<1> QED
    BY <1>3, <1>4

LEMMA BlendsKeep ==
  ASSUME NEW surface \in Surfaces, NEW other \in Surfaces, NEW rect \in Rects,
         NEW alpha \in Alphas, BlendA8Rgb565(surface, other.pixels, rect, alpha)
  PROVE  BridgeInv'
<1>1. /\ asked' # Nothing /\ asked'.operation = "blend" /\ asked'.surface = surface
      /\ asked'.mask = other.pixels /\ asked'.rect = rect /\ asked'.alpha = alpha
      /\ client' = client
    BY DEF BlendA8Rgb565, Nothing
<1> DEFINE fits == Fits(surface.width, surface.height, surface.pixels, rect)
           mask == [surface EXCEPT !.pixels = other.pixels]
<1>2. /\ surface.width \in Nat /\ surface.height \in Nat /\ surface.pixels \in Nat
      /\ other.pixels \in Nat /\ other.pixels <= WordMax /\ surface.pixels <= WordMax
    BY PpaConstants
<1>3. mask.width = surface.width /\ mask.height = surface.height /\ mask.pixels = other.pixels
    BY PpaAssumption
<1>4. SurfaceIsValid(mask) <=>
        surface.width * surface.height = other.pixels /\ other.pixels # 0
    BY <1>2, <1>3, SurfaceCheck
<1>5. Possible' <=> fits /\ other.pixels = surface.pixels /\ alpha # 0
    BY <1>1 DEF Possible
<1>6. fits => surface.width * surface.height = surface.pixels /\ surface.pixels # 0
    BY DEF Fits
<1>7. fits /\ SurfaceIsValid(mask) <=> fits /\ other.pixels = surface.pixels
    BY <1>4, <1>6
<1>8. CASE alpha # 0 /\ "blend" \in client /\ fits /\ SurfaceIsValid(mask)
    <2>1. driven' = [operation |-> "blend", block |-> rect, alpha |-> FixedAlpha(alpha)]
        BY <1>8, GeometryCheck DEF BlendA8Rgb565, Drive
    <2>2. driven' # Nothing /\ driven'.operation = "blend" /\ driven'.block = rect
          /\ driven'.alpha = FixedAlpha(alpha)
        BY <2>1 DEF Nothing
    <2>3. Drawn' = rect
        BY <2>2 DEF Drawn
    <2>4. BlocksInside'
        BY <1>1, <1>7, <1>8, <2>2, <2>3, GeometryCheck DEF BlocksInside
    <2>5. SameAlpha(driven'.alpha, alpha)
        BY <1>8, <2>2, PpaConstants, AlphaKept
    <2> QED
        BY <1>1, <1>5, <1>7, <1>8, <2>2, <2>3, <2>4, <2>5
           DEF BridgeInv, DrawnAsAsked, DrivenWhenPossible
<1>9. CASE ~(alpha # 0 /\ "blend" \in client /\ fits /\ SurfaceIsValid(mask))
    <2>1. driven' = Nothing /\ (handled' => alpha = 0)
        BY <1>9, GeometryCheck DEF BlendA8Rgb565, Decline
    <2> QED
        BY <1>1, <1>5, <1>7, <1>9, <2>1 DEF BridgeInv, DrawnAsAsked, DrivenWhenPossible
<1> QED
    BY <1>8, <1>9

(* SRM's checks are those of the geometry that fits and of exact scales.   *)
LEMMA TextureCheck ==
  ASSUME NEW source \in Sources, NEW from \in Rects
  PROVE  LET area == source.width * source.height IN
         /\ SourceIsValid(source) /\ RectIsValid(source.width, source.height, from)
              <=> 2 * area <= source.bytes /\ Fits(source.width, source.height, area, from)
         /\ 2 * area <= source.bytes /\ Fits(source.width, source.height, area, from) =>
              /\ Within(from, source.width, source.height, source.bytes \div 2)
              /\ from.width \in Nat \ {0} /\ from.height \in Nat \ {0}
<1> DEFINE w == source.width
           h == source.height
           n == source.bytes
           area == w * h
<1>1. w \in Nat /\ h \in Nat /\ n \in Nat /\ from.width \in Nat /\ from.height \in Nat
    BY PpaConstants
<1>2. SourceIsValid(source) <=> w # 0 /\ h # 0 /\ 2 * area <= n
    BY SourceCheck
<1>3. RectIsValid(w, h, from) <=>
        /\ from.width # 0 /\ from.height # 0
        /\ from.x + from.width <= w /\ from.y + from.height <= h
    BY <1>1, RectCheck
<1>4. Fits(w, h, area, from) <=>
        /\ area # 0 /\ from.width # 0 /\ from.height # 0
        /\ from.x + from.width <= w /\ from.y + from.height <= h
    BY DEF Fits
<1>5. area \in Nat /\ (area # 0 <=> w # 0 /\ h # 0)
    BY <1>1
<1> HIDE DEF w, h, n, area
<1>6. 2 * area <= n => area <= n \div 2
    BY <1>1, <1>5
<1>7. Within(from, w, h, n \div 2) <=>
        from.x + from.width <= w /\ from.y + from.height <= h /\ area <= n \div 2
    BY DEF Within, area
<1>8. /\ SourceIsValid(source) /\ RectIsValid(w, h, from)
           <=> 2 * area <= n /\ Fits(w, h, area, from)
      /\ 2 * area <= n /\ Fits(w, h, area, from) =>
           /\ Within(from, w, h, n \div 2)
           /\ from.width \in Nat \ {0} /\ from.height \in Nat \ {0}
    BY <1>1, <1>2, <1>3, <1>4, <1>5, <1>6, <1>7
<1> QED
    BY <1>8 DEF w, h, n, area

LEMMA SrmsKeep ==
  ASSUME NEW surface \in Surfaces, NEW source \in Sources, NEW from \in Rects,
         NEW to \in Rects, NEW turn \in QuarterTurns,
         SrmPsm5650Rgb565(surface, source, from, to, turn)
  PROVE  BridgeInv'
<1> DEFINE block == Unturned(to, turn)
           area == source.width * source.height
           x == Scale(from.width, block.width)
           y == Scale(from.height, block.height)
           fits == Fits(surface.width, surface.height, surface.pixels, to)
           texture == 2 * area <= source.bytes /\ Fits(source.width, source.height, area, from)
<1>1. /\ asked' # Nothing /\ asked'.operation = "srm" /\ asked'.surface = surface
      /\ asked'.source = source /\ asked'.from = from /\ asked'.rect = to /\ asked'.turn = turn
      /\ client' = client
    BY DEF SrmPsm5650Rgb565, Nothing
<1>2. /\ block.width \in Nat /\ block.height \in Nat
      /\ block.width = (IF turn \in {1, 3} THEN to.height ELSE to.width)
      /\ block.height = (IF turn \in {1, 3} THEN to.width ELSE to.height)
      /\ Turned([width |-> to.width, height |-> to.height], turn) = block
    BY PpaConstants DEF Unturned, SwapsAxes, Turned
<1>3. turn <= 3
    BY DEF QuarterTurns
<1>4. /\ texture <=> SourceIsValid(source) /\ RectIsValid(source.width, source.height, from)
      /\ texture => /\ Within(from, source.width, source.height, source.bytes \div 2)
                    /\ from.width \in Nat \ {0} /\ from.height \in Nat \ {0}
    BY TextureCheck
<1>5. texture => /\ x # 0 <=> Scalable(from.width, block.width)
                 /\ y # 0 <=> Scalable(from.height, block.height)
                 /\ x # 0 => (from.width * x) \div Steps = block.width
                 /\ y # 0 => (from.height * y) \div Steps = block.height
    BY <1>2, <1>4, ScaleIsExact
<1> HIDE DEF block
<1>6. Possible' <=> /\ fits /\ texture
                    /\ Scalable(from.width, block.width) /\ Scalable(from.height, block.height)
    BY <1>1, <1>2 DEF Possible
<1> DEFINE given == "srm" \in client /\ fits /\ texture /\ x # 0 /\ y # 0
<1>7. given <=> /\ "srm" \in client
                /\ SurfaceIsValid(surface) /\ SourceIsValid(source)
                /\ RectIsValid(source.width, source.height, from)
                /\ RectIsValid(surface.width, surface.height, to)
                /\ turn <= 3
                /\ x # 0 /\ y # 0
    BY <1>3, <1>4, GeometryCheck
<1>8. given <=> "srm" \in client /\ Possible'
    BY <1>5, <1>6
<1>9. CASE given
    <2>1. driven' = [operation |-> "srm", from |-> from, at |-> [x |-> to.x, y |-> to.y],
                     scale_x |-> x, scale_y |-> y, turn |-> turn]
        BY <1>7, <1>9 DEF SrmPsm5650Rgb565, Drive, block
    <2>2. /\ driven' # Nothing /\ driven'.operation = "srm" /\ driven'.from = from
          /\ driven'.at.x = to.x /\ driven'.at.y = to.y
          /\ driven'.scale_x = x /\ driven'.scale_y = y /\ driven'.turn = turn
        BY <2>1 DEF Nothing
    <2>3. Drawn' = to
        <3> DEFINE scaled == [width |-> (from.width * x) \div Steps,
                              height |-> (from.height * y) \div Steps]
        <3>1. scaled = [width |-> block.width, height |-> block.height]
            BY <1>5, <1>9
        <3>2. Turned(scaled, turn).width = to.width /\ Turned(scaled, turn).height = to.height
            BY <1>2, <3>1 DEF Turned
        <3>3. Drawn' = [x |-> to.x, y |-> to.y, width |-> Turned(scaled, turn).width,
                        height |-> Turned(scaled, turn).height]
            BY <2>2 DEF Drawn
        <3>4. to = [x |-> to.x, y |-> to.y, width |-> to.width, height |-> to.height]
            BY PpaAssumption
        <3> QED
            BY <3>2, <3>3, <3>4
    <2>4. BlocksInside'
        BY <1>1, <1>4, <1>9, <2>2, <2>3, GeometryCheck DEF BlocksInside
    <2> QED
        BY <1>1, <1>8, <1>9, <2>2, <2>3, <2>4 DEF BridgeInv, DrawnAsAsked, DrivenWhenPossible
<1>10. CASE ~given
    <2>1. driven' = Nothing /\ handled' = FALSE
        BY <1>7, <1>10 DEF SrmPsm5650Rgb565, Decline, block
    <2> QED
        BY <1>1, <1>8, <1>10, <2>1 DEF BridgeInv, DrawnAsAsked, DrivenWhenPossible
<1> QED
    BY <1>9, <1>10

------------------------------------------------------------------------------
(* The theorems.                                                           *)

LEMMA BridgeInvariant == Spec => []BridgeInv
<1>1. Init => BridgeInv
    BY DEF Init, BridgeInv, DrawnAsAsked, DrivenWhenPossible
<1>2. BridgeInv /\ [Next]_vars => BridgeInv'
    <2> SUFFICES ASSUME BridgeInv, [Next]_vars PROVE BridgeInv'
        OBVIOUS
    <2>1. CASE PpaInit \/ PpaDeinit
        <3>1. asked = Nothing /\ asked' = Nothing /\ driven' = driven
            BY <2>1 DEF PpaInit, PpaDeinit
        <3> QED
            BY <3>1 DEF BridgeInv, DrawnAsAsked, DrivenWhenPossible
    <2>2. CASE Fills
        BY <2>2, FillsKeep DEF Fills
    <2>3. CASE Blends
        BY <2>3, BlendsKeep DEF Blends
    <2>4. CASE Srms
        BY <2>4, SrmsKeep DEF Srms
    <2>5. CASE Return
        BY <2>5 DEF Return, BridgeInv, DrawnAsAsked, DrivenWhenPossible
    <2>6. CASE UNCHANGED vars
        BY <2>6 DEF vars, BridgeInv, DrawnAsAsked, DrivenWhenPossible, BlocksInside, Drawn,
                    Possible
    <2> QED
        BY <2>1, <2>2, <2>3, <2>4, <2>5, <2>6 DEF Next
<1> QED
    BY <1>1, <1>2, PTL DEF Spec

(* DrawnAsAsked: whatever sizes and rectangles pass the checks of          *)
(* pocketjs_ppa.c, the hardware stays within the destination, the mask and *)
(* the texture, and draws the rectangle, color and alpha it was asked for. *)
THEOREM HardwareDrawsAsAsked == Spec => []DrawnAsAsked
BY BridgeInvariant, PTL DEF BridgeInv

(* DrivenWhenPossible: the checks, in words that wrap, let through exactly *)
(* the operations the hardware can do; nothing else counts as drawn but a  *)
(* blend with alpha 0.                                                     *)
THEOREM HardwareDoesWhatItCan == Spec => []DrivenWhenPossible
BY BridgeInvariant, PTL DEF BridgeInv
=============================================================================
