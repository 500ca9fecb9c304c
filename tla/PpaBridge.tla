------------------------------- MODULE PpaBridge -------------------------------
(***************************************************************************)
(* The PPA bridges (src/pocketjs_ppa.c) that the Rust renderer calls       *)
(* through EspPpaOps (rust/src/lib.rs): the clients, and FILL, BLEND and   *)
(* SRM, which check an operation and hand it to the hardware.  A bridge    *)
(* that returns FALSE leaves the drawing to the software rasterizer.  The  *)
(* driver is external: a registration or an operation succeeds or fails.   *)
(* That a failure is logged once is left out.                              *)
(*                                                                         *)
(* size_t and uint32_t wrap at WordMax; a buffer that exists is at most    *)
(* WordMax bytes long.  An operator named Faulty<Name> is <Name> with a    *)
(* slip a programmer could make; Next never uses it.                       *)
(***************************************************************************)
EXTENDS Naturals

CONSTANTS
  WordMax,           \* SIZE_MAX and UINT32_MAX
  Steps,             \* the hardware scales in steps of 1/Steps (16)
  ScaleLimit,        \* by less than ScaleLimit (256)
  Surfaces,          \* destinations and masks: [width, height, pixels]
  Sources,           \* textures: [width, height, bytes]
  Rects,             \* [x, y, width, height]
  Colors, Alphas     \* RGB565 words, and global alphas

Word == 0 .. WordMax

ASSUME PpaAssumption ==
  /\ WordMax \in Nat /\ WordMax > 0
  /\ Steps \in 1 .. WordMax /\ ScaleLimit \in Nat \ {0}
  /\ Surfaces \subseteq [width : Word, height : Word, pixels : 0 .. WordMax \div 2]
  /\ Sources \subseteq [width : Word, height : Word, bytes : Word]
  /\ Rects \subseteq [x : Word, y : Word, width : Word, height : Word]
  /\ Colors \subseteq Nat /\ \A color \in Colors : color < 65536
  /\ Alphas \subseteq Nat /\ \A alpha \in Alphas : alpha < 256

Clients == {"fill", "blend", "srm"}

VARIABLES
  client,       \* the clients registered: s_fill, s_blend, s_srm
  asked,        \* the last operation asked for
  driven,       \* what the driver was handed for it
  handled       \* what the bridge returned

vars == <<client, asked, driven, handled>>

Nothing == [operation |-> "none"]

Init ==
  /\ client = {}
  /\ asked = Nothing
  /\ driven = Nothing
  /\ handled = FALSE

------------------------------------------------------------------------------
(* Clients.                                                                *)

(* pocketjs_ppa_init registers the three in turn; when one is refused, all *)
(* are released again.                                                     *)
PpaInit ==
  /\ asked = Nothing
  /\ \/ client' = Clients
     \/ client # Clients /\ client' = {}
  /\ UNCHANGED <<asked, driven, handled>>

PpaDeinit ==
  /\ asked = Nothing
  /\ client' = {}
  /\ UNCHANGED <<asked, driven, handled>>

------------------------------------------------------------------------------
(* The checks.                                                             *)

Mul(a, b) == (a * b) % (WordMax + 1)

FaultySurfaceIsValid(surface) ==
  /\ surface.width # 0 /\ surface.height # 0
  /\ surface.pixels = Mul(surface.width, surface.height)
SurfaceIsValid(surface) ==
  /\ surface.width # 0 /\ surface.height # 0
  /\ surface.width <= WordMax \div surface.height
  /\ surface.pixels = Mul(surface.width, surface.height)

RectIsValid(width, height, rect) ==
  /\ rect.width > 0 /\ rect.height > 0
  /\ rect.x <= width /\ rect.y <= height
  /\ rect.width <= width - rect.x /\ rect.height <= height - rect.y

SourceIsValid(source) ==
  /\ source.width # 0 /\ source.height # 0
  /\ source.width <= WordMax \div source.height
  /\ Mul(source.width, source.height) <= WordMax \div 2
  /\ source.bytes >= Mul(Mul(source.width, source.height), 2)

SwapsAxes(turn) == turn \in {1, 3}

(* exact_scale, in steps; 0 where it returns false.                        *)
FaultyScale(from, to) ==
  IF from = 0 \/ Mul(to, Steps) % from # 0
     \/ Mul(to, Steps) \div from \notin 1 .. ScaleLimit * Steps - 1
  THEN 0 ELSE Mul(to, Steps) \div from
Scale(from, to) ==
  IF from = 0 \/ to > WordMax \div Steps \/ Mul(to, Steps) % from # 0
     \/ Mul(to, Steps) \div from \notin 1 .. ScaleLimit * Steps - 1
  THEN 0 ELSE Mul(to, Steps) \div from

(* The rectangle's extent before the rotation.                             *)
Unturned(rect, turn) ==
  IF SwapsAxes(turn) THEN [width |-> rect.height, height |-> rect.width]
  ELSE [width |-> rect.width, height |-> rect.height]

------------------------------------------------------------------------------
(* The operations.                                                         *)

(* The driver is asked, and succeeds or fails; or it is not asked.         *)
Drive(operation) == driven' = operation /\ handled' \in BOOLEAN
Decline(verdict) == driven' = Nothing /\ handled' = verdict

(* Five or six bits become eight by repeating the highest ones.            *)
Red(color) == color \div 2048
Green(color) == (color \div 32) % 64
Blue(color) == color % 32
Argb(color) ==
  [r |-> Red(color) * 8 + Red(color) \div 4,
   g |-> Green(color) * 4 + Green(color) \div 16,
   b |-> Blue(color) * 8 + Blue(color) \div 4]

FillRgb565(surface, rect, color) ==
  /\ asked' = [operation |-> "fill", surface |-> surface, rect |-> rect, color |-> color]
  /\ IF /\ "fill" \in client
        /\ SurfaceIsValid(surface)
        /\ RectIsValid(surface.width, surface.height, rect)
     THEN Drive([operation |-> "fill", block |-> rect, argb |-> Argb(color)])
     ELSE Decline(FALSE)
  /\ UNCHANGED client

(* The factor of the mask, in 1/256; 256 leaves it unscaled.               *)
FixedAlpha(alpha) == IF alpha = 255 THEN 256 ELSE (alpha * 256 + 127) \div 255

(* Nothing is drawn with alpha 0.  Mask and destination share a geometry.  *)
BlendA8Rgb565(surface, mask_pixels, rect, alpha) ==
  LET mask == [surface EXCEPT !.pixels = mask_pixels] IN
  /\ asked' = [operation |-> "blend", surface |-> surface, mask |-> mask_pixels, rect |-> rect,
               alpha |-> alpha]
  /\ IF alpha = 0 THEN Decline(TRUE)
     ELSE IF /\ "blend" \in client
             /\ SurfaceIsValid(surface) /\ SurfaceIsValid(mask)
             /\ RectIsValid(surface.width, surface.height, rect)
          THEN Drive([operation |-> "blend", block |-> rect, alpha |-> FixedAlpha(alpha)])
          ELSE Decline(FALSE)
  /\ UNCHANGED client

(* The texture's block, scaled and turned by quarters, fills a rectangle.  *)
SrmPsm5650Rgb565(surface, source, from, to, turn) ==
  LET x == Scale(from.width, Unturned(to, turn).width)
      y == Scale(from.height, Unturned(to, turn).height) IN
  /\ asked' = [operation |-> "srm", surface |-> surface, source |-> source, from |-> from,
               rect |-> to, turn |-> turn]
  /\ IF /\ "srm" \in client
        /\ SurfaceIsValid(surface) /\ SourceIsValid(source)
        /\ RectIsValid(source.width, source.height, from)
        /\ RectIsValid(surface.width, surface.height, to)
        /\ turn <= 3
        /\ x # 0 /\ y # 0
     THEN Drive([operation |-> "srm", from |-> from, at |-> [x |-> to.x, y |-> to.y],
                 scale_x |-> x, scale_y |-> y, turn |-> turn])
     ELSE Decline(FALSE)
  /\ UNCHANGED client

(* What the renderer asks for; rotations come as 0 to 3 quarters.          *)
QuarterTurns == 0 .. 3
Fills ==
  /\ asked = Nothing
  /\ \E surface \in Surfaces, rect \in Rects, color \in Colors :
       FillRgb565(surface, rect, color)
Blends ==
  /\ asked = Nothing
  /\ \E surface \in Surfaces, mask \in Surfaces, rect \in Rects, alpha \in Alphas :
       BlendA8Rgb565(surface, mask.pixels, rect, alpha)
Srms ==
  /\ asked = Nothing
  /\ \E surface \in Surfaces, source \in Sources, from \in Rects, to \in Rects,
        turn \in QuarterTurns : SrmPsm5650Rgb565(surface, source, from, to, turn)

(* The bridge has returned; the renderer goes on.                          *)
Return ==
  /\ asked # Nothing
  /\ asked' = Nothing /\ driven' = Nothing /\ handled' = FALSE
  /\ UNCHANGED client

Next == PpaInit \/ PpaDeinit \/ Fills \/ Blends \/ Srms \/ Return

Spec == Init /\ [][Next]_vars

------------------------------------------------------------------------------
(* Properties.                                                             *)

(* What the hardware draws, from what it was handed.                       *)
Turned(block, turn) ==
  IF turn \in {1, 3} THEN [width |-> block.height, height |-> block.width] ELSE block
Drawn ==
  IF driven.operation # "srm" THEN driven.block
  ELSE LET scaled == [width |-> (driven.from.width * driven.scale_x) \div Steps,
                      height |-> (driven.from.height * driven.scale_y) \div Steps] IN
       [x |-> driven.at.x, y |-> driven.at.y,
        width |-> Turned(scaled, driven.turn).width, height |-> Turned(scaled, driven.turn).height]

(* A block of a picture of rows of width, stored in room pixels.           *)
Within(block, width, height, room) ==
  /\ block.x + block.width <= width
  /\ block.y + block.height <= height
  /\ width * height <= room

(* The last pixel of what is drawn lies inside the destination, and what   *)
(* is read inside the mask or the texture, in true arithmetic.             *)
BlocksInside ==
  /\ Within(Drawn, asked.surface.width, asked.surface.height, asked.surface.pixels)
  /\ asked.operation = "blend" =>
       Within(driven.block, asked.surface.width, asked.surface.height, asked.mask)
  /\ asked.operation = "srm" =>
       Within(driven.from, asked.source.width, asked.source.height, asked.source.bytes \div 2)

(* What comes back as the same RGB565 word, with white as full white.      *)
SameColor(argb, color) ==
  /\ (argb.r \div 8) * 2048 + (argb.g \div 4) * 32 + argb.b \div 8 = color
  /\ color = 65535 => argb = [r |-> 255, g |-> 255, b |-> 255]

(* An alpha to the nearest 1/256, and opaque or nothing only if it is.     *)
SameAlpha(fixed, alpha) ==
  /\ fixed * 255 <= alpha * 256 + 127 /\ alpha * 256 <= fixed * 255 + 127
  /\ fixed # 0 /\ (fixed = 256 <=> alpha = 255)

(* The hardware stays within the buffers it is given and draws what the    *)
(* renderer asked for: the very rectangle, also when it scales and turns a *)
(* texture, a fill in its color and a blend with its alpha.                *)
DrawnAsAsked ==
  driven # Nothing =>
    /\ BlocksInside
    /\ Drawn = asked.rect
    /\ asked.operation = "fill" => SameColor(driven.argb, asked.color)
    /\ asked.operation = "blend" => SameAlpha(driven.alpha, asked.alpha)

(* The geometry the hardware can take, without machine arithmetic.         *)
Fits(width, height, room, rect) ==
  /\ width * height = room /\ room # 0
  /\ rect.width # 0 /\ rect.height # 0
  /\ rect.x + rect.width <= width /\ rect.y + rect.height <= height
Scalable(from, to) ==
  /\ to * Steps <= WordMax
  /\ \E s \in 1 .. ScaleLimit * Steps - 1 : from * s = to * Steps
Possible ==
  LET surface == asked.surface IN
  /\ Fits(surface.width, surface.height, surface.pixels, asked.rect)
  /\ asked.operation = "blend" => asked.mask = surface.pixels /\ asked.alpha # 0
  /\ asked.operation = "srm" =>
       LET area == asked.source.width * asked.source.height
           block == Turned([width |-> asked.rect.width, height |-> asked.rect.height],
                           asked.turn) IN
       /\ 2 * area <= asked.source.bytes
       /\ Fits(asked.source.width, asked.source.height, area, asked.from)
       /\ Scalable(asked.from.width, block.width) /\ Scalable(asked.from.height, block.height)

(* With its client registered, an operation the hardware can do exactly is *)
(* given to it, and no other; one it was not given counts as drawn only if *)
(* there is nothing to draw.                                               *)
DrivenWhenPossible ==
  asked # Nothing =>
    /\ (driven # Nothing) <=> (asked.operation \in client /\ Possible)
    /\ driven = Nothing /\ handled => asked.operation = "blend" /\ asked.alpha = 0
=============================================================================
