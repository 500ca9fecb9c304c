------------------------------ MODULE DamagePlan ------------------------------
(***************************************************************************)
(* From the damage the Core reports to the maps a driver receives          *)
(* (src/pocketjs_display.c: build_aligned_damage and the loops of          *)
(* render_transaction): every rectangle grows by a halo, is aligned, and   *)
(* merged with all the regions it touches; the regions are sorted and cut  *)
(* into chunks of as many rows as a buffer holds.  DisplayFrame takes from *)
(* here that the chunks cover the damage, once each.                       *)
(*                                                                         *)
(* Areas are half-open, [x1, x2) by [y1, y2).  An operator Faulty<Name> is *)
(* <Name> with a slip a programmer could make; Next never uses it.         *)
(***************************************************************************)
EXTENDS Naturals, Sequences

CONSTANTS
  Width, Height,
  Rects,          \* the rectangles a plan may hold: [x, y, width, height]
  MaxRegions,     \* POCKETJS_MAX_DAMAGE_REGIONS
  Setups          \* [x_alignment, y_alignment, rows]: rows fit into one buffer

(* Those of 32 bits.                                                       *)
PowersOfTwo == {a \in Nat \ {0} : \E n \in 0 .. 31 : a = 2 ^ n}

ASSUME PlanAssumption ==
  /\ {Width, Height, MaxRegions} \subseteq Nat \ {0}
  /\ Rects \subseteq [x : Nat, y : Nat, width : Nat, height : Nat]
  /\ Setups \subseteq [x_alignment : PowersOfTwo, y_alignment : PowersOfTwo, rows : Nat]

VARIABLES
  setup,
  plan,           \* the rectangles of the Core's plan taken so far
  pc,
  damage,         \* the regions of aligned_damage_t
  area, index,    \* aligned_damage_add: what is being added, the region looked at
  y,              \* the row where the next chunk of the first region starts
  maps            \* the maps submitted: [area, is_last]

vars == <<setup, plan, pc, damage, area, index, y, maps>>

NoArea == [x1 |-> 0, y1 |-> 0, x2 |-> 0, y2 |-> 0]

Init ==
  /\ setup \in Setups
  /\ plan = <<>>
  /\ pc = "plan"
  /\ damage = <<>>
  /\ area = NoArea
  /\ index = 1
  /\ y = 0
  /\ maps = <<>>

------------------------------------------------------------------------------
(* build_aligned_damage.                                                   *)

Least(a, b) == IF a < b THEN a ELSE b
Greatest(a, b) == IF a > b THEN a ELSE b
AlignDown(value, alignment) == value - (value % alignment)
FaultyAlignUpClamped(value, alignment, limit) == AlignDown(value + alignment - 1, alignment)
AlignUpClamped(value, alignment, limit) ==
  Least(limit, AlignDown(value + alignment - 1, alignment))

OnDisplay(r) ==
  /\ r.width # 0 /\ r.height # 0
  /\ r.x + r.width <= Width /\ r.y + r.height <= Height

(* One pixel more on every side, clipped.                                  *)
Halo(r) ==
  [x1 |-> IF r.x > 0 THEN r.x - 1 ELSE 0,
   y1 |-> IF r.y > 0 THEN r.y - 1 ELSE 0,
   x2 |-> Least(Width, r.x + r.width + 1),
   y2 |-> Least(Height, r.y + r.height + 1)]

FaultyAligned(a) ==
  [x1 |-> AlignDown(a.x1, setup.x_alignment),
   y1 |-> AlignDown(a.y1, setup.y_alignment),
   x2 |-> AlignDown(a.x2, setup.x_alignment),
   y2 |-> AlignDown(a.y2, setup.y_alignment)]
Aligned(a) ==
  [x1 |-> AlignDown(a.x1, setup.x_alignment),
   y1 |-> AlignDown(a.y1, setup.y_alignment),
   x2 |-> AlignUpClamped(a.x2, setup.x_alignment, Width),
   y2 |-> AlignUpClamped(a.y2, setup.y_alignment, Height)]

Touch(a, b) == a.x1 <= b.x2 /\ b.x1 <= a.x2 /\ a.y1 <= b.y2 /\ b.y1 <= a.y2
Union(a, b) ==
  [x1 |-> Least(a.x1, b.x1), y1 |-> Least(a.y1, b.y1),
   x2 |-> Greatest(a.x2, b.x2), y2 |-> Greatest(a.y2, b.y2)]

(* A rectangle that is not on the display, or of which alignment leaves    *)
(* nothing, refuses the whole plan.                                        *)
Empty(a) == a.x1 >= a.x2 \/ a.y1 >= a.y2
TakeRect(r) ==
  /\ pc = "plan" /\ Len(plan) < MaxRegions
  /\ plan' = Append(plan, r)
  /\ IF OnDisplay(r) /\ ~Empty(Aligned(Halo(r)))
     THEN area' = Aligned(Halo(r)) /\ pc' = "add"
     ELSE pc' = "refused" /\ UNCHANGED area
  /\ index' = 1
  /\ UNCHANGED <<setup, damage, y, maps>>

(* aligned_damage_add: a region that touches the area is absorbed by it,   *)
(* the last region takes its place, and the search starts over.            *)
FaultyWithoutAbsorbed == [damage EXCEPT ![index] = damage[Len(damage)]]
WithoutAbsorbed == SubSeq([damage EXCEPT ![index] = damage[Len(damage)]], 1, Len(damage) - 1)
FaultyRestart == index
Restart == 1
Absorb ==
  /\ pc = "add" /\ index <= Len(damage)
  /\ Touch(area, damage[index])
  /\ area' = Union(area, damage[index])
  /\ damage' = WithoutAbsorbed
  /\ index' = Restart
  /\ UNCHANGED <<setup, plan, pc, y, maps>>

Skip ==
  /\ pc = "add" /\ index <= Len(damage)
  /\ ~Touch(area, damage[index])
  /\ index' = index + 1
  /\ UNCHANGED <<setup, plan, pc, damage, area, y, maps>>

FaultyRoom == Len(damage) < MaxRegions - 1
Room == Len(damage) < MaxRegions
Insert ==
  /\ pc = "add" /\ index > Len(damage)
  /\ IF Room THEN damage' = Append(damage, area) /\ pc' = "plan"
     ELSE pc' = "refused" /\ UNCHANGED damage
  /\ area' = NoArea
  /\ UNCHANGED <<setup, plan, index, y, maps>>

(* aligned_damage_sort, and the check that a buffer holds an aligned       *)
(* strip.                                                                  *)
Above(a, b) == a.y1 < b.y1 \/ (a.y1 = b.y1 /\ a.x1 <= b.x1)
MaxRows == IF setup.rows < Height THEN AlignDown(setup.rows, setup.y_alignment) ELSE setup.rows
Orders ==
  {order \in [DOMAIN damage -> DOMAIN damage] :
     /\ \A m \in DOMAIN damage : \E n \in DOMAIN damage : order[n] = m
     /\ \A m, n \in DOMAIN damage :
          m < n => order[m] # order[n] /\ Above(damage[order[m]], damage[order[n]])}
Sort ==
  /\ pc = "plan" /\ damage # <<>>
  /\ \E order \in Orders : damage' = [n \in DOMAIN damage |-> damage[order[n]]]
  /\ y' = damage'[1].y1
  /\ pc' = IF setup.rows = 0 \/ setup.rows < setup.y_alignment THEN "refused" ELSE "chunks"
  /\ UNCHANGED <<setup, plan, area, index, maps>>

------------------------------------------------------------------------------
(* The loops of render_transaction.                                        *)

FaultyChunkHeight(region) == Least(region.y2 - y, setup.rows)
ChunkHeight(region) ==
  LET height == Least(region.y2 - y, MaxRows) IN
  IF y + height < region.y2 THEN AlignDown(height, setup.y_alignment) ELSE height

IsLast(end) == Len(damage) = 1 /\ end = Head(damage).y2

(* A region that is done leaves the sequence.                              *)
Chunk ==
  /\ pc = "chunks"
  /\ LET region == Head(damage)
         end == y + ChunkHeight(region)
     IN IF end = y
        THEN pc' = "refused" /\ UNCHANGED <<damage, y, maps>>
        ELSE /\ maps' = Append(maps, [area |-> [region EXCEPT !.y1 = y, !.y2 = end],
                                      is_last |-> IsLast(end)])
             /\ damage' = IF end = region.y2 THEN Tail(damage) ELSE damage
             /\ y' = IF end # region.y2 THEN end ELSE IF damage' = <<>> THEN 0
                     ELSE damage'[1].y1
             /\ pc' = IF damage' = <<>> THEN "done" ELSE "chunks"
  /\ UNCHANGED <<setup, plan, area, index>>

Done == pc \in {"done", "refused"} /\ UNCHANGED vars

Next == (\E r \in Rects : TakeRect(r)) \/ Absorb \/ Skip \/ Insert \/ Sort \/ Chunk \/ Done

Spec == Init /\ [][Next]_vars

------------------------------------------------------------------------------
(* Properties.                                                             *)

Pixels(a) == (a.x1 .. a.x2 - 1) \X (a.y1 .. a.y2 - 1)
MapPixels(n) == Pixels(maps[n].area)
Areas == [x1 : 0 .. Width, y1 : 0 .. Height, x2 : 0 .. Width, y2 : 0 .. Height]

(* Types of the state.                                                     *)
TypeOK ==
  /\ setup \in Setups
  /\ plan \in Seq(Rects) /\ Len(plan) <= MaxRegions
  /\ pc \in {"plan", "add", "chunks", "done", "refused"}
  /\ damage \in Seq(Areas) /\ Len(damage) <= MaxRegions
  /\ area \in Areas
  /\ index \in 1 .. MaxRegions + 1
  /\ y \in 0 .. Height
  /\ maps \in Seq([area : Areas, is_last : BOOLEAN])

(* Regions keep clear of each other, also after an insertion has swallowed *)
(* some of them: no pixel is drawn twice in a frame, and no map overlaps   *)
(* another that may still be in flight.                                    *)
RegionsSeparate ==
  \A m, n \in DOMAIN damage : m # n => ~Touch(damage[m], damage[n])

(* When the last map is out, the maps have covered every damaged pixel and *)
(* its neighbours, and no pixel twice.                                     *)
MapsCoverDamage ==
  pc = "done" =>
    /\ \A r \in 1 .. Len(plan) :
         Pixels(Halo(plan[r])) \subseteq UNION {MapPixels(n) : n \in DOMAIN maps}
    /\ \A m, n \in DOMAIN maps : m # n => MapPixels(m) \cap MapPixels(n) = {}

OnGrid(value, alignment, limit) == value % alignment = 0 \/ value = limit
MapsOnGrid ==
  \A n \in DOMAIN maps :
    LET a == maps[n].area IN
    /\ OnGrid(a.x1, setup.x_alignment, Width) /\ OnGrid(a.x2, setup.x_alignment, Width)
    /\ OnGrid(a.y1, setup.y_alignment, Height) /\ OnGrid(a.y2, setup.y_alignment, Height)
    /\ a.y2 - a.y1 \in 1 .. setup.rows

LastMapMarked ==
  \A n \in DOMAIN maps : maps[n].is_last <=> pc = "done" /\ n = Len(maps)

(* What the driver relies on: every edge of a map lies on its grid or on   *)
(* the edge of the display, a map has a row and no more than the buffer,   *)
(* and is_last is on the final map of the frame and on no other.           *)
MapsFit == MapsOnGrid /\ LastMapMarked

(* A plan that lies on the display is turned down only for a buffer that   *)
(* cannot hold one aligned strip: the regions always fit into their array, *)
(* and no chunk shrinks to nothing.                                        *)
RefusedForCause ==
  pc = "refused" =>
    \/ setup.rows = 0 \/ setup.rows < setup.y_alignment
    \/ \E n \in DOMAIN plan : ~OnDisplay(plan[n])

(* The work left, the coarsest measure first.                              *)
Left ==
  <<CASE pc \in {"plan", "add"} -> 2 [] pc = "chunks" -> 1 [] OTHER -> 0,
    MaxRegions - Len(plan),
    IF pc = "add" THEN 1 ELSE 0,
    Len(damage),
    CASE pc = "add" -> Len(damage) + 1 - index
      [] pc = "chunks" -> Head(damage).y2 - y
      [] OTHER -> 0>>
Below(a, b) == \E n \in DOMAIN b : a[n] < b[n] /\ \A m \in 1 .. n - 1 : a[m] = b[m]

(* The loops end: a search that starts over has one region less to look    *)
(* at, and every chunk takes a row.  So no frame hangs in its damage, and  *)
(* this without any fairness: every step leaves less to do.                *)
LeavesLess == {Left, Left'} \subseteq [1 .. 5 -> Nat] /\ Below(Left', Left)
WorkRunsOut == [][LeavesLess]_vars
=============================================================================
