--------------------------- MODULE DamagePlanProofs ---------------------------
(***************************************************************************)
(* DamagePlan for displays, plans, alignments and buffers of any size: the *)
(* maps lie on the grid and within the buffer, the regions keep clear of   *)
(* each other, the maps cover the damage with its halo once each, and no   *)
(* plan that lies on the display is refused but for its buffer.            *)
(***************************************************************************)
EXTENDS DamagePlan, Integers, SequenceTheorems, TLAPS

------------------------------------------------------------------------------
(* Alignment.                                                              *)

(* Division with remainder, as the arithmetic of TLA+ has it.              *)
LEMMA DivMod ==
  ASSUME NEW a \in Nat \ {0}, NEW value \in Nat
  PROVE  /\ value \div a \in Nat /\ value % a \in 0 .. a - 1
         /\ value = a * (value \div a) + (value % a)
BY Z3

(* No multiple lies strictly between 0 and the next one.                   *)
LEMMA Between ==
  ASSUME NEW a \in Nat \ {0}, NEW k \in Int, NEW r \in 0 .. a - 1, a * k = r
  PROVE  r = 0
<1>1. CASE k = 0
    BY <1>1
<1>2. CASE k >= 1
    <2>1. a * k >= a
        BY <1>2, Z3
    <2> QED
        BY <2>1
<1>3. CASE k <= -1
    <2>1. a * k <= -a
        BY <1>3, Z3
    <2> QED
        BY <2>1
<1> QED
    BY <1>1, <1>2, <1>3

LEMMA Multiple ==
  ASSUME NEW a \in Nat \ {0}, NEW k \in Nat
  PROVE  (a * k) % a = 0
<1> DEFINE d == (a * k) \div a
           r == (a * k) % a
<1>1. a * k \in Nat
    BY Z3
<1>2. d \in Nat /\ r \in 0 .. a - 1 /\ a * k = a * d + r
    BY <1>1, DivMod
<1> HIDE DEF d, r
<1>3. a * (k - d) = r /\ k - d \in Int
    BY <1>2, Z3
<1>4. r = 0
    BY <1>2, <1>3, Between
<1> QED
    BY <1>4 DEF r

(* align_down gives the last multiple up to a value.                       *)
LEMMA DownIsLast ==
  ASSUME NEW a \in Nat \ {0}, NEW value \in Nat
  PROVE  /\ AlignDown(value, a) \in Nat
         /\ AlignDown(value, a) <= value /\ value < AlignDown(value, a) + a
         /\ AlignDown(value, a) % a = 0
         /\ value % a = 0 => AlignDown(value, a) = value
         /\ value >= a => AlignDown(value, a) >= a
<1> DEFINE d == value \div a
           r == value % a
<1>1. d \in Nat /\ r \in 0 .. a - 1 /\ value = a * d + r
    BY DivMod
<1>2. (a * d) % a = 0
    BY <1>1, Multiple
<1> HIDE DEF d, r
<1>3. a * d \in Nat /\ value - r = a * d
    <2>1. a * d \in Nat
        BY <1>1, Z3
    <2> QED
        BY <1>1, <2>1
<1>4. value >= a => a * d >= a
    <2>1. d = 0 => value < a
        BY <1>1, Z3
    <2>2. d >= 1 => a * d >= a
        BY <1>1, Z3
    <2> QED
        BY <1>1, <2>1, <2>2
<1>5. AlignDown(value, a) = a * d
    BY <1>3 DEF AlignDown, r
<1>6. value % a = 0 => value = a * d
    BY <1>3, <1>1 DEF r
<1> QED
    BY <1>1, <1>2, <1>3, <1>4, <1>5, <1>6

(* Multiples add up to a multiple.                                         *)
LEMMA MultiplesAdd ==
  ASSUME NEW a \in Nat \ {0}, NEW u \in Nat, NEW v \in Nat, u % a = 0, v % a = 0
  PROVE  (u + v) % a = 0
<1> DEFINE d == u \div a
           e == v \div a
<1>1. d \in Nat /\ e \in Nat /\ u = a * d /\ v = a * e
    <2>1. d \in Nat /\ e \in Nat /\ a * d \in Nat /\ a * e \in Nat
        BY DivMod, Z3
    <2> QED
        BY DivMod, <2>1
<1> HIDE DEF d, e
<1>2. u + v = a * (d + e)
    BY <1>1, Z3
<1>3. (a * (d + e)) % a = 0
    BY <1>1, Multiple
<1> QED
    BY <1>2, <1>3

(* align_up_clamped gives a grid line past the value, or the far edge.     *)
LEMMA UpIsNext ==
  ASSUME NEW a \in Nat \ {0}, NEW limit \in Nat, NEW value \in 0 .. limit
  PROVE  /\ AlignUpClamped(value, a, limit) \in value .. limit
         /\ OnGrid(AlignUpClamped(value, a, limit), a, limit)
<1>1. a \in Nat /\ a > 0
    OBVIOUS
<1> DEFINE up == AlignDown(value + a - 1, a)
<1>2. value + a - 1 \in Nat
    BY <1>1
<1>3. up \in Nat /\ value + a - 1 < up + a /\ up % a = 0
    BY <1>2, DownIsLast
<1> HIDE DEF up
<1>4. up >= value
    BY <1>1, <1>3
<1>5. AlignUpClamped(value, a, limit) = IF limit < up THEN limit ELSE up
    BY DEF AlignUpClamped, Least, up
<1> QED
    BY <1>3, <1>4, <1>5 DEF OnGrid

------------------------------------------------------------------------------
(* The invariant.                                                          *)

(* An area to draw: of some pixels, between lines of the driver's grid.    *)
Fit(a) ==
  /\ a \in Areas /\ a.x1 < a.x2 /\ a.y1 < a.y2
  /\ OnGrid(a.x1, setup.x_alignment, Width) /\ OnGrid(a.x2, setup.x_alignment, Width)
  /\ OnGrid(a.y1, setup.y_alignment, Height) /\ OnGrid(a.y2, setup.y_alignment, Height)

(* The regions, and those the area has been compared with.                 *)
Regular ==
  /\ \A n \in DOMAIN damage : Fit(damage[n])
  /\ RegionsSeparate
  /\ pc = "add" => /\ Fit(area) /\ index <= Len(damage) + 1
                   /\ \A n \in 1 .. index - 1 : ~Touch(area, damage[n])

(* Every region comes from a rectangle of its own.                         *)
Counted ==
  /\ pc \in {"plan", "add"} => maps = <<>>
  /\ pc = "plan" => Len(damage) <= Len(plan)
  /\ pc = "add" => Len(damage) < Len(plan)

(* The next chunk starts on the grid, within the first region.             *)
Cutting ==
  /\ pc = "chunks" => /\ damage # <<>> /\ y \in damage[1].y1 .. damage[1].y2 - 1
                      /\ y % setup.y_alignment = 0 /\ setup.rows >= setup.y_alignment
  /\ pc = "done" => damage = <<>>

PlanInv == TypeOK /\ Regular /\ Counted /\ Cutting /\ MapsOnGrid /\ LastMapMarked /\ RefusedForCause

LEMMA PlanConstants ==
  /\ Width \in Nat \ {0} /\ Height \in Nat \ {0} /\ MaxRegions \in Nat \ {0}
  /\ \A s \in Setups : /\ s.x_alignment \in PowersOfTwo /\ s.y_alignment \in PowersOfTwo
                       /\ s.rows \in Nat
  /\ \A r \in Rects : r.x \in Nat /\ r.y \in Nat /\ r.width \in Nat /\ r.height \in Nat
  /\ \A a \in PowersOfTwo : a \in Nat \ {0}
BY PlanAssumption DEF PowersOfTwo

(* Regions are a sequence of areas.                                        *)
LEMMA RegionsAre ==
  ASSUME TypeOK
  PROVE  /\ DOMAIN damage = 1 .. Len(damage) /\ Len(damage) \in Nat
         /\ DOMAIN maps = 1 .. Len(maps) /\ Len(maps) \in Nat
         /\ DOMAIN plan = 1 .. Len(plan) /\ Len(plan) \in Nat
BY LenProperties DEF TypeOK

(* What an area is made of.                                                *)
LEMMA AreaSides ==
  ASSUME NEW a \in Areas
  PROVE  /\ a.x1 \in 0 .. Width /\ a.x2 \in 0 .. Width
         /\ a.y1 \in 0 .. Height /\ a.y2 \in 0 .. Height
BY DEF Areas

Inside(px, py, a) == a.x1 <= px /\ px < a.x2 /\ a.y1 <= py /\ py < a.y2

(* The halo of a rectangle on the display, aligned, is an area to draw     *)
(* that contains the halo.                                                 *)
LEMMA HaloFits ==
  ASSUME TypeOK, NEW r \in Rects, OnDisplay(r)
  PROVE  /\ Fit(Aligned(Halo(r)))
         /\ \A px, py \in Nat : Inside(px, py, Halo(r)) => Inside(px, py, Aligned(Halo(r)))
<1> DEFINE h == Halo(r)
           a == Aligned(h)
<1>1. /\ setup.x_alignment \in Nat \ {0} /\ setup.y_alignment \in Nat \ {0}
      /\ Width \in Nat /\ Height \in Nat
    BY PlanConstants DEF TypeOK
<1>2. /\ h.x1 \in 0 .. Width /\ h.x2 \in 0 .. Width /\ h.x1 < h.x2
      /\ h.y1 \in 0 .. Height /\ h.y2 \in 0 .. Height /\ h.y1 < h.y2
    BY PlanConstants DEF Halo, OnDisplay, Least
<1>3. /\ a.x1 = AlignDown(h.x1, setup.x_alignment)
      /\ a.y1 = AlignDown(h.y1, setup.y_alignment)
      /\ a.x2 = AlignUpClamped(h.x2, setup.x_alignment, Width)
      /\ a.y2 = AlignUpClamped(h.y2, setup.y_alignment, Height)
      /\ a = [x1 |-> a.x1, y1 |-> a.y1, x2 |-> a.x2, y2 |-> a.y2]
    BY DEF Aligned
<1> HIDE DEF h, a
<1>4. /\ a.x1 \in 0 .. h.x1 /\ OnGrid(a.x1, setup.x_alignment, Width)
      /\ a.y1 \in 0 .. h.y1 /\ OnGrid(a.y1, setup.y_alignment, Height)
    <2>1. h.x1 \in Nat /\ h.y1 \in Nat
        BY <1>2
    <2> QED
        BY <1>1, <1>3, <2>1, DownIsLast DEF OnGrid
<1>5. /\ a.x2 \in h.x2 .. Width /\ OnGrid(a.x2, setup.x_alignment, Width)
      /\ a.y2 \in h.y2 .. Height /\ OnGrid(a.y2, setup.y_alignment, Height)
    BY <1>1, <1>2, <1>3, UpIsNext
<1>6. a \in Areas /\ a.x1 < a.x2 /\ a.y1 < a.y2
    BY <1>1, <1>2, <1>3, <1>4, <1>5 DEF Areas
<1>7. \A px, py \in Nat : Inside(px, py, h) => Inside(px, py, a)
    BY <1>1, <1>2, <1>4, <1>5 DEF Inside
<1> QED
    BY <1>4, <1>5, <1>6, <1>7 DEF Fit, h, a

(* So is the union of two, which contains them.                            *)
LEMMA UnionFits ==
  ASSUME NEW a, NEW b, Fit(a), Fit(b)
  PROVE  /\ Fit(Union(a, b))
         /\ \A px, py \in Nat :
              Inside(px, py, a) \/ Inside(px, py, b) => Inside(px, py, Union(a, b))
<1>1. /\ a.x1 \in 0 .. Width /\ a.x2 \in 0 .. Width /\ a.y1 \in 0 .. Height /\ a.y2 \in 0 .. Height
      /\ b.x1 \in 0 .. Width /\ b.x2 \in 0 .. Width /\ b.y1 \in 0 .. Height /\ b.y2 \in 0 .. Height
    BY AreaSides DEF Fit
<1> DEFINE u == Union(a, b)
<1>2. /\ u.x1 = IF a.x1 < b.x1 THEN a.x1 ELSE b.x1
      /\ u.y1 = IF a.y1 < b.y1 THEN a.y1 ELSE b.y1
      /\ u.x2 = IF a.x2 > b.x2 THEN a.x2 ELSE b.x2
      /\ u.y2 = IF a.y2 > b.y2 THEN a.y2 ELSE b.y2
      /\ u = [x1 |-> u.x1, y1 |-> u.y1, x2 |-> u.x2, y2 |-> u.y2]
    BY DEF Union, Least, Greatest
<1> HIDE DEF u
<1>3. u \in Areas
    BY <1>1, <1>2 DEF Areas
<1>4. u.x1 < u.x2 /\ u.y1 < u.y2
    BY <1>1, <1>2, PlanConstants DEF Fit
<1>5. \A px, py \in Nat : Inside(px, py, a) \/ Inside(px, py, b) => Inside(px, py, u)
    BY <1>1, <1>2, PlanConstants DEF Inside
<1>6. Fit(u)
    BY <1>2, <1>3, <1>4 DEF Fit
<1> QED
    BY <1>5, <1>6 DEF u

LEMMA TouchIsMutual == \A a, b : Touch(a, b) <=> Touch(b, a)
BY DEF Touch

(* The first elements of a sequence.                                       *)
LEMMA Prefix ==
  ASSUME NEW S, NEW s \in Seq(S), NEW count \in 0 .. Len(s)
  PROVE  /\ SubSeq(s, 1, count) \in Seq(S) /\ Len(SubSeq(s, 1, count)) = count
         /\ \A n \in 1 .. count : SubSeq(s, 1, count)[n] = s[n]
<1>1. Len(s) \in Nat /\ 1 \in Int /\ count \in Int /\ \A n \in 1 .. count : s[n] \in S
    BY LenProperties, ElementOfSeq
<1>2. /\ SubSeq(s, 1, count) \in Seq(S)
      /\ Len(SubSeq(s, 1, count)) = IF 1 <= count THEN count - 1 + 1 ELSE 0
      /\ \A n \in 1 .. count - 1 + 1 : SubSeq(s, 1, count)[n] = s[1 + n - 1]
    BY <1>1, SubSeqProperties
<1> QED
    BY <1>1, <1>2

(* What is left of the regions when one is absorbed.                       *)
LEMMA RegionAbsorbed ==
  ASSUME TypeOK, index \in 1 .. Len(damage), Absorb
  PROVE  /\ damage' \in Seq(Areas) /\ Len(damage') = Len(damage) - 1
         /\ DOMAIN damage' = 1 .. Len(damage) - 1
         /\ \A n \in DOMAIN damage' :
              damage'[n] = damage[IF n = index THEN Len(damage) ELSE n]
<1> DEFINE moved == [damage EXCEPT ![index] = damage[Len(damage)]]
           count == Len(damage) - 1
<1>1. damage \in Seq(Areas) /\ Len(damage) \in Nat /\ damage[Len(damage)] \in Areas
    BY ElementOfSeq, LenProperties DEF TypeOK
<1>2. /\ moved \in Seq(Areas) /\ Len(moved) = Len(damage)
      /\ \A n \in 1 .. Len(damage) :
           moved[n] = IF n = index THEN damage[Len(damage)] ELSE damage[n]
    BY <1>1, ExceptSeq
<1>3. count \in Nat /\ damage' = SubSeq(moved, 1, count)
    BY <1>1 DEF Absorb, WithoutAbsorbed
<1> HIDE DEF moved
<1>4. \A n \in 1 .. count : moved[n] \in Areas
    BY <1>1, <1>2, ElementOfSeq
<1>5. /\ damage' \in Seq(Areas) /\ Len(damage') = count
      /\ \A n \in 1 .. count : damage'[n] = moved[n]
    <2>1. SubSeq(moved, 1, count) = damage' /\ count \in 0 .. Len(moved)
        BY <1>1, <1>2, <1>3
    <2> HIDE DEF count
    <2> QED
        BY <1>2, <2>1, Prefix
<1>6. DOMAIN damage' = 1 .. count
    BY <1>5, LenProperties
<1> QED
    BY <1>1, <1>2, <1>5, <1>6

------------------------------------------------------------------------------
(* The regions.                                                            *)

LEMMA PlanTake ==
  ASSUME PlanInv, NEW r \in Rects, TakeRect(r)
  PROVE  PlanInv'
<1> USE DEF PlanInv
<1>1. /\ pc = "plan" /\ index' = 1 /\ UNCHANGED <<setup, damage, y, maps>>
      /\ plan' = Append(plan, r) /\ Len(plan) < MaxRegions
    BY DEF TakeRect
<1>2. /\ plan' \in Seq(Rects) /\ Len(plan') = Len(plan) + 1 /\ Len(plan) \in Nat
      /\ DOMAIN plan' = 1 .. Len(plan) + 1 /\ plan'[Len(plan) + 1] = r
    BY <1>1, AppendProperties, LenProperties DEF TypeOK
<1>3. CASE OnDisplay(r) /\ ~Empty(Aligned(Halo(r)))
    <2>1. area' = Aligned(Halo(r)) /\ pc' = "add"
        BY <1>3 DEF TakeRect
    <2>2. Fit(area')
        BY <1>3, <2>1, HaloFits
    <2>3. TypeOK'
        BY <1>1, <1>2, <2>1, <2>2, PlanConstants DEF TypeOK, Fit
    <2>4. Regular'
        BY <1>1, <2>1, <2>2, RegionsAre DEF Regular, Fit, RegionsSeparate
    <2>5. (Counted /\ Cutting)'
        BY <1>1, <1>2, <2>1, RegionsAre DEF Counted, Cutting
    <2>6. (MapsOnGrid /\ LastMapMarked /\ RefusedForCause)'
        BY <1>1, <2>1 DEF MapsOnGrid, LastMapMarked, RefusedForCause
    <2> QED
        BY <2>3, <2>4, <2>5, <2>6
<1>4. CASE ~(OnDisplay(r) /\ ~Empty(Aligned(Halo(r))))
    <2>1. area' = area /\ pc' = "refused"
        BY <1>4 DEF TakeRect
    <2>2. ~OnDisplay(r)
        <3> SUFFICES ASSUME OnDisplay(r) PROVE FALSE
            OBVIOUS
        <3>1. Fit(Aligned(Halo(r))) /\ Empty(Aligned(Halo(r)))
            BY <1>4, HaloFits
        <3> QED
            BY <3>1, AreaSides, PlanConstants DEF Fit, Empty
    <2>3. TypeOK'
        BY <1>1, <1>2, <2>1, PlanConstants DEF TypeOK
    <2>4. Regular'
        BY <1>1, <2>1, RegionsAre DEF Regular, Fit, RegionsSeparate
    <2>5. RefusedForCause'
        BY <1>2, <2>2 DEF RefusedForCause, OnDisplay
    <2>6. (Counted /\ Cutting /\ MapsOnGrid /\ LastMapMarked)'
        BY <1>1, <2>1 DEF Counted, Cutting, MapsOnGrid, LastMapMarked
    <2> QED
        BY <2>3, <2>4, <2>5, <2>6
<1> QED
    BY <1>3, <1>4

LEMMA PlanAbsorb == PlanInv /\ Absorb => PlanInv'
<1> SUFFICES ASSUME PlanInv, Absorb PROVE PlanInv'
    OBVIOUS
<1> USE DEF PlanInv
<1>1. /\ pc = "add" /\ pc' = "add" /\ UNCHANGED <<setup, plan, y, maps>> /\ index' = 1
      /\ area' = Union(area, damage[index])
    BY DEF Absorb, Restart
<1>2. index \in 1 .. Len(damage) /\ DOMAIN damage = 1 .. Len(damage) /\ Len(damage) \in Nat
    BY RegionsAre DEF Absorb, TypeOK
<1>3. /\ damage' \in Seq(Areas) /\ Len(damage') = Len(damage) - 1
      /\ DOMAIN damage' = 1 .. Len(damage) - 1
      /\ \A n \in DOMAIN damage' :
           damage'[n] = damage[IF n = index THEN Len(damage) ELSE n]
    BY <1>2, RegionAbsorbed
<1>4. Fit(area')
    BY <1>1, <1>2, UnionFits DEF Regular
<1>5. TypeOK'
    BY <1>1, <1>3, <1>4, PlanConstants, RegionsAre DEF TypeOK, Fit
<1>6. Regular'
    <2>1. \A n \in DOMAIN damage' : Fit(damage'[n])
        BY <1>2, <1>3 DEF Regular
    <2>2. \A m, n \in DOMAIN damage' : m # n => ~Touch(damage'[m], damage'[n])
        <3> SUFFICES ASSUME NEW m \in DOMAIN damage', NEW n \in DOMAIN damage', m # n
                     PROVE  ~Touch(damage'[m], damage'[n])
            OBVIOUS
        <3> DEFINE from(k) == IF k = index THEN Len(damage) ELSE k
        <3>1. /\ from(m) \in DOMAIN damage /\ from(n) \in DOMAIN damage /\ from(m) # from(n)
              /\ damage'[m] = damage[from(m)] /\ damage'[n] = damage[from(n)]
            BY <1>2, <1>3
        <3> QED
            BY <3>1 DEF Regular, RegionsSeparate
    <2>3. index' <= Len(damage') + 1 /\ 1 .. index' - 1 = {}
        BY <1>1, <1>2, <1>3
    <2> QED
        BY <1>1, <1>4, <2>1, <2>2, <2>3 DEF Regular, RegionsSeparate, Fit
<1>7. (Counted /\ Cutting /\ MapsOnGrid /\ LastMapMarked /\ RefusedForCause)'
    BY <1>1, <1>2, <1>3, RegionsAre
       DEF Counted, Cutting, MapsOnGrid, LastMapMarked, RefusedForCause
<1> QED
    BY <1>5, <1>6, <1>7

LEMMA PlanSkip == PlanInv /\ Skip => PlanInv'
<1> SUFFICES ASSUME PlanInv, Skip PROVE PlanInv'
    OBVIOUS
<1> USE DEF PlanInv
<1>1. /\ pc = "add" /\ index <= Len(damage) /\ ~Touch(area, damage[index])
      /\ index' = index + 1 /\ UNCHANGED <<setup, plan, pc, damage, area, y, maps>>
    BY DEF Skip
<1>2. index \in Nat /\ Len(damage) \in Nat
    BY RegionsAre DEF TypeOK
<1>3. TypeOK'
    BY <1>1, <1>2, PlanConstants DEF TypeOK
<1>4. Regular'
    <2>1. \A n \in 1 .. index' - 1 : ~Touch(area, damage[n])
        BY <1>1, <1>2 DEF Regular
    <2> QED
        BY <1>1, <1>2, <2>1 DEF Regular, RegionsSeparate, Fit
<1>5. (Counted /\ Cutting /\ MapsOnGrid /\ LastMapMarked /\ RefusedForCause)'
    BY <1>1 DEF Counted, Cutting, MapsOnGrid, LastMapMarked, RefusedForCause
<1> QED
    BY <1>3, <1>4, <1>5

LEMMA PlanInsert == PlanInv /\ Insert => PlanInv'
<1> SUFFICES ASSUME PlanInv, Insert PROVE PlanInv'
    OBVIOUS
<1> USE DEF PlanInv
<1>1. /\ pc = "add" /\ index > Len(damage) /\ UNCHANGED <<setup, plan, index, y, maps>>
      /\ area' = NoArea
    BY DEF Insert
<1>2. Len(damage) \in Nat /\ DOMAIN damage = 1 .. Len(damage) /\ Len(plan) \in Nat
      /\ index \in Nat
    BY RegionsAre DEF TypeOK
<1>3. Len(damage) < Len(plan) /\ Len(plan) <= MaxRegions
    BY <1>1 DEF Counted, TypeOK
<1>4. damage' = Append(damage, area) /\ pc' = "plan"
    BY <1>2, <1>3, PlanConstants DEF Insert, Room
<1>5. area \in Areas /\ damage \in Seq(Areas)
    BY DEF TypeOK
<1>6. /\ damage' \in Seq(Areas) /\ Len(damage') = Len(damage) + 1
      /\ DOMAIN damage' = 1 .. Len(damage) + 1
      /\ \A n \in 1 .. Len(damage) : damage'[n] = damage[n]
      /\ damage'[Len(damage) + 1] = area
    BY <1>4, <1>5, AppendProperties, LenProperties
<1>7. TypeOK'
    BY <1>1, <1>2, <1>3, <1>4, <1>6, PlanConstants DEF TypeOK, NoArea, Areas
<1>8. Regular'
    <2>1. \A n \in DOMAIN damage' : Fit(damage'[n])
        BY <1>1, <1>2, <1>6 DEF Regular
    <2>2. \A n \in 1 .. Len(damage) : ~Touch(area, damage[n]) /\ ~Touch(damage[n], area)
        BY <1>1, <1>2, TouchIsMutual DEF Regular
    <2>3. \A m, n \in DOMAIN damage' : m # n => ~Touch(damage'[m], damage'[n])
        BY <1>2, <1>6, <2>2 DEF Regular, RegionsSeparate
    <2> QED
        BY <1>1, <1>4, <2>1, <2>3 DEF Regular, RegionsSeparate, Fit
<1>9. (Counted /\ Cutting /\ MapsOnGrid /\ LastMapMarked /\ RefusedForCause)'
    BY <1>1, <1>2, <1>3, <1>4, <1>6
       DEF Counted, Cutting, MapsOnGrid, LastMapMarked, RefusedForCause
<1> QED
    BY <1>7, <1>8, <1>9

(* What sorting does to the regions.                                       *)
LEMMA RegionsSorted ==
  ASSUME TypeOK, NEW order \in Orders,
         damage' = [n \in DOMAIN damage |-> damage[order[n]]]
  PROVE  /\ damage' \in Seq(Areas) /\ Len(damage') = Len(damage)
         /\ DOMAIN damage' = DOMAIN damage
         /\ \A n \in DOMAIN damage : order[n] \in DOMAIN damage /\ damage'[n] = damage[order[n]]
         /\ \A m \in DOMAIN damage : \E n \in DOMAIN damage : order[n] = m
         /\ \A m, n \in DOMAIN damage : m # n => order[m] # order[n]
<1>1. DOMAIN damage = 1 .. Len(damage) /\ Len(damage) \in Nat /\ damage \in Seq(Areas)
    BY RegionsAre DEF TypeOK
<1>2. /\ order \in [DOMAIN damage -> DOMAIN damage]
      /\ \A m \in DOMAIN damage : \E n \in DOMAIN damage : order[n] = m
      /\ \A m, n \in DOMAIN damage : m < n => order[m] # order[n]
    BY DEF Orders
<1>3. \A n \in 1 .. Len(damage) : damage[order[n]] \in Areas
    BY <1>1, <1>2, ElementOfSeq
<1>4. damage' \in [1 .. Len(damage) -> Areas]
    BY <1>1, <1>3
<1>5. damage' \in Seq(Areas) /\ Len(damage') = Len(damage)
    BY <1>1, <1>4, SeqDef, LenProperties
<1>6. \A m, n \in DOMAIN damage : m # n => order[m] # order[n]
    BY <1>1, <1>2
<1> QED
    BY <1>1, <1>2, <1>5, <1>6

LEMMA PlanSort == PlanInv /\ Sort => PlanInv'
<1> SUFFICES ASSUME PlanInv, Sort PROVE PlanInv'
    OBVIOUS
<1> USE DEF PlanInv
<1>1. /\ pc = "plan" /\ damage # <<>> /\ y' = damage'[1].y1
      /\ pc' = IF setup.rows = 0 \/ setup.rows < setup.y_alignment THEN "refused" ELSE "chunks"
      /\ UNCHANGED <<setup, plan, area, index, maps>>
    BY DEF Sort
<1>2. PICK order \in Orders : damage' = [n \in DOMAIN damage |-> damage[order[n]]]
    BY DEF Sort
<1>3. /\ damage' \in Seq(Areas) /\ Len(damage') = Len(damage)
      /\ DOMAIN damage' = DOMAIN damage
      /\ \A n \in DOMAIN damage : order[n] \in DOMAIN damage /\ damage'[n] = damage[order[n]]
      /\ \A m, n \in DOMAIN damage : m # n => order[m] # order[n]
    BY <1>2, RegionsSorted
<1>4. \A n \in DOMAIN damage' : Fit(damage'[n])
    BY <1>3 DEF Regular
<1>5. 1 \in DOMAIN damage' /\ damage' # <<>>
    BY <1>1, <1>3, RegionsAre, EmptySeq DEF TypeOK
<1>6. /\ damage'[1] \in Areas /\ y' \in 0 .. Height
      /\ y' \in damage'[1].y1 .. damage'[1].y2 - 1 /\ y' % setup.y_alignment = 0
    <2>1. Fit(damage'[1])
        BY <1>4, <1>5
    <2> QED
        BY <1>1, <2>1, AreaSides, PlanConstants DEF Fit, OnGrid
<1>7. TypeOK'
    BY <1>1, <1>3, <1>6 DEF TypeOK
<1>8. Regular'
    BY <1>1, <1>3, <1>4 DEF Regular, RegionsSeparate, Fit
<1>9. Cutting'
    <2>1. setup.rows \in Nat /\ setup.y_alignment \in Nat
        BY PlanConstants DEF TypeOK
    <2> QED
        BY <1>1, <1>5, <1>6, <2>1 DEF Cutting
<1>10. (Counted /\ MapsOnGrid /\ LastMapMarked /\ RefusedForCause)'
    BY <1>1 DEF Counted, MapsOnGrid, LastMapMarked, RefusedForCause
<1> QED
    BY <1>7, <1>8, <1>9, <1>10

(* A chunk has at least a row and at most those of the buffer; it ends on  *)
(* the grid or with its region.                                            *)
LEMMA ChunkFits ==
  ASSUME TypeOK, Regular, Cutting, pc = "chunks"
  PROVE  LET end == y + ChunkHeight(damage[1]) IN
         /\ damage[1] \in Areas /\ Fit(damage[1]) /\ 1 \in DOMAIN damage
         /\ ChunkHeight(damage[1]) \in 1 .. setup.rows
         /\ end \in y + 1 .. damage[1].y2
         /\ end # damage[1].y2 => end % setup.y_alignment = 0
<1> DEFINE region == damage[1]
           a == setup.y_alignment
           rest == region.y2 - y
           height == Least(rest, MaxRows)
<1>1. a \in Nat \ {0} /\ setup.rows \in Nat /\ setup.rows >= a
      /\ Height \in Nat
    BY PlanConstants DEF TypeOK, Cutting
<1>2. /\ 1 \in DOMAIN damage /\ Fit(region) /\ region \in Areas
      /\ y \in region.y1 .. region.y2 - 1 /\ y % a = 0
    BY RegionsAre, EmptySeq DEF TypeOK, Cutting, Regular, Fit
<1>3. region.y1 \in 0 .. Height /\ region.y2 \in 0 .. Height /\ y \in Nat
    BY <1>2, AreaSides DEF TypeOK
<1>4. rest \in 1 .. Height
    <2> HIDE DEF region
    <2> QED
        BY <1>1, <1>2, <1>3
<1>5. /\ MaxRows \in a .. setup.rows
      /\ setup.rows < Height => MaxRows % a = 0
      /\ setup.rows >= Height => MaxRows >= Height
    <2>1. /\ AlignDown(setup.rows, a) \in Nat /\ AlignDown(setup.rows, a) <= setup.rows
          /\ AlignDown(setup.rows, a) >= a /\ AlignDown(setup.rows, a) % a = 0
        BY <1>1, DownIsLast
    <2> QED
        BY <1>1, <2>1 DEF MaxRows
<1>6. /\ height \in 1 .. setup.rows /\ height <= rest
      /\ height # rest => height = MaxRows
    BY <1>1, <1>4, <1>5 DEF Least
<1> HIDE DEF height
<1>7. ChunkHeight(region) = IF y + height < region.y2 THEN AlignDown(height, a) ELSE height
    BY DEF ChunkHeight, height
<1>8. CASE y + height < region.y2
    <2>1. height = MaxRows /\ height >= a
        BY <1>1, <1>3, <1>5, <1>6, <1>8
    <2>2. /\ AlignDown(height, a) \in a .. height
          /\ AlignDown(height, a) % a = 0
        <3> HIDE DEF a
        <3>1. height \in Nat
            BY <1>1, <1>6
        <3> QED
            BY <1>1, <2>1, <3>1, DownIsLast
    <2>3. (y + AlignDown(height, a)) % a = 0
        BY <1>1, <1>2, <1>3, <2>2, MultiplesAdd
    <2> QED
        BY <1>1, <1>2, <1>3, <1>6, <1>7, <1>8, <2>2, <2>3
<1>9. CASE ~(y + height < region.y2)
    <2>1. height = rest
        BY <1>1, <1>3, <1>4, <1>6, <1>9
    <2> QED
        BY <1>1, <1>2, <1>3, <1>6, <1>7, <1>9, <2>1
<1> QED
    BY <1>8, <1>9

(* What a chunk is, and what it leaves to do.                              *)
ChunkEnd == y + ChunkHeight(damage[1])
ChunkMap == [area |-> [damage[1] EXCEPT !.y1 = y, !.y2 = ChunkEnd], is_last |-> IsLast(ChunkEnd)]

LEMMA RegionsCut ==
  ASSUME TypeOK, Regular, Cutting, Chunk
  PROVE  /\ pc = "chunks" /\ UNCHANGED <<setup, plan, area, index>>
         /\ maps' = Append(maps, ChunkMap)
         /\ IsLast(ChunkEnd) <=> Len(damage) = 1 /\ ChunkEnd = damage[1].y2
         /\ ChunkEnd # damage[1].y2 => damage' = damage /\ y' = ChunkEnd /\ pc' = "chunks"
         /\ ChunkEnd = damage[1].y2 =>
              /\ damage' \in Seq(Areas) /\ Len(damage') = Len(damage) - 1
              /\ DOMAIN damage' = 1 .. Len(damage) - 1
              /\ \A n \in DOMAIN damage' : damage'[n] = damage[n + 1]
              /\ Len(damage) = 1 => damage' = <<>> /\ pc' = "done" /\ y' = 0
              /\ Len(damage) # 1 => /\ damage' # <<>> /\ 1 \in DOMAIN damage' /\ pc' = "chunks"
                                    /\ y' = damage'[1].y1
<1>1. pc = "chunks" /\ UNCHANGED <<setup, plan, area, index>>
    BY DEF Chunk
<1>2. /\ damage \in Seq(Areas) /\ damage # <<>> /\ Len(damage) \in Nat \ {0}
      /\ Head(damage) = damage[1]
    BY <1>1, EmptySeq DEF TypeOK, Cutting
<1>3. ChunkEnd # y
    <2>1. ChunkEnd \in y + 1 .. damage[1].y2 /\ y \in Nat /\ damage[1] \in Areas
        BY <1>1, ChunkFits DEF TypeOK, ChunkEnd
    <2> QED
        BY <2>1, AreaSides, PlanConstants
<1>4. /\ maps' = Append(maps, ChunkMap)
      /\ damage' = IF ChunkEnd = damage[1].y2 THEN Tail(damage) ELSE damage
      /\ y' = IF ChunkEnd # damage[1].y2 THEN ChunkEnd
              ELSE IF damage' = <<>> THEN 0 ELSE damage'[1].y1
      /\ pc' = IF damage' = <<>> THEN "done" ELSE "chunks"
    <2>1. ChunkEnd = y + ChunkHeight(Head(damage))
        BY <1>2 DEF ChunkEnd
    <2> HIDE DEF ChunkEnd
    <2> QED
        BY <1>2, <1>3, <2>1, Zenon DEF Chunk, ChunkMap
<1>5. IsLast(ChunkEnd) <=> Len(damage) = 1 /\ ChunkEnd = damage[1].y2
    BY <1>2 DEF IsLast
<1>6. ChunkEnd = damage[1].y2 =>
        /\ damage' \in Seq(Areas) /\ Len(damage') = Len(damage) - 1
        /\ DOMAIN damage' = 1 .. Len(damage) - 1
        /\ \A n \in DOMAIN damage' : damage'[n] = damage[n + 1]
    BY <1>2, <1>4, HeadTailProperties, LenProperties
<1>7. ChunkEnd = damage[1].y2 => (damage' = <<>> <=> Len(damage) = 1)
    BY <1>2, <1>6, EmptySeq
<1>8. ChunkEnd = damage[1].y2 /\ Len(damage) # 1 => 1 \in DOMAIN damage'
    BY <1>2, <1>6
<1> QED
    BY <1>1, <1>2, <1>4, <1>5, <1>6, <1>7, <1>8

(* The area of a chunk: its region between two rows.                       *)
LEMMA ChunkArea ==
  ASSUME TypeOK, Regular, Cutting, pc = "chunks"
  PROVE  /\ ChunkMap \in [area : Areas, is_last : BOOLEAN]
         /\ ChunkMap.is_last = IsLast(ChunkEnd)
         /\ ChunkMap.area.x1 = damage[1].x1 /\ ChunkMap.area.x2 = damage[1].x2
         /\ ChunkMap.area.y1 = y /\ ChunkMap.area.y2 = ChunkEnd
         /\ Fit(damage[1]) /\ 1 \in DOMAIN damage
         /\ y \in damage[1].y1 .. damage[1].y2 - 1
         /\ ChunkEnd \in y + 1 .. damage[1].y2 /\ ChunkEnd - y \in 1 .. setup.rows
         /\ ChunkEnd # damage[1].y2 => ChunkEnd % setup.y_alignment = 0
<1>1. /\ Fit(damage[1]) /\ 1 \in DOMAIN damage /\ damage[1] \in Areas
      /\ ChunkHeight(damage[1]) \in 1 .. setup.rows
      /\ ChunkEnd \in y + 1 .. damage[1].y2
      /\ ChunkEnd # damage[1].y2 => ChunkEnd % setup.y_alignment = 0
    BY ChunkFits DEF ChunkEnd
<1>2. y \in 0 .. Height /\ y \in damage[1].y1 .. damage[1].y2 - 1 /\ setup.rows \in Nat
    BY PlanConstants DEF TypeOK, Cutting
<1>3. ChunkEnd - y = ChunkHeight(damage[1])
    BY <1>1, <1>2 DEF ChunkEnd
<1> DEFINE cut == [damage[1] EXCEPT !.y1 = y, !.y2 = ChunkEnd]
<1> HIDE DEF ChunkEnd
<1>4. damage[1].y2 \in 0 .. Height /\ Height \in Nat
    BY <1>1, AreaSides, PlanConstants
<1>5. ChunkEnd \in 0 .. Height
    BY <1>1, <1>2, <1>4
<1>6. /\ cut \in Areas /\ cut.x1 = damage[1].x1 /\ cut.x2 = damage[1].x2
      /\ cut.y1 = y /\ cut.y2 = ChunkEnd
    BY <1>1, <1>2, <1>5 DEF Areas
<1>7. IsLast(ChunkEnd) \in BOOLEAN
    BY DEF IsLast
<1>8. ChunkMap = [area |-> cut, is_last |-> IsLast(ChunkEnd)]
    BY DEF ChunkMap
<1> HIDE DEF cut
<1>9. /\ ChunkMap \in [area : Areas, is_last : BOOLEAN] /\ ChunkMap.area = cut
      /\ ChunkMap.is_last = IsLast(ChunkEnd)
    BY <1>6, <1>7, <1>8
<1> QED
    BY <1>1, <1>2, <1>3, <1>6, <1>9

(* A chunk is one map more.                                                *)
LEMMA MapAdded ==
  ASSUME TypeOK, Regular, Cutting, Chunk
  PROVE  /\ maps' \in Seq([area : Areas, is_last : BOOLEAN])
         /\ Len(maps') = Len(maps) + 1 /\ DOMAIN maps' = 1 .. Len(maps) + 1
         /\ \A n \in 1 .. Len(maps) : maps'[n] = maps[n]
         /\ maps'[Len(maps) + 1] = ChunkMap
         /\ Len(maps) \in Nat /\ DOMAIN maps = 1 .. Len(maps)
<1>1. maps' = Append(maps, ChunkMap) /\ pc = "chunks"
    BY RegionsCut
<1>2. ChunkMap \in [area : Areas, is_last : BOOLEAN]
    BY <1>1, ChunkArea
<1>3. maps \in Seq([area : Areas, is_last : BOOLEAN])
    BY DEF TypeOK
<1> QED
    BY <1>1, <1>2, <1>3, AppendProperties, LenProperties

LEMMA PlanChunk == PlanInv /\ Chunk => PlanInv'
<1> SUFFICES ASSUME PlanInv, Chunk PROVE PlanInv'
    OBVIOUS
<1> USE DEF PlanInv
<1>1. pc = "chunks" /\ UNCHANGED <<setup, plan, area, index>>
    BY RegionsCut
<1>2. /\ DOMAIN damage = 1 .. Len(damage) /\ Len(damage) \in Nat /\ damage \in Seq(Areas)
      /\ Len(damage) <= MaxRegions /\ y \in 0 .. Height /\ 1 \in DOMAIN damage
    BY <1>1, RegionsAre, ChunkArea DEF TypeOK
<1>3. /\ Fit(damage[1]) /\ y \in damage[1].y1 .. damage[1].y2 - 1
      /\ ChunkEnd \in y + 1 .. damage[1].y2 /\ ChunkEnd - y \in 1 .. setup.rows
      /\ ChunkEnd # damage[1].y2 => ChunkEnd % setup.y_alignment = 0
    BY <1>1, ChunkArea
<1>4. /\ damage[1].y2 \in 0 .. Height /\ Height \in Nat /\ damage[1].y1 \in 0 .. Height
    BY <1>3, AreaSides, PlanConstants DEF Fit
<1> DEFINE through == ChunkEnd = damage[1].y2
<1>5. ~through => damage' = damage /\ y' = ChunkEnd /\ pc' = "chunks"
    BY RegionsCut
<1>6. through =>
        /\ damage' \in Seq(Areas) /\ Len(damage') = Len(damage) - 1
        /\ DOMAIN damage' = 1 .. Len(damage) - 1
        /\ \A n \in DOMAIN damage' : damage'[n] = damage[n + 1]
        /\ Len(damage) = 1 => damage' = <<>> /\ pc' = "done" /\ y' = 0
        /\ Len(damage) # 1 => /\ damage' # <<>> /\ 1 \in DOMAIN damage' /\ pc' = "chunks"
                              /\ y' = damage'[1].y1
    BY RegionsCut
<1>7. IsLast(ChunkEnd) <=> pc' = "done"
    BY <1>5, <1>6, RegionsCut
<1> HIDE DEF through
<1>8. through /\ Len(damage) # 1 => damage'[1] = damage[2] /\ 2 \in DOMAIN damage
    BY <1>2, <1>6
<1>9. through /\ Len(damage) # 1 =>
        /\ Fit(damage'[1]) /\ y' \in 0 .. Height
        /\ y' \in damage'[1].y1 .. damage'[1].y2 - 1 /\ y' % setup.y_alignment = 0
    <2> SUFFICES ASSUME through, Len(damage) # 1
                 PROVE  /\ Fit(damage'[1]) /\ y' \in 0 .. Height
                        /\ y' \in damage'[1].y1 .. damage'[1].y2 - 1
                        /\ y' % setup.y_alignment = 0
        OBVIOUS
    <2>1. Fit(damage'[1])
        BY <1>8 DEF Regular
    <2> QED
        BY <1>6, <2>1, AreaSides, PlanConstants DEF Fit, OnGrid
<1>10. y' \in 0 .. Height
    <2>1. ~through => y' \in 0 .. Height
        BY <1>2, <1>3, <1>4, <1>5
    <2> QED
        BY <1>4, <1>6, <1>9, <2>1
<1>11. pc' \in {"chunks", "done"}
    BY <1>5, <1>6
<1>12. TypeOK'
    <2>1. damage' \in Seq(Areas) /\ Len(damage') <= MaxRegions
        <3>1. MaxRegions \in Nat
            BY PlanConstants
        <3>2. CASE through
            BY <1>2, <1>6, <3>1, <3>2
        <3>3. CASE ~through
            BY <1>2, <1>5, <3>3
        <3> QED
            BY <3>2, <3>3
    <2> QED
        BY <1>1, <1>10, <1>11, <2>1, MapAdded DEF TypeOK
<1>13. Regular'
    <2> DEFINE from(n) == IF through THEN n + 1 ELSE n
    <2>1. /\ \A n \in DOMAIN damage' : from(n) \in DOMAIN damage /\ damage'[n] = damage[from(n)]
          /\ \A m, n \in DOMAIN damage' : m # n => from(m) # from(n)
        <3>1. CASE through
            BY <1>2, <1>6, <3>1
        <3>2. CASE ~through
            BY <1>5, <3>2
        <3> QED
            BY <3>1, <3>2
    <2> HIDE DEF from
    <2>2. \A n \in DOMAIN damage' : Fit(damage'[n])
        BY <2>1 DEF Regular
    <2>3. \A m, n \in DOMAIN damage' : m # n => ~Touch(damage'[m], damage'[n])
        BY <2>1 DEF Regular, RegionsSeparate
    <2> QED
        BY <1>1, <1>11, <2>2, <2>3 DEF Regular, RegionsSeparate, Fit
<1>14. Cutting'
    <2>1. damage # <<>> /\ setup.rows >= setup.y_alignment
        BY <1>1 DEF Cutting
    <2>2. ~through => y' \in damage[1].y1 .. damage[1].y2 - 1 /\ y' % setup.y_alignment = 0
        BY <1>2, <1>3, <1>4, <1>5 DEF through
    <2> QED
        BY <1>1, <1>5, <1>6, <1>9, <2>1, <2>2 DEF Cutting
<1>15. MapsOnGrid'
    <2>1. /\ OnGrid(ChunkMap.area.x1, setup.x_alignment, Width)
          /\ OnGrid(ChunkMap.area.x2, setup.x_alignment, Width)
          /\ OnGrid(ChunkMap.area.y1, setup.y_alignment, Height)
          /\ OnGrid(ChunkMap.area.y2, setup.y_alignment, Height)
          /\ ChunkMap.area.y2 - ChunkMap.area.y1 \in 1 .. setup.rows
        <3>1. y % setup.y_alignment = 0
            BY <1>1 DEF Cutting
        <3> QED
            BY <1>1, <1>3, <3>1, ChunkArea DEF Fit, OnGrid
    <2> QED
        BY <1>1, <2>1, MapAdded DEF MapsOnGrid
<1>16. LastMapMarked'
    <2>1. ChunkMap.is_last = IsLast(ChunkEnd)
        BY <1>1, ChunkArea
    <2>2. ChunkMap.is_last <=> pc' = "done"
        BY <1>7, <2>1, Zenon
    <2>3. \A n \in 1 .. Len(maps) : ~maps[n].is_last
        BY <1>1, RegionsAre DEF LastMapMarked
    <2>4. \A n \in 1 .. Len(maps) : ~maps'[n].is_last /\ n # Len(maps')
        BY <2>3, MapAdded
    <2>5. maps'[Len(maps')].is_last <=> pc' = "done"
        BY <2>2, MapAdded
    <2>6. \A n \in DOMAIN maps' : n \in 1 .. Len(maps) \/ n = Len(maps')
        BY MapAdded
    <2> QED
        BY <2>4, <2>5, <2>6, Zenon DEF LastMapMarked
<1>17. (Counted /\ RefusedForCause)'
    BY <1>11 DEF Counted, RefusedForCause
<1> QED
    BY <1>12, <1>13, <1>14, <1>15, <1>16, <1>17

------------------------------------------------------------------------------
(* The theorems.                                                           *)

LEMMA PlanInit == Init => PlanInv
<1> SUFFICES ASSUME Init PROVE PlanInv
    OBVIOUS
<1> USE DEF Init
<1>1. /\ damage = <<>> /\ damage \in Seq(Areas) /\ Len(damage) = 0 /\ DOMAIN damage = {}
      /\ plan = <<>> /\ plan \in Seq(Rects) /\ Len(plan) = 0
      /\ maps = <<>> /\ maps \in Seq([area : Areas, is_last : BOOLEAN]) /\ DOMAIN maps = {}
    BY EmptySeq
<1>2. TypeOK
    BY <1>1, PlanConstants DEF TypeOK, NoArea, Areas
<1> QED
    BY <1>1, <1>2 DEF PlanInv, Regular, RegionsSeparate, Counted, Cutting, MapsOnGrid,
                      LastMapMarked, RefusedForCause

LEMMA PlanStutter == PlanInv /\ UNCHANGED vars => PlanInv'
BY DEF vars, PlanInv, TypeOK, Regular, Fit, RegionsSeparate, Counted, Cutting, MapsOnGrid,
       LastMapMarked, RefusedForCause

LEMMA PlanInvariant == Spec => []PlanInv
<1>1. PlanInv /\ [Next]_vars => PlanInv'
    <2> SUFFICES ASSUME PlanInv, [Next]_vars PROVE PlanInv'
        OBVIOUS
    <2>1. CASE \E r \in Rects : TakeRect(r)
        BY <2>1, PlanTake
    <2>2. CASE Absorb
        BY <2>2, PlanAbsorb
    <2>3. CASE Skip
        BY <2>3, PlanSkip
    <2>4. CASE Insert
        BY <2>4, PlanInsert
    <2>5. CASE Sort
        BY <2>5, PlanSort
    <2>6. CASE Chunk
        BY <2>6, PlanChunk
    <2>7. CASE Done \/ UNCHANGED vars
        BY <2>7, PlanStutter DEF Done
    <2> QED
        BY <2>1, <2>2, <2>3, <2>4, <2>5, <2>6, <2>7 DEF Next
<1> QED
    BY <1>1, PlanInit, PTL DEF Spec

(* TypeOK: the regions, the area being added and the row of the next chunk *)
(* stay on the display, and no more regions than aligned_damage_t holds.   *)
THEOREM TypeCorrect == Spec => []TypeOK
BY PlanInvariant, PTL DEF PlanInv

(* RegionsSeparate: aligned_damage_add leaves no two regions that touch,   *)
(* however many of them an insertion swallows.                             *)
THEOREM RegionsKeepClear == Spec => []RegionsSeparate
<1>1. PlanInv => RegionsSeparate
    BY DEF PlanInv, Regular
<1> QED
    BY <1>1, PlanInvariant, PTL

(* MapsFit: whatever the alignment, the height of the display and that of  *)
(* the buffer, render_transaction submits maps on the driver's grid, of at *)
(* least a row and no more rows than the buffer holds, and sets is_last    *)
(* for the final one only.                                                 *)
THEOREM MapsStayOnGrid == Spec => []MapsFit
<1>1. PlanInv => MapsFit
    BY DEF PlanInv, MapsFit
<1> QED
    BY <1>1, PlanInvariant, PTL

(* RefusedForCause: with the buffer an aligned strip needs,                *)
(* build_aligned_damage and the chunk loop accept every plan that lies on  *)
(* the display: the array of regions never overflows, alignment never      *)
(* empties a rectangle and no chunk comes to nothing.                      *)
THEOREM RefusalsHaveCause == Spec => []RefusedForCause
BY PlanInvariant, PTL DEF PlanInv

------------------------------------------------------------------------------
(* Coverage, pixel by pixel.                                               *)

(* Asked of the plan; still to draw, below what is cut from the first      *)
(* region; and in a map.                                                   *)
Asked(px, py) == \E n \in DOMAIN plan : Inside(px, py, Halo(plan[n]))
ToDo(px, py) ==
  \/ \E n \in DOMAIN damage : Inside(px, py, damage[n]) /\ (pc = "chunks" /\ n = 1 => y <= py)
  \/ pc = "add" /\ Inside(px, py, area)
Mapped(px, py) == \E n \in DOMAIN maps : Inside(px, py, maps[n].area)

NothingLost ==
  pc # "refused" => \A px, py \in Nat : Asked(px, py) => ToDo(px, py) \/ Mapped(px, py)
DrawnOnce ==
  /\ pc = "chunks" => \A px, py \in Nat : ~(ToDo(px, py) /\ Mapped(px, py))
  /\ \A px, py \in Nat : \A m, n \in DOMAIN maps :
       Inside(px, py, maps[m].area) /\ Inside(px, py, maps[n].area) => m = n

CoverInv == PlanInv /\ NothingLost /\ DrawnOnce

LEMMA HaloIsArea ==
  ASSUME NEW r \in Rects
  PROVE  Halo(r) \in [x1 : Nat, y1 : Nat, x2 : Nat, y2 : Nat]
<1> DEFINE x1 == IF r.x > 0 THEN r.x - 1 ELSE 0
           y1 == IF r.y > 0 THEN r.y - 1 ELSE 0
           x2 == Least(Width, r.x + r.width + 1)
           y2 == Least(Height, r.y + r.height + 1)
<1>1. x1 \in Nat /\ y1 \in Nat
    BY PlanConstants
<1>2. x2 \in Nat /\ y2 \in Nat
    BY PlanConstants DEF Least
<1>3. Halo(r) = [x1 |-> x1, y1 |-> y1, x2 |-> x2, y2 |-> y2]
    BY DEF Halo
<1> HIDE DEF x1, y1, x2, y2
<1> QED
    BY <1>1, <1>2, <1>3

(* The pixels of an area are the points inside it.                         *)
LEMMA PixelsInside ==
  ASSUME NEW a \in [x1 : Nat, y1 : Nat, x2 : Nat, y2 : Nat]
  PROVE  Pixels(a) = {p \in Nat \X Nat : Inside(p[1], p[2], a)}
BY DEF Pixels, Inside

(* Before the chunks begin nothing is in a map.                            *)
LEMMA NoMapsYet ==
  ASSUME PlanInv, pc \in {"plan", "add"}, UNCHANGED maps
  PROVE  DrawnOnce' /\ \A px, py \in Nat : ~Mapped(px, py)
BY DEF PlanInv, Counted, DrawnOnce, Mapped

LEMMA CoverTake ==
  ASSUME CoverInv, NEW r \in Rects, TakeRect(r)
  PROVE  CoverInv'
<1> USE DEF CoverInv
<1>1. pc = "plan" /\ UNCHANGED <<damage, maps>> /\ plan' = Append(plan, r)
    BY DEF TakeRect
<1>2. /\ DOMAIN plan' = DOMAIN plan \cup {Len(plan) + 1} /\ plan'[Len(plan) + 1] = r
      /\ \A n \in DOMAIN plan : plan'[n] = plan[n]
    <2>1. plan \in Seq(Rects) /\ Len(plan) \in Nat /\ DOMAIN plan = 1 .. Len(plan)
        BY RegionsAre DEF PlanInv, TypeOK
    <2> QED
        BY <1>1, <2>1, AppendProperties, LenProperties
<1>3. NothingLost'
    <2> SUFFICES ASSUME pc' # "refused", NEW px \in Nat, NEW py \in Nat, Asked(px, py)'
                 PROVE  ToDo(px, py)'
        BY DEF NothingLost
    <2>1. /\ OnDisplay(r) /\ pc' = "add" /\ area' = Aligned(Halo(r))
        BY DEF TakeRect
    <2>2. PICK n \in DOMAIN plan' : Inside(px, py, Halo(plan'[n]))
        BY DEF Asked
    <2>3. CASE n = Len(plan) + 1
        BY <1>2, <2>1, <2>2, <2>3, HaloFits DEF ToDo, PlanInv
    <2>4. CASE n # Len(plan) + 1
        <3>1. ToDo(px, py)
            BY <1>1, <1>2, <2>2, <2>4, NoMapsYet DEF Asked, NothingLost
        <3> QED
            BY <1>1, <2>1, <3>1 DEF ToDo
    <2> QED
        BY <2>3, <2>4
<1> QED
    BY <1>1, <1>3, PlanTake, NoMapsYet

(* Merging and sorting lose no pixel.                                      *)
LEMMA RegionsKeepPixels ==
  ASSUME PlanInv, Absorb \/ Skip \/ Insert \/ Sort, pc' # "refused",
         NEW px \in Nat, NEW py \in Nat, ToDo(px, py)
  PROVE  ToDo(px, py)'
<1> USE DEF PlanInv
<1>1. DOMAIN damage = 1 .. Len(damage) /\ Len(damage) \in Nat /\ damage \in Seq(Areas)
      /\ index \in 1 .. MaxRegions + 1 /\ area \in Areas
    BY RegionsAre DEF TypeOK
<1>2. CASE Absorb
    <2>1. /\ pc = "add" /\ pc' = "add" /\ area' = Union(area, damage[index])
          /\ index \in 1 .. Len(damage)
        BY <1>1, <1>2 DEF Absorb
    <2>2. Fit(area) /\ Fit(damage[index])
        BY <1>1, <2>1 DEF Regular
    <2>3. Inside(px, py, area) \/ Inside(px, py, damage[index]) => Inside(px, py, area')
        BY <2>1, <2>2, UnionFits
    <2>4. CASE Inside(px, py, area) \/ Inside(px, py, damage[index])
        BY <2>1, <2>3, <2>4 DEF ToDo
    <2>5. CASE ~(Inside(px, py, area) \/ Inside(px, py, damage[index]))
        <3>1. PICK n \in DOMAIN damage : Inside(px, py, damage[n]) /\ n # index
            BY <2>5 DEF ToDo
        <3> DEFINE to == IF n = Len(damage) THEN index ELSE n
        <3>2. to \in DOMAIN damage' /\ damage'[to] = damage[n]
            BY <1>1, <1>2, <2>1, <3>1, RegionAbsorbed
        <3> QED
            BY <2>1, <3>1, <3>2 DEF ToDo
    <2> QED
        BY <2>4, <2>5
<1>3. CASE Skip
    BY <1>3 DEF Skip, ToDo
<1>4. CASE Insert
    <2>1. pc = "add" /\ damage' = Append(damage, area) /\ pc' = "plan"
        BY <1>4 DEF Insert
    <2>2. /\ DOMAIN damage' = 1 .. Len(damage) + 1 /\ damage'[Len(damage) + 1] = area
          /\ \A n \in 1 .. Len(damage) : damage'[n] = damage[n]
        BY <1>1, <2>1, AppendProperties, LenProperties
    <2>3. \A n \in DOMAIN damage : n \in DOMAIN damage' /\ damage'[n] = damage[n]
        BY <1>1, <2>2
    <2>4. Len(damage) + 1 \in DOMAIN damage'
        BY <1>1, <2>2
    <2>5. \E n \in DOMAIN damage' : Inside(px, py, damage'[n])
        BY <2>2, <2>3, <2>4 DEF ToDo
    <2> QED
        BY <2>1, <2>5 DEF ToDo
<1>5. CASE Sort
    <2>1. PICK order \in Orders : damage' = [n \in DOMAIN damage |-> damage[order[n]]]
        BY <1>5 DEF Sort
    <2>2. pc = "plan" /\ pc' = "chunks" /\ y' = damage'[1].y1
        BY <1>5 DEF Sort
    <2>3. PICK m \in DOMAIN damage : Inside(px, py, damage[m])
        BY <2>2 DEF ToDo
    <2>4. PICK n \in DOMAIN damage : order[n] = m
        BY <2>1, RegionsSorted
    <2>5. n \in DOMAIN damage' /\ damage'[n] = damage[m]
        BY <2>1, <2>4, RegionsSorted
    <2> QED
        BY <2>2, <2>3, <2>5 DEF ToDo, Inside
<1> QED
    BY <1>2, <1>3, <1>4, <1>5

LEMMA CoverRegions == CoverInv /\ (Absorb \/ Skip \/ Insert \/ Sort) => CoverInv'
<1> SUFFICES ASSUME CoverInv, Absorb \/ Skip \/ Insert \/ Sort PROVE CoverInv'
    OBVIOUS
<1> USE DEF CoverInv
<1>1. pc \in {"plan", "add"} /\ UNCHANGED <<plan, maps>>
    BY DEF Absorb, Skip, Insert, Sort
<1>2. NothingLost'
    <2> SUFFICES ASSUME pc' # "refused", NEW px \in Nat, NEW py \in Nat, Asked(px, py)'
                 PROVE  ToDo(px, py)'
        BY DEF NothingLost
    <2>1. Asked(px, py) /\ ~Mapped(px, py)
        BY <1>1, NoMapsYet DEF Asked
    <2>2. ToDo(px, py)
        BY <1>1, <2>1 DEF NothingLost
    <2> QED
        BY <2>2, RegionsKeepPixels
<1> QED
    BY <1>1, <1>2, PlanAbsorb, PlanSkip, PlanInsert, PlanSort, NoMapsYet

(* Regions that keep clear share no pixel.                                 *)
LEMMA ClearOfEachOther ==
  ASSUME PlanInv, NEW m \in DOMAIN damage, NEW n \in DOMAIN damage,
         NEW px \in Nat, NEW py \in Nat,
         Inside(px, py, damage[m]), Inside(px, py, damage[n])
  PROVE  m = n
<1>1. Fit(damage[m]) /\ Fit(damage[n])
    BY DEF PlanInv, Regular
<1>2. Touch(damage[m], damage[n])
    BY <1>1, AreaSides, PlanConstants DEF Fit, Inside, Touch
<1> QED
    BY <1>2 DEF PlanInv, Regular, RegionsSeparate

(* A chunk takes its pixels, and no others, from those still to draw.      *)
LEMMA ChunkTakes ==
  ASSUME PlanInv, Chunk, NEW px \in Nat, NEW py \in Nat
  PROVE  /\ Inside(px, py, ChunkMap.area) => ToDo(px, py)
         /\ ToDo(px, py)' <=> ToDo(px, py) /\ ~Inside(px, py, ChunkMap.area)
<1> USE DEF PlanInv
<1>1. pc = "chunks"
    BY RegionsCut
<1>2. DOMAIN damage = 1 .. Len(damage) /\ Len(damage) \in Nat
    BY RegionsAre
<1> DEFINE through == ChunkEnd = damage[1].y2
<1>3. /\ Fit(damage[1]) /\ 1 \in DOMAIN damage
      /\ y \in damage[1].y1 .. damage[1].y2 - 1 /\ ChunkEnd \in y + 1 .. damage[1].y2
    BY <1>1, ChunkArea
<1>4. /\ damage[1].y2 \in Nat /\ damage[1].y1 \in Nat /\ y \in Nat /\ ChunkEnd \in Nat
      /\ damage[1].x1 \in Nat /\ damage[1].x2 \in Nat
    BY <1>3, AreaSides, PlanConstants DEF Fit
<1>5. Inside(px, py, ChunkMap.area) <=> Inside(px, py, damage[1]) /\ y <= py /\ py < ChunkEnd
    <2>1. /\ ChunkMap.area.x1 = damage[1].x1 /\ ChunkMap.area.x2 = damage[1].x2
          /\ ChunkMap.area.y1 = y /\ ChunkMap.area.y2 = ChunkEnd
        BY <1>1, ChunkArea
    <2> HIDE DEF ChunkMap, ChunkEnd
    <2> QED
        BY <1>3, <1>4, <2>1 DEF Inside
<1>6. ToDo(px, py) <=>
        \E n \in DOMAIN damage : Inside(px, py, damage[n]) /\ (n = 1 => y <= py)
    BY <1>1 DEF ToDo
<1>7. Inside(px, py, ChunkMap.area) => ToDo(px, py)
    BY <1>3, <1>5, <1>6
<1>8. CASE ~through
    <2>1. damage' = damage /\ y' = ChunkEnd /\ pc' = "chunks"
        BY <1>8, RegionsCut
    <2>2. ToDo(px, py)' <=>
            \E n \in DOMAIN damage : Inside(px, py, damage[n]) /\ (n = 1 => ChunkEnd <= py)
        BY <2>1 DEF ToDo
    <2>3. ToDo(px, py)' => ToDo(px, py) /\ ~Inside(px, py, ChunkMap.area)
        <3> SUFFICES ASSUME ToDo(px, py)'
                     PROVE  ToDo(px, py) /\ ~Inside(px, py, ChunkMap.area)
            OBVIOUS
        <3>1. PICK n \in DOMAIN damage : Inside(px, py, damage[n]) /\ (n = 1 => ChunkEnd <= py)
            BY <2>2
        <3>2. n = 1 => y <= py
            BY <1>3, <1>4, <3>1
        <3>3. Inside(px, py, ChunkMap.area) => n = 1
            BY <1>3, <1>5, <3>1, ClearOfEachOther
        <3>4. n = 1 => ~Inside(px, py, ChunkMap.area)
            BY <1>4, <1>5, <3>1
        <3> QED
            BY <1>6, <3>1, <3>2, <3>3, <3>4
    <2>4. ToDo(px, py) /\ ~Inside(px, py, ChunkMap.area) => ToDo(px, py)'
        <3> SUFFICES ASSUME ToDo(px, py), ~Inside(px, py, ChunkMap.area) PROVE ToDo(px, py)'
            OBVIOUS
        <3>1. PICK n \in DOMAIN damage : Inside(px, py, damage[n]) /\ (n = 1 => y <= py)
            BY <1>6
        <3>2. n = 1 => ChunkEnd <= py
            BY <1>4, <1>5, <3>1
        <3> QED
            BY <2>2, <3>1, <3>2
    <2> QED
        BY <1>7, <2>3, <2>4
<1>9. CASE through
    <2>1. /\ DOMAIN damage' = 1 .. Len(damage) - 1
          /\ \A n \in DOMAIN damage' : damage'[n] = damage[n + 1]
          /\ pc' # "add" /\ (damage' # <<>> => y' = damage'[1].y1)
        BY <1>9, RegionsCut
    <2>2. \A n \in DOMAIN damage' : n + 1 \in DOMAIN damage /\ n + 1 # 1
        BY <1>2, <2>1
    <2>3. \A n \in DOMAIN damage \ {1} : n - 1 \in DOMAIN damage' /\ damage'[n - 1] = damage[n]
        BY <1>2, <2>1
    <2>4. Inside(px, py, ChunkMap.area) <=> Inside(px, py, damage[1]) /\ y <= py
        BY <1>4, <1>5, <1>9 DEF Inside
    <2>5. ToDo(px, py)' => ToDo(px, py) /\ ~Inside(px, py, ChunkMap.area)
        <3> SUFFICES ASSUME ToDo(px, py)'
                     PROVE  ToDo(px, py) /\ ~Inside(px, py, ChunkMap.area)
            OBVIOUS
        <3>1. PICK n \in DOMAIN damage' : Inside(px, py, damage'[n])
            BY <2>1 DEF ToDo
        <3>2. n + 1 \in DOMAIN damage /\ n + 1 # 1 /\ Inside(px, py, damage[n + 1])
            BY <2>1, <2>2, <3>1
        <3>3. ~Inside(px, py, damage[1])
            BY <1>3, <3>2, ClearOfEachOther
        <3> QED
            BY <1>6, <2>4, <3>2, <3>3
    <2>6. ToDo(px, py) /\ ~Inside(px, py, ChunkMap.area) => ToDo(px, py)'
        <3> SUFFICES ASSUME ToDo(px, py), ~Inside(px, py, ChunkMap.area) PROVE ToDo(px, py)'
            OBVIOUS
        <3>1. PICK n \in DOMAIN damage : Inside(px, py, damage[n]) /\ (n = 1 => y <= py)
            BY <1>6
        <3>2. n # 1
            BY <2>4, <3>1
        <3>3. n - 1 \in DOMAIN damage' /\ Inside(px, py, damage'[n - 1])
            BY <2>3, <3>1, <3>2
        <3>4. damage' # <<>>
            BY <3>3, EmptySeq
        <3>5. n - 1 = 1 => y' <= py
            BY <2>1, <3>3, <3>4 DEF Inside
        <3> QED
            BY <3>3, <3>5 DEF ToDo
    <2> QED
        BY <1>7, <2>5, <2>6
<1> QED
    BY <1>8, <1>9

LEMMA CoverChunk == CoverInv /\ Chunk => CoverInv'
<1> SUFFICES ASSUME CoverInv, Chunk PROVE CoverInv'
    OBVIOUS
<1> USE DEF CoverInv
<1>1. pc = "chunks" /\ UNCHANGED plan
    BY RegionsCut DEF PlanInv
<1>2. /\ DOMAIN maps' = DOMAIN maps \cup {Len(maps) + 1} /\ Len(maps) + 1 \notin DOMAIN maps
      /\ \A n \in DOMAIN maps : maps'[n] = maps[n]
      /\ maps'[Len(maps) + 1] = ChunkMap
    BY MapAdded DEF PlanInv
<1>3. \A px, py \in Nat :
        /\ Inside(px, py, ChunkMap.area) => ToDo(px, py)
        /\ ToDo(px, py)' <=> ToDo(px, py) /\ ~Inside(px, py, ChunkMap.area)
    BY ChunkTakes
<1>4. \A px, py \in Nat :
        Mapped(px, py)' <=> Mapped(px, py) \/ Inside(px, py, ChunkMap.area)
    BY <1>2 DEF Mapped
<1>5. \A px, py \in Nat : Asked(px, py)' <=> Asked(px, py)
    BY <1>1 DEF Asked
<1>6. NothingLost'
    BY <1>1, <1>3, <1>4, <1>5 DEF NothingLost
<1>7. \A px, py \in Nat : ~(ToDo(px, py)' /\ Mapped(px, py)')
    BY <1>1, <1>3, <1>4 DEF DrawnOnce
<1>8. \A px, py \in Nat : Inside(px, py, ChunkMap.area) => ~Mapped(px, py)
    BY <1>1, <1>3 DEF DrawnOnce
<1>9. ASSUME NEW px \in Nat, NEW py \in Nat, NEW m \in DOMAIN maps', NEW n \in DOMAIN maps',
             Inside(px, py, maps'[m].area), Inside(px, py, maps'[n].area)
      PROVE  m = n
    BY <1>2, <1>8, <1>9 DEF DrawnOnce, Mapped
<1> QED
    BY <1>6, <1>7, <1>9, PlanChunk DEF DrawnOnce

LEMMA CoverInvariant == Spec => []CoverInv
<1>1. Init => CoverInv
    <2> SUFFICES ASSUME Init PROVE CoverInv
        OBVIOUS
    <2>1. DOMAIN maps = {} /\ DOMAIN plan = {} /\ pc = "plan"
        BY EmptySeq DEF Init
    <2> QED
        BY <2>1, PlanInit DEF CoverInv, NothingLost, DrawnOnce, Asked
<1>2. CoverInv /\ [Next]_vars => CoverInv'
    <2> SUFFICES ASSUME CoverInv, [Next]_vars PROVE CoverInv'
        OBVIOUS
    <2>1. CASE \E r \in Rects : TakeRect(r)
        BY <2>1, CoverTake
    <2>2. CASE Absorb \/ Skip \/ Insert \/ Sort
        BY <2>2, CoverRegions
    <2>3. CASE Chunk
        BY <2>3, CoverChunk
    <2>4. CASE Done \/ UNCHANGED vars
        <3>1. UNCHANGED vars
            BY <2>4 DEF Done
        <3> QED
            BY <3>1, PlanStutter
               DEF vars, CoverInv, NothingLost, DrawnOnce, Asked, ToDo, Mapped
    <2> QED
        BY <2>1, <2>2, <2>3, <2>4 DEF Next
<1> QED
    BY <1>1, <1>2, PTL DEF Spec

(* MapsCoverDamage: when the last map of render_transaction is out, every  *)
(* pixel of the Core's rectangles and of their halo has been in one map,   *)
(* and no pixel in two.                                                    *)
THEOREM DamageIsCovered == Spec => []MapsCoverDamage
<1>1. CoverInv => MapsCoverDamage
    <2> SUFFICES ASSUME CoverInv, pc = "done"
                 PROVE  /\ \A r \in 1 .. Len(plan) :
                             Pixels(Halo(plan[r])) \subseteq UNION {MapPixels(n) : n \in DOMAIN maps}
                        /\ \A m, n \in DOMAIN maps : m # n => MapPixels(m) \cap MapPixels(n) = {}
        BY DEF MapsCoverDamage
    <2>1. DOMAIN plan = 1 .. Len(plan) /\ plan \in Seq(Rects)
          /\ maps \in Seq([area : Areas, is_last : BOOLEAN])
        BY RegionsAre DEF CoverInv, PlanInv, TypeOK
    <2>2. ASSUME NEW n \in DOMAIN maps
          PROVE  MapPixels(n) = {p \in Nat \X Nat : Inside(p[1], p[2], maps[n].area)}
        <3>1. maps[n] \in [area : Areas, is_last : BOOLEAN]
            BY <2>1, <2>2, ElementOfSeq, LenProperties
        <3>2. maps[n].area \in Areas
            BY <3>1
        <3>3. maps[n].area \in [x1 : Nat, y1 : Nat, x2 : Nat, y2 : Nat]
            BY <3>2, PlanConstants DEF Areas
        <3> QED
            BY <3>3, PixelsInside DEF MapPixels
    <2>3. ASSUME NEW r \in 1 .. Len(plan), NEW p \in Pixels(Halo(plan[r]))
          PROVE  \E n \in DOMAIN maps : p \in MapPixels(n)
        <3>1. Halo(plan[r]) \in [x1 : Nat, y1 : Nat, x2 : Nat, y2 : Nat]
            BY <2>1, ElementOfSeq, LenProperties, HaloIsArea
        <3>2. p \in Nat \X Nat /\ Inside(p[1], p[2], Halo(plan[r]))
            BY <3>1, PixelsInside
        <3>3. damage = <<>> /\ DOMAIN damage = {}
            BY EmptySeq DEF CoverInv, PlanInv, Cutting
        <3>4. ~ToDo(p[1], p[2]) /\ Asked(p[1], p[2])
            BY <2>1, <3>2, <3>3 DEF ToDo, Asked
        <3>5. Mapped(p[1], p[2])
            BY <3>2, <3>4 DEF CoverInv, NothingLost
        <3> QED
            BY <2>2, <3>2, <3>5 DEF Mapped
    <2>4. ASSUME NEW m \in DOMAIN maps, NEW n \in DOMAIN maps, m # n
          PROVE  MapPixels(m) \cap MapPixels(n) = {}
        <3> SUFFICES ASSUME NEW p \in MapPixels(m) \cap MapPixels(n) PROVE FALSE
            OBVIOUS
        <3>1. /\ p[1] \in Nat /\ p[2] \in Nat
              /\ Inside(p[1], p[2], maps[m].area) /\ Inside(p[1], p[2], maps[n].area)
            BY <2>2
        <3> QED
            BY <2>4, <3>1 DEF CoverInv, DrawnOnce
    <2> QED
        BY <2>3, <2>4
<1> QED
    BY <1>1, CoverInvariant, PTL

------------------------------------------------------------------------------
(* The loops end.                                                          *)

(* The entries of what is left.                                            *)
Entries ==
  /\ DOMAIN Left = 1 .. 5
  /\ Left[1] = IF pc \in {"plan", "add"} THEN 2 ELSE IF pc = "chunks" THEN 1 ELSE 0
  /\ Left[2] = MaxRegions - Len(plan)
  /\ Left[3] = IF pc = "add" THEN 1 ELSE 0
  /\ Left[4] = Len(damage)
  /\ Left[5] = IF pc = "add" THEN Len(damage) + 1 - index
               ELSE IF pc = "chunks" THEN Head(damage).y2 - y ELSE 0
LEMMA LeftEntries == Entries /\ Entries'
BY DEF Entries, Left

(* A smaller entry after equal ones is less left.                          *)
LEMMA LessLeft ==
  ASSUME \/ Left'[1] < Left[1]
         \/ Left'[1] = Left[1] /\ Left'[2] < Left[2]
         \/ Left'[1] = Left[1] /\ Left'[2] = Left[2] /\ Left'[3] < Left[3]
         \/ Left'[1] = Left[1] /\ Left'[2] = Left[2] /\ Left'[3] = Left[3] /\ Left'[4] < Left[4]
         \/ /\ Left'[1] = Left[1] /\ Left'[2] = Left[2] /\ Left'[3] = Left[3] /\ Left'[4] = Left[4]
            /\ Left'[5] < Left[5]
  PROVE  Below(Left', Left)
<1>1. ASSUME NEW n \in 1 .. 5, Left'[n] < Left[n], \A m \in 1 .. n - 1 : Left'[m] = Left[m]
      PROVE  Below(Left', Left)
    BY <1>1, LeftEntries DEF Below, Entries
<1>2. CASE Left'[1] < Left[1]
    BY <1>1, <1>2
<1>3. CASE Left'[1] = Left[1] /\ Left'[2] < Left[2]
    BY <1>1, <1>3
<1>4. CASE Left'[1] = Left[1] /\ Left'[2] = Left[2] /\ Left'[3] < Left[3]
    BY <1>1, <1>4
<1>5. CASE Left'[1] = Left[1] /\ Left'[2] = Left[2] /\ Left'[3] = Left[3] /\ Left'[4] < Left[4]
    BY <1>1, <1>5
<1>6. CASE /\ Left'[1] = Left[1] /\ Left'[2] = Left[2] /\ Left'[3] = Left[3] /\ Left'[4] = Left[4]
           /\ Left'[5] < Left[5]
    BY <1>1, <1>6
<1> QED
    BY <1>2, <1>3, <1>4, <1>5, <1>6

(* What is left is counted in naturals.                                    *)
LEMMA LeftCounted == PlanInv => Left \in [1 .. 5 -> Nat]
<1> SUFFICES ASSUME PlanInv PROVE Left \in [1 .. 5 -> Nat]
    OBVIOUS
<1>1. MaxRegions - Len(plan) \in Nat /\ Len(damage) \in Nat
    BY RegionsAre, PlanConstants DEF PlanInv, TypeOK
<1>2. pc = "add" => Len(damage) + 1 - index \in Nat
    BY <1>1 DEF PlanInv, TypeOK, Regular
<1>3. pc = "chunks" => Head(damage).y2 - y \in Nat
    <2> SUFFICES ASSUME pc = "chunks" PROVE Head(damage).y2 - y \in Nat
        OBVIOUS
    <2>1. Head(damage) = damage[1] /\ damage[1] \in Areas
        BY ChunkFits, EmptySeq DEF PlanInv, TypeOK, Cutting
    <2>2. damage[1].y2 \in Nat /\ damage[1].y1 \in Nat /\ y \in damage[1].y1 .. damage[1].y2 - 1
        BY <2>1, AreaSides DEF PlanInv, Cutting
    <2> QED
        BY <2>1, <2>2
<1> DEFINE l1 == CASE pc \in {"plan", "add"} -> 2 [] pc = "chunks" -> 1 [] OTHER -> 0
           l5 == CASE pc = "add" -> Len(damage) + 1 - index
                   [] pc = "chunks" -> Head(damage).y2 - y
                   [] OTHER -> 0
<1>4. l1 \in Nat
    OBVIOUS
<1>5. l5 \in Nat
    BY <1>2, <1>3
<1>6. Left = <<l1, MaxRegions - Len(plan), IF pc = "add" THEN 1 ELSE 0, Len(damage), l5>>
    BY DEF Left
<1> HIDE DEF l1, l5
<1> QED
    BY <1>1, <1>4, <1>5, <1>6

LEMMA PlanLess == PlanInv /\ Next => Below(Left', Left) \/ UNCHANGED vars
<1> SUFFICES ASSUME PlanInv, Next PROVE Below(Left', Left) \/ UNCHANGED vars
    OBVIOUS
<1>1. TypeOK /\ Regular /\ Counted /\ Cutting
    BY DEF PlanInv
<1>2. /\ Len(plan) \in 0 .. MaxRegions /\ Len(damage) \in 0 .. MaxRegions
      /\ index \in 1 .. MaxRegions + 1 /\ MaxRegions \in Nat
    BY <1>1, RegionsAre, PlanConstants DEF TypeOK
<1>3. CASE \E r \in Rects : TakeRect(r)
    <2>1. PICK r \in Rects : TakeRect(r)
        BY <1>3
    <2>2. pc = "plan" /\ pc' \in {"add", "refused"} /\ Len(plan') = Len(plan) + 1
        <3>1. plan \in Seq(Rects) /\ plan' = Append(plan, r)
            BY <1>1, <2>1 DEF TakeRect, TypeOK
        <3> QED
            BY <2>1, <3>1, AppendProperties DEF TakeRect
    <2> QED
        BY <1>2, <2>2, LeftEntries, LessLeft DEF Entries
<1>4. CASE Absorb
    <2>1. index \in 1 .. Len(damage) /\ pc = "add" /\ pc' = "add" /\ plan' = plan
        BY <1>2, <1>4 DEF Absorb
    <2>2. Len(damage') = Len(damage) - 1
        BY <1>1, <1>4, <2>1, RegionAbsorbed
    <2> QED
        BY <1>2, <2>1, <2>2, LeftEntries, LessLeft DEF Entries
<1>5. CASE Skip
    BY <1>2, <1>5, LeftEntries, LessLeft DEF Entries, Skip
<1>6. CASE Insert
    BY <1>2, <1>6, LeftEntries, LessLeft DEF Entries, Insert
<1>7. CASE Sort
    BY <1>2, <1>7, LeftEntries, LessLeft DEF Entries, Sort
<1>8. CASE Chunk
    <2>1. /\ pc = "chunks" /\ UNCHANGED plan
          /\ ChunkEnd # damage[1].y2 => damage' = damage /\ y' = ChunkEnd /\ pc' = "chunks"
          /\ ChunkEnd = damage[1].y2 => Len(damage') = Len(damage) - 1 /\ pc' \in {"chunks", "done"}
        BY <1>1, <1>8, RegionsCut
    <2>2. CASE ChunkEnd # damage[1].y2
        <3>1. Head(damage) = damage[1] /\ damage[1].y2 \in Nat
            BY <1>1, <2>1, ChunkFits, EmptySeq, AreaSides, PlanConstants DEF TypeOK, Cutting
        <3>2. ChunkEnd \in y + 1 .. damage[1].y2 /\ y \in Nat
            BY <1>1, <2>1, ChunkFits, PlanConstants DEF ChunkEnd, TypeOK
        <3>3. Left'[5] = damage[1].y2 - ChunkEnd /\ Left[5] = damage[1].y2 - y
            BY <2>1, <2>2, <3>1, LeftEntries DEF Entries
        <3>4. Left'[5] < Left[5]
            BY <3>1, <3>2, <3>3
        <3> QED
            BY <2>1, <2>2, <3>4, LeftEntries, LessLeft DEF Entries
    <2>3. CASE ChunkEnd = damage[1].y2
        BY <1>2, <2>1, <2>3, LeftEntries, LessLeft DEF Entries
    <2> QED
        BY <2>2, <2>3
<1>9. CASE Done
    BY <1>9 DEF Done
<1> QED
    BY <1>3, <1>4, <1>5, <1>6, <1>7, <1>8, <1>9 DEF Next

(* WorkRunsOut: the search of aligned_damage_add that starts over at every *)
(* region it absorbs, and the chunk loop of render_transaction, end for    *)
(* every plan, whatever the alignments.                                    *)
THEOREM LoopsEnd == Spec => WorkRunsOut
<1> DEFINE Natural == Left \in [1 .. 5 -> Nat]
<1>1. PlanInv => Natural
    BY LeftCounted
<1>2. PlanInv /\ Natural /\ Natural' /\ [Next]_vars => [LeavesLess]_vars
    BY PlanLess DEF LeavesLess
<1> QED
    BY <1>1, <1>2, PlanInvariant, PTL DEF Spec, WorkRunsOut
=============================================================================
