--------------------------- MODULE PackageLoadProofs ---------------------------
(* Proofs about PackageLoad, for any word width, sizes and field values.   *)
EXTENDS PackageLoad, TLAPS

------------------------------------------------------------------------------
(* JavaScript values.                                                      *)

(* Where a value is held.                                                  *)
HeldWhile(value) ==
  CASE value = "plan" -> {"hash", "canonicalize", "compare", "target", "viewport",
                          "cleanup_target", "cleanup_plan"}
    [] value = "canonicalizer" -> {"canonicalize"}
    [] value = "hash_result" -> {"compare"}
    [] value \in {"target", "target_id"} -> {"viewport", "cleanup_target"}
    [] value \in {"global", "ui"} -> {"functions", "pak", "entries", "metadata", "publish",
                                      "cleanup_assets", "buffer", "globals", "cleanup_ui"}
    [] value \in {"textures", "sprites"} -> {"entries", "metadata", "publish", "cleanup_assets"}
    [] value = "metadata" -> {"metadata"}
    [] value = "pak_buffer" -> {"globals"}

Balanced == \A value \in Values : held[value] = IF pc \in HeldWhile(value) THEN 1 ELSE 0

(* Nothing is held before a package is opened.                             *)
LEMMA BalancedInit == Init => Balanced
BY DEF Init, OpenInit, NothingHeld, Balanced, HeldWhile, Values

(* Opening a package holds nothing.                                        *)
LEMMA BalancedOpening == Balanced /\ Opening => Balanced'
<1> SUFFICES ASSUME Balanced, Opening PROVE Balanced'
    OBVIOUS
<1>1. /\ pc \in {"closed", "header", "variant", "section", "found"}
      /\ pc' \in {"closed", "header", "variant", "section", "found", "opened", "refused"}
    BY DEF Opening, OpenNext, Open, ReadHeader, SkipVariant, EnterVariant, NoVariant,
           ReadSection, EndVariant, Accept, Refuse, HashMismatch
<1>2. held' = held
    BY DEF Opening
<1> QED
    BY <1>1, <1>2 DEF Balanced, HeldWhile, Values

(* Each step of the validation holds and releases what its place requires. *)
LEMMA BalancedValidation == Balanced /\ ValidatePlan => Balanced'
<1> SUFFICES ASSUME Balanced, ValidatePlan, NEW value \in Values
             PROVE held'[value] = IF pc' \in HeldWhile(value) THEN 1 ELSE 0
    BY DEF Balanced
<1> USE DEF Balanced, HeldWhile, Values, Goto, Hold, Counted
<1>1. CASE ParsePlan BY <1>1 DEF ParsePlan
<1>2. CASE EvaluateCanonicalizer BY <1>2 DEF EvaluateCanonicalizer
<1>3. CASE Canonicalize BY <1>3 DEF Canonicalize
<1>4. CASE CompareDigests BY <1>4 DEF CompareDigests
<1>5. CASE CompareTarget BY <1>5 DEF CompareTarget
<1>6. CASE CompareViewport BY <1>6 DEF CompareViewport
<1>7. CASE CleanupTarget BY <1>7 DEF CleanupTarget
<1>8. CASE CleanupPlan BY <1>8 DEF CleanupPlan
<1> QED
    BY <1>1, <1>2, <1>3, <1>4, <1>5, <1>6, <1>7, <1>8 DEF ValidatePlan

(* So does each step of the installation.                                  *)
LEMMA BalancedInstallation == Balanced /\ InstallUi => Balanced'
<1> SUFFICES ASSUME Balanced, InstallUi, NEW value \in Values
             PROVE held'[value] = IF pc' \in HeldWhile(value) THEN 1 ELSE 0
    BY DEF Balanced
<1> USE DEF Balanced, HeldWhile, Values, Goto, Hold, Counted
<1>1. CASE CreateUi BY <1>1 DEF CreateUi
<1>2. CASE SetFunctions BY <1>2 DEF SetFunctions
<1>3. CASE CleanupUi BY <1>3 DEF CleanupUi
<1>4. CASE ReadPakHeader BY <1>4 DEF ReadPakHeader
<1>5. CASE TexturesMissing BY <1>5 DEF TexturesMissing
<1>6. CASE LoadEntry
    <2>1. /\ pc = "entries"
          /\ \/ pc' = "cleanup_assets" /\ Hold({}, {})
             \/ pc' = "metadata" /\ Hold({"metadata"}, {})
             \/ pc' = "entries" /\ Hold({}, {})
        BY <1>6 DEF LoadEntry, Broken
    <2> QED
        BY <2>1
<1>7. CASE SetMetadata BY <1>7 DEF SetMetadata, Broken
<1>8. CASE EndEntries BY <1>8 DEF EndEntries
<1>9. CASE PublishAssets BY <1>9 DEF PublishAssets
<1>10. CASE CleanupAssets BY <1>10 DEF CleanupAssets
<1>11. CASE CreateBuffer BY <1>11 DEF CreateBuffer
<1>12. CASE PublishGlobals BY <1>12 DEF PublishGlobals
<1> QED
    BY <1>1, <1>2, <1>3, <1>4, <1>5, <1>6, <1>7, <1>8, <1>9, <1>10, <1>11, <1>12
       DEF InstallUi, InstallAssets

(* ReleasedOnce: every JavaScript value is released exactly once on every  *)
(* path of package_validate_plan, install_ui and install_assets.           *)
THEOREM EachReleasedOnce == Spec => []ReleasedOnce
<1>1. Balanced /\ [Next]_vars => Balanced'
    <2> SUFFICES ASSUME Balanced, [Next]_vars PROVE Balanced'
        OBVIOUS
    <2>1. CASE Opening BY <2>1, BalancedOpening
    <2>2. CASE ValidatePlan BY <2>2, BalancedValidation
    <2>3. CASE InstallUi BY <2>3, BalancedInstallation
    <2>4. CASE Close BY <2>4 DEF Close, Goto, Balanced, HeldWhile, Values
    <2>5. CASE UNCHANGED vars BY <2>5 DEF vars, Balanced
    <2> QED
        BY <2>1, <2>2, <2>3, <2>4, <2>5 DEF Next
<1>2. Balanced => ReleasedOnce
    BY DEF Balanced, ReleasedOnce, HeldWhile, Values
<1> QED
    BY BalancedInit, <1>1, <1>2, PTL DEF Spec

------------------------------------------------------------------------------
(* Machine arithmetic.                                                     *)

(* What a word is.                                                         *)
LEMMA Words ==
  /\ WordMax \in Nat /\ WordMax >= 32 /\ Word = 0 .. WordMax
  /\ Sizes \subseteq Word /\ Counts \subseteq Word
  /\ Offsets \subseteq Word /\ Lengths \subseteq Word
BY PackageAssumption DEF Word

(* A sum is a word, and exact when it does not wrap.                       *)
LEMMA SumIsWord ==
  ASSUME NEW a \in Word, NEW b \in Word
  PROVE  Add(a, b) \in Word /\ (a + b <= WordMax => Add(a, b) = a + b)
BY Words DEF Add

(* A product that does not wrap is exact.                                  *)
LEMMA ProductIsExact ==
  ASSUME NEW a \in Nat, NEW b \in Nat, a * b <= WordMax
  PROVE  Mul(a, b) = a * b
<1>1. a * b \in 0 .. WordMax
    BY Words
<1>2. \A n \in 0 .. WordMax : n % (WordMax + 1) = n
    BY Words
<1> QED
    BY <1>1, <1>2 DEF Mul

(* The range check is the range check of true arithmetic.                  *)
LEMMA RangeIsInside ==
  ASSUME NEW offset \in Nat, NEW length \in Nat, NEW total \in Nat,
         RangeValid(offset, length, total)
  PROVE  offset + length <= total
BY DEF RangeValid

(* So is that of a table of variants, sections or directory entries.       *)
EntrySizes == {4, 6, 10}
LEMMA TableIsInside ==
  ASSUME NEW offset \in Word, NEW count \in Word, NEW entry_size \in EntrySizes,
         NEW total \in Word, TableValid(offset, count, entry_size, total)
  PROVE  offset + count * entry_size <= total
<1>1. CASE entry_size = 4
    <2>1. count * 4 <= WordMax
        BY <1>1, Words DEF TableValid
    <2>2. Mul(count, 4) = count * 4
        BY <2>1, Words, ProductIsExact
    <2> QED
        BY <1>1, <2>2, Words DEF TableValid, RangeValid
<1>2. CASE entry_size = 6
    <2>1. count * 6 <= WordMax
        BY <1>2, Words DEF TableValid
    <2>2. Mul(count, 6) = count * 6
        BY <2>1, Words, ProductIsExact
    <2> QED
        BY <1>2, <2>2, Words DEF TableValid, RangeValid
<1>3. CASE entry_size = 10
    <2>1. count * 10 <= WordMax
        BY <1>3, Words DEF TableValid
    <2>2. Mul(count, 10) = count * 10
        BY <2>1, Words, ProductIsExact
    <2> QED
        BY <1>3, <2>2, Words DEF TableValid, RangeValid
<1> QED
    BY <1>1, <1>2, <1>3 DEF EntrySizes

(* The address of an entry of such a table.                                *)
LEMMA EntryIsInside ==
  ASSUME NEW at \in Word, NEW count \in Word, NEW entry_size \in EntrySizes,
         NEW total \in Word, at + count * entry_size <= total,
         NEW k \in Nat, k < count
  PROVE  LET address == Add(at, Mul(k, entry_size)) IN
         address \in Word /\ address + entry_size <= total
<1>1. CASE entry_size = 4
    <2>1. Mul(k, 4) = k * 4 /\ k * 4 \in Word /\ at + k * 4 + 4 <= total
        BY <1>1, Words, ProductIsExact
    <2>2. Add(at, k * 4) = at + k * 4 /\ Add(at, k * 4) \in Word
        BY <2>1, Words DEF Add
    <2> QED
        BY <1>1, <2>1, <2>2, Words
<1>2. CASE entry_size = 6
    <2>1. Mul(k, 6) = k * 6 /\ k * 6 \in Word /\ at + k * 6 + 6 <= total
        BY <1>2, Words, ProductIsExact
    <2>2. Add(at, k * 6) = at + k * 6 /\ Add(at, k * 6) \in Word
        BY <2>1, Words DEF Add
    <2> QED
        BY <1>2, <2>1, <2>2, Words
<1>3. CASE entry_size = 10
    <2>1. Mul(k, 10) = k * 10 /\ k * 10 \in Word /\ at + k * 10 + 10 <= total
        BY <1>3, Words, ProductIsExact
    <2>2. Add(at, k * 10) = at + k * 10 /\ Add(at, k * 10) \in Word
        BY <2>1, Words DEF Add
    <2> QED
        BY <1>3, <2>1, <2>2, Words
<1> QED
    BY <1>1, <1>2, <1>3 DEF EntrySizes

(* The table of variants is at a word.                                     *)
LEMMA TableAtWord == ASSUME NEW m \in Word PROVE VariantTable(m) \in Word
<1>1. HeaderSize \in Word /\ Add(HeaderSize, m) \in Word
    BY Words DEF HeaderSize, Add
<1>2. \A n \in Word : AlignUp(n) \in Word
    BY Words DEF AlignUp, Alignment
<1> QED
    BY <1>1, <1>2 DEF VariantTable

------------------------------------------------------------------------------
(* Types, and memory inside the package.                                   *)

TablesTyped ==
  /\ size \in Word
  /\ table \in [at : Word, count : Word]
  /\ index \in 0 .. table.count
  /\ sections \in [at : Word, count : Word]
  /\ section \in 0 .. sections.count
  /\ previous_kind \in Kinds
  /\ view \in [Parts -> [at : Word, length : Word, variant : Nat]]
  /\ verified \subseteq Nat
AssetsTyped ==
  /\ held \in [Values -> Int]
  /\ directory \in [at : Word, count : Word, names : Word]
  /\ entry \in 0 .. directory.count
  /\ loaded \subseteq Nat
  /\ published \subseteq Properties
Pcs == OpenPcs \cup LoadPcs

(* Before the loops that count them, the indices are zero.                 *)
BeforeAssets == {"closed", "header", "variant", "section", "found", "opened", "hash",
                 "canonicalize", "compare", "target", "viewport", "ui", "functions", "pak"}
Fresh ==
  /\ pc \in {"closed", "header"} => index = 0
  /\ pc \in {"closed", "header", "variant"} => section = 0 /\ view = NoView
  /\ pc \in BeforeAssets => entry = 0

(* The tables that have been accepted lie inside.                          *)
TablesInside ==
  /\ pc \notin {"closed", "refused"} => size >= HeaderSize + FooterSize
  /\ pc \in {"variant", "section"} => table.at + table.count * VariantSize <= size
  /\ pc = "section" => /\ index < table.count
                       /\ sections.at + sections.count * SectionSize <= size
  /\ pc \in {"entries", "metadata"} => directory.at + directory.count * PakEntrySize <= PakSize
  /\ pc = "metadata" => entry < directory.count
PartsInside ==
  pc \notin {"closed", "refused"} =>
    \A part \in Parts : view[part].at + view[part].length <= PayloadEnd

Inside == TablesTyped /\ AssetsTyped /\ pc \in Pcs /\ Fresh /\ TablesInside /\ PartsInside

(* What a step used is memory, and inside.                                 *)
Sound(blocks) == blocks \subseteq Blocks /\ \A b \in blocks : b.at + b.length <= b.limit

LEMMA InsideInit == Init => Inside /\ Sound(touched)
BY Words DEF Init, OpenInit, Inside, Sound, TablesTyped, AssetsTyped, Pcs, OpenPcs, Fresh,
   TablesInside, PartsInside, NoTable, NoView, NoPart, NothingHeld, NoDirectory, Kinds, Parts,
   Identity, Plan, JavaScript, Pak, Properties, BeforeAssets

(* A block of words.                                                       *)
LEMMA BlockIsSound ==
  ASSUME NEW at \in Word, NEW length \in Word, NEW limit \in Word, at + length <= limit
  PROVE  /\ Block(at, length, limit) \in Blocks
         /\ Block(at, length, limit).at + Block(at, length, limit).length
              <= Block(at, length, limit).limit
BY DEF Block, Blocks

(* A refusal keeps all this.                                               *)
LEMMA RefuseIsInside ==
  ASSUME Inside, Refuse, UNCHANGED <<held, assets>>
  PROVE  Inside'
<1> USE DEF Refuse, tables, assets, Inside
<1>1. TablesTyped' BY DEF TablesTyped
<1>2. AssetsTyped' BY DEF AssetsTyped
<1>3. pc' \in Pcs BY DEF Pcs, OpenPcs
<1>4. Fresh' BY DEF Fresh, BeforeAssets
<1>5. TablesInside' BY DEF TablesInside
<1>6. PartsInside' BY DEF PartsInside
<1> QED
    BY <1>1, <1>2, <1>3, <1>4, <1>5, <1>6

(* Open.                                                                   *)
LEMMA OpenIsInside ==
  ASSUME Inside, Open, UNCHANGED <<held, assets>>
  PROVE  Inside' /\ Sound(touched')
<1> USE DEF Open, assets, Inside
<1>1. TablesTyped' BY Words DEF TablesTyped
<1>2. AssetsTyped' BY DEF AssetsTyped
<1>3. pc' \in Pcs BY DEF Pcs, OpenPcs
<1>4. Fresh' BY DEF Fresh, BeforeAssets
<1>5. TablesInside' BY DEF TablesInside
<1>6. PartsInside' 
    <2>1. view' = NoView
        BY DEF Fresh
    <2>2. pc' = "header" => size' - FooterSize >= 0
        BY Words DEF HeaderSize, FooterSize
    <2> QED
        BY <2>1, <2>2 DEF PartsInside, PayloadEnd, NoView, NoPart
<1>7. Sound(touched') BY DEF Sound
<1> QED
    BY <1>1, <1>2, <1>3, <1>4, <1>5, <1>6, <1>7

(* ReadHeader.                                                             *)
LEMMA ReadHeaderIsInside ==
  ASSUME Inside, ReadHeader, UNCHANGED <<held, assets>>
  PROVE  Inside' /\ Sound(touched')
<1>1. Sound(touched')
    <2>1. size \in Word /\ 0 \in Word
        BY Words DEF Inside, TablesTyped
    <2> QED
        BY <2>1, Words, BlockIsSound DEF ReadHeader, Sound
<1>2. CASE Refuse
    BY <1>1, <1>2, RefuseIsInside
<1>3. CASE ~Refuse
    <2> PICK manifest_size \in Lengths, variant_count \in Counts :
             /\ HeaderAccepted(manifest_size, variant_count)
             /\ pc' = "variant"
             /\ table' = [at |-> VariantTable(manifest_size), count |-> variant_count]
             /\ UNCHANGED <<size, index, sections, section, previous_kind, view, verified>>
        BY <1>3 DEF ReadHeader
    <2>1. VariantTable(manifest_size) \in Word /\ variant_count \in Word
        BY Words, TableAtWord
    <2>2. VariantTable(manifest_size) + variant_count * VariantSize <= size
        BY <2>1, TableIsInside DEF HeaderAccepted, VariantSize, EntrySizes, Inside, TablesTyped
    <2> USE DEF ReadHeader, assets, Inside
    <2>3. TablesTyped' BY <2>1, Words DEF TablesTyped, Fresh
    <2>4. AssetsTyped' BY DEF AssetsTyped
    <2>5. pc' \in Pcs BY DEF Pcs, OpenPcs
    <2>6. Fresh' BY DEF Fresh, BeforeAssets
    <2>7. TablesInside' BY <2>2 DEF TablesInside
    <2>8. PartsInside' BY DEF PartsInside, PayloadEnd
    <2> QED
        BY <1>1, <2>3, <2>4, <2>5, <2>6, <2>7, <2>8
<1> QED
    BY <1>2, <1>3

(* SkipVariant, EnterVariant and NoVariant.                                *)
LEMMA VariantIsInside ==
  ASSUME Inside, SkipVariant \/ EnterVariant \/ NoVariant, UNCHANGED <<held, assets>>
  PROVE  Inside' /\ Sound(touched')
<1>1. pc = "variant" /\ size \in Word /\ table.at \in Word /\ table.count \in Word
      /\ index \in Nat /\ table.at + table.count * 10 <= size
    BY Words DEF SkipVariant, EnterVariant, NoVariant, Inside, TablesTyped, TablesInside, VariantSize
<1>2. CASE SkipVariant
    <2>1. index < table.count
        BY <1>2 DEF SkipVariant, MoreVariants
    <2>2. VariantEntry \in Word /\ VariantEntry + VariantSize <= size
        BY <1>1, <2>1, EntryIsInside DEF VariantEntry, EntrySizes, VariantSize
    <2>3. Sound(touched')
        BY <1>1, <1>2, <2>2, Words, BlockIsSound DEF SkipVariant, Sound, TargetSize, VariantSize
    <2> USE <1>2 DEF SkipVariant, assets, Inside
    <2>4. TablesTyped' BY <1>1, <2>1, Words DEF TablesTyped
    <2>5. AssetsTyped' BY DEF AssetsTyped
    <2>6. pc' \in Pcs OBVIOUS
    <2>7. Fresh' BY <1>1 DEF Fresh
    <2>8. TablesInside' BY <1>1 DEF TablesInside, VariantSize
    <2>9. PartsInside' BY DEF PartsInside, PayloadEnd
    <2> QED
        BY <2>3, <2>4, <2>5, <2>6, <2>7, <2>8, <2>9
<1>3. CASE EnterVariant
    <2>1. index < table.count
        BY <1>3 DEF EnterVariant, MoreVariants
    <2>2. VariantEntry \in Word /\ VariantEntry + VariantSize <= size
        BY <1>1, <2>1, EntryIsInside DEF VariantEntry, EntrySizes, VariantSize
    <2>3. Sound(touched')
        BY <1>1, <1>3, <2>2, Words, BlockIsSound DEF EnterVariant, Sound, VariantSize
    <2>4. CASE Refuse
        BY <2>3, <2>4, RefuseIsInside
    <2>5. CASE ~Refuse
        <3> PICK section_count \in Counts, sections_offset \in Offsets :
                 /\ TableValid(sections_offset, section_count, SectionSize, size)
                 /\ pc' = "section"
                 /\ sections' = [at |-> sections_offset, count |-> section_count]
                 /\ UNCHANGED <<size, table, index, section, previous_kind, view, verified>>
            BY <1>3, <2>5 DEF EnterVariant
        <3>1. section_count \in Word /\ sections_offset \in Word
            BY Words
        <3>2. sections_offset + section_count * SectionSize <= size
            BY <1>1, <3>1, TableIsInside DEF SectionSize, EntrySizes
        <3> USE <1>1 DEF assets, Inside
        <3>3. TablesTyped' BY <3>1, Words DEF TablesTyped, Fresh
        <3>4. AssetsTyped' BY DEF AssetsTyped
        <3>5. pc' \in Pcs BY DEF Pcs, OpenPcs
        <3>6. Fresh' BY DEF Fresh, BeforeAssets
        <3>7. TablesInside' BY <2>1, <3>2 DEF TablesInside
        <3>8. PartsInside' BY DEF PartsInside, PayloadEnd
        <3> QED
            BY <2>3, <3>3, <3>4, <3>5, <3>6, <3>7, <3>8
    <2> QED
        BY <2>4, <2>5
<1>4. CASE NoVariant
    BY <1>4, RefuseIsInside DEF NoVariant, Sound
<1> QED
    BY <1>2, <1>3, <1>4

(* ReadSection.                                                            *)
LEMMA ReadSectionIsInside ==
  ASSUME Inside, ReadSection, UNCHANGED <<held, assets>>
  PROVE  Inside' /\ Sound(touched')
<1>1. /\ size \in Word /\ size >= 6 /\ section \in Nat /\ index \in Nat
      /\ sections.at \in Word /\ sections.count \in Word
      /\ sections.at + sections.count * 4 <= size
    BY Words DEF ReadSection, Inside, TablesTyped, TablesInside, SectionSize, HeaderSize, FooterSize
<1>2. SectionEntry \in Word /\ SectionEntry + SectionSize <= size
    BY <1>1, EntryIsInside DEF ReadSection, SectionEntry, EntrySizes, SectionSize
<1> PICK kind \in Kinds, offset \in Offsets, length \in Lengths :
         IF SectionAccepted(kind, offset, length)
         THEN /\ touched' = {Block(SectionEntry, SectionSize, size), Block(offset, length, size)}
              /\ section' = section + 1
              /\ previous_kind' = kind
              /\ view' = IF kind \notin Parts THEN view
                         ELSE [view EXCEPT ![kind] =
                                 [at |-> offset, length |-> length, variant |-> index + 1]]
              /\ UNCHANGED <<pc, size, table, index, sections, verified>>
         ELSE touched' = {Block(SectionEntry, SectionSize, size)} /\ Refuse
    BY DEF ReadSection
<1>3. CASE ~SectionAccepted(kind, offset, length)
    <2>1. Sound(touched')
        BY <1>1, <1>2, <1>3, Words, BlockIsSound DEF Sound, SectionSize
    <2> QED
        BY <1>3, <2>1, RefuseIsInside
<1>4. CASE SectionAccepted(kind, offset, length)
    <2>1. /\ offset \in Word /\ length \in Word
          /\ PayloadEnd \in Nat /\ offset + length <= PayloadEnd /\ PayloadEnd <= size
        BY <1>1, <1>4, Words, RangeIsInside DEF SectionAccepted, PayloadEnd, FooterSize
    <2>2. Sound(touched')
        <3>1. Sound({Block(SectionEntry, SectionSize, size)})
            BY <1>1, <1>2, Words, BlockIsSound DEF Sound, SectionSize
        <3>2. Sound({Block(offset, length, size)})
            <4>1. offset + length <= size
                BY <1>1, <2>1, Words
            <4> QED
                BY <1>1, <2>1, <4>1, BlockIsSound DEF Sound
        <3> QED
            BY <1>4, <3>1, <3>2 DEF Sound
    <2> USE <1>4 DEF assets, Inside
    <2>3. TablesTyped'
        <3>1. view' \in [Parts -> [at : Word, length : Word, variant : Nat]]
            BY <1>1, <2>1 DEF TablesTyped
        <3>2. section' \in 0 .. sections'.count
            <4>1. section < sections.count /\ sections' = sections /\ section' = section + 1
                BY DEF ReadSection
            <4> QED
                BY <1>1, <4>1, Words
        <3> QED
            BY <3>1, <3>2 DEF TablesTyped
    <2>4. AssetsTyped' BY DEF AssetsTyped
    <2>5. pc' \in Pcs OBVIOUS
    <2>6. Fresh' BY DEF Fresh, ReadSection
    <2>7. TablesInside' BY DEF TablesInside, PakSize, ReadSection
    <2>8. PartsInside' BY <2>1 DEF PartsInside, PayloadEnd, TablesTyped, ReadSection
    <2> QED
        BY <2>2, <2>3, <2>4, <2>5, <2>6, <2>7, <2>8
<1> QED
    BY <1>3, <1>4

(* EndVariant and Accept.                                                  *)
LEMMA AcceptIsInside ==
  ASSUME Inside, EndVariant \/ Accept, UNCHANGED <<held, assets>>
  PROVE  Inside' /\ Sound(touched')
<1>1. Sound(touched')
    <2>1. CASE touched' = {}
        BY <2>1 DEF Sound
    <2>2. CASE touched' # {}
        <3>1. /\ pc = "found" /\ view[JavaScript].length # 0
              /\ touched' = {Block(view[JavaScript].at + view[JavaScript].length - 1, 1, size)}
            BY <2>2 DEF EndVariant, Accept, Complete
        <3>2. /\ view[JavaScript].at \in Word /\ view[JavaScript].length \in Word
              /\ size \in Word /\ size >= 6
              /\ view[JavaScript].at + view[JavaScript].length <= size - 2
            BY <3>1, Words DEF Inside, TablesTyped, TablesInside, PartsInside, PayloadEnd,
               HeaderSize, FooterSize, Parts, JavaScript
        <3> DEFINE last == view[JavaScript].at + view[JavaScript].length - 1
        <3>3. last \in Word /\ 1 \in Word /\ last + 1 <= size
            BY <3>1, <3>2, Words
        <3> HIDE DEF last
        <3>4. Sound({Block(last, 1, size)})
            BY <3>2, <3>3, BlockIsSound DEF Sound
        <3> QED
            BY <3>1, <3>4 DEF last
    <2> QED
        BY <2>1, <2>2
<1>2. CASE Refuse
    BY <1>1, <1>2, RefuseIsInside
<1>3. CASE ~Refuse
    <2>1. /\ pc' \in {"found", "opened"} /\ pc \in {"section", "found"}
          /\ UNCHANGED <<size, table, index, sections, section, previous_kind, view>>
          /\ verified' \in {verified, verified \cup {index + 1}}
        BY <1>3 DEF EndVariant, Accept, HashMismatch, tables
    <2> USE <2>1 DEF assets, Inside
    <2>2. TablesTyped' BY DEF TablesTyped
    <2>3. AssetsTyped' BY DEF AssetsTyped
    <2>4. pc' \in Pcs BY DEF Pcs, OpenPcs
    <2>5. Fresh' BY DEF Fresh, BeforeAssets
    <2>6. TablesInside' BY DEF TablesInside
    <2>7. PartsInside' BY DEF PartsInside, PayloadEnd
    <2> QED
        BY <1>1, <2>2, <2>3, <2>4, <2>5, <2>6, <2>7
<1> QED
    BY <1>2, <1>3

LEMMA OpeningIsInside == Inside /\ Opening => Inside' /\ Sound(touched')
BY OpenIsInside, ReadHeaderIsInside, VariantIsInside, ReadSectionIsInside, AcceptIsInside
   DEF Opening, OpenNext

------------------------------------------------------------------------------
(* The same for the steps after the package is open.                       *)

(* References are counted in integers.                                     *)
LEMMA HoldIsTyped ==
  ASSUME held \in [Values -> Int], NEW taken, NEW released, Hold(taken, released)
  PROVE  held' \in [Values -> Int]
<1>1. \A value \in Values : Counted(taken, value) \in Int /\ Counted(released, value) \in Int
    BY DEF Counted
<1> QED
    BY <1>1 DEF Hold

(* A step that leaves the tables and the assets alone, outside the loops.  *)
LEMMA QuietIsInside ==
  ASSUME Inside, UNCHANGED <<tables, assets>>, held' \in [Values -> Int],
         pc \notin {"closed", "header", "variant", "section", "refused"},
         pc' \in Pcs \ {"closed", "header", "variant", "section", "entries", "metadata"},
         pc' \in BeforeAssets => pc \in BeforeAssets
  PROVE  Inside'
<1> USE DEF tables, assets, Inside
<1>1. TablesTyped' BY DEF TablesTyped
<1>2. AssetsTyped' BY DEF AssetsTyped
<1>3. Fresh' BY DEF Fresh
<1>4. TablesInside' BY DEF TablesInside
<1>5. PartsInside' BY DEF PartsInside, PayloadEnd
<1> QED
    BY <1>1, <1>2, <1>3, <1>4, <1>5

(* The steps of pocketjs_package_validate_plan are such steps; only the    *)
(* first uses memory of the package.                                       *)
LEMMA ValidationIsInside == Inside /\ ValidatePlan => Inside' /\ Sound(touched')
<1> SUFFICES ASSUME Inside, ValidatePlan PROVE Inside' /\ Sound(touched')
    OBVIOUS
<1>1. held' \in [Values -> Int]
    BY HoldIsTyped DEF ValidatePlan, ParsePlan, EvaluateCanonicalizer, Canonicalize,
       CompareDigests, CompareTarget, CompareViewport, CleanupTarget, CleanupPlan,
       Inside, AssetsTyped
<1>2. /\ UNCHANGED <<tables, assets>>
      /\ pc \in {"opened", "hash", "canonicalize", "compare", "target", "viewport",
                 "cleanup_target", "cleanup_plan"}
      /\ pc' \in {"hash", "canonicalize", "compare", "target", "viewport", "cleanup_target",
                  "cleanup_plan", "ui", "refused"}
      /\ pc' \in BeforeAssets => pc \in BeforeAssets
    BY DEF ValidatePlan, ParsePlan, EvaluateCanonicalizer, Canonicalize, CompareDigests,
       CompareTarget, CompareViewport, CleanupTarget, CleanupPlan, Goto, Untouched, BeforeAssets
<1>3. Inside'
    BY <1>1, <1>2, QuietIsInside DEF Pcs, OpenPcs, LoadPcs
<1>4. CASE ParsePlan
    <2>1. /\ view[Plan].at \in Word /\ view[Plan].length \in Word /\ size \in Word
          /\ view[Plan].at + view[Plan].length <= size - 2
        BY <1>4 DEF ParsePlan, Goto, Inside, TablesTyped, PartsInside, PayloadEnd, FooterSize,
           Parts, Plan
    <2>2. view[Plan].at + view[Plan].length <= size
        BY <2>1, Words
    <2> QED
        BY <1>3, <1>4, <2>1, <2>2, BlockIsSound DEF ParsePlan, Sound
<1>5. CASE touched' = {}
    BY <1>3, <1>5 DEF Sound
<1> QED
    BY <1>4, <1>5 DEF ValidatePlan, EvaluateCanonicalizer, Canonicalize, CompareDigests,
       CompareTarget, CompareViewport, CleanupTarget, CleanupPlan, Untouched

(* So are most steps of the installation.                                  *)
Quiet == CreateUi \/ SetFunctions \/ CleanupUi \/ TexturesMissing \/ EndEntries
         \/ CleanupAssets \/ CreateBuffer
LEMMA QuietInstallationIsInside == Inside /\ Quiet => Inside' /\ Sound(touched')
<1> SUFFICES ASSUME Inside, Quiet PROVE Inside' /\ Sound(touched')
    OBVIOUS
<1>1. held' \in [Values -> Int]
    BY HoldIsTyped DEF Quiet, CreateUi, SetFunctions, CleanupUi, TexturesMissing, EndEntries,
       CleanupAssets, CreateBuffer, Inside, AssetsTyped
<1>2. /\ UNCHANGED <<tables, assets>>
      /\ pc \in {"ui", "functions", "cleanup_ui", "pak", "entries", "cleanup_assets", "buffer"}
      /\ pc' \in {"functions", "pak", "cleanup_ui", "publish", "refused", "globals"}
      /\ pc' \in BeforeAssets => pc \in BeforeAssets
    BY DEF Quiet, CreateUi, SetFunctions, CleanupUi, TexturesMissing, EndEntries,
       CleanupAssets, CreateBuffer, Goto, Untouched, BeforeAssets
<1>3. Inside'
    BY <1>1, <1>2, QuietIsInside DEF Pcs, OpenPcs, LoadPcs
<1>4. Sound(touched')
    <2>1. CASE touched' = {}
        BY <2>1 DEF Sound
    <2>2. CASE touched' # {}
        <3>1. pc = "buffer" /\ touched' = {Block(view[Pak].at, PakSize, size)}
            BY <2>2 DEF Quiet, CreateUi, SetFunctions, CleanupUi, TexturesMissing, EndEntries,
               CleanupAssets, CreateBuffer, Goto, Untouched
        <3>2. /\ view[Pak].at \in Word /\ PakSize \in Word /\ size \in Word
              /\ view[Pak].at + PakSize <= size - 2
            BY <3>1 DEF Inside, TablesTyped, PartsInside, PayloadEnd, FooterSize, Parts, Pak,
               PakSize
        <3>3. view[Pak].at + PakSize <= size
            BY <3>2, Words
        <3> QED
            BY <3>1, <3>2, <3>3, BlockIsSound DEF Sound
    <2> QED
        BY <2>1, <2>2
<1> QED
    BY <1>3, <1>4

(* What holds wherever the PAK is read.                                    *)
LEMMA PakIsTyped ==
  ASSUME Inside
  PROVE  /\ PakSize \in Word
         /\ directory.at \in Word /\ directory.count \in Word /\ directory.names \in Word
         /\ entry \in Nat
BY Words DEF Inside, TablesTyped, AssetsTyped, PakSize, Parts, Pak

(* ReadPakHeader.                                                          *)
LEMMA PakHeaderIsInside ==
  ASSUME Inside, ReadPakHeader
  PROVE  Inside' /\ Sound(touched')
<1>1. Sound(touched')
    <2>1. Sound({})
        BY DEF Sound
    <2>2. CASE PakSize >= PakHeaderSize
        <3>1. 0 \in Word /\ PakHeaderSize \in Word /\ 0 + PakHeaderSize <= PakSize
            BY <2>2, Words DEF PakHeaderSize
        <3>2. Sound({Block(0, PakHeaderSize, PakSize)})
            BY <3>1, PakIsTyped, BlockIsSound DEF Sound
        <3> QED
            BY <2>1, <3>2 DEF ReadPakHeader
    <2>3. CASE ~(PakSize >= PakHeaderSize)
        <3>1. PakSize < PakHeaderSize
            BY <2>3, PakIsTyped, Words DEF PakHeaderSize
        <3> QED
            BY <2>1, <3>1 DEF ReadPakHeader
    <2> QED
        BY <2>2, <2>3
<1>2. held' \in [Values -> Int]
    BY HoldIsTyped DEF ReadPakHeader, Inside, AssetsTyped
<1>3. CASE pc' = "cleanup_ui" /\ UNCHANGED directory
    <2>1. UNCHANGED <<tables, assets>> /\ pc = "pak"
        BY <1>3 DEF ReadPakHeader, assets
    <2> QED
        BY <1>1, <1>2, <1>3, <2>1, QuietIsInside DEF Pcs, OpenPcs, LoadPcs, BeforeAssets
<1>4. CASE ~(pc' = "cleanup_ui" /\ UNCHANGED directory)
    <2> PICK at \in Offsets, count \in Counts, names \in Offsets :
             /\ PakAccepted(at, count)
             /\ pc' = "entries"
             /\ directory' = [at |-> at, count |-> count, names |-> names]
        BY <1>4 DEF ReadPakHeader
    <2>1. at \in Word /\ count \in Word /\ names \in Word
        BY Words
    <2>2. at + count * PakEntrySize <= PakSize
        BY <2>1, PakIsTyped, TableIsInside DEF PakAccepted, PakEntrySize, EntrySizes
    <2>3. pc = "pak" /\ UNCHANGED <<tables, entry, loaded, published>>
        BY DEF ReadPakHeader
    <2> USE <2>3 DEF tables, Inside
    <2>4. TablesTyped' BY DEF TablesTyped
    <2>5. AssetsTyped' BY <1>2, <2>1, Words DEF AssetsTyped, Fresh, BeforeAssets
    <2>6. pc' \in Pcs BY DEF Pcs, LoadPcs
    <2>7. Fresh' BY DEF Fresh, BeforeAssets
    <2>8. TablesInside' BY <2>2 DEF TablesInside, PakSize
    <2>9. PartsInside' BY DEF PartsInside, PayloadEnd
    <2> QED
        BY <1>1, <2>4, <2>5, <2>6, <2>7, <2>8, <2>9
<1> QED
    BY <1>3, <1>4

(* What LoadEntry uses: the entry, the name it gives, and the blob, the    *)
(* header of an image or a sprite apart from its pixels.                   *)
LEMMA EntryIsSound ==
  ASSUME Inside, pc = "entries", entry < directory.count
  PROVE  Sound({Block(DirectoryEntry, PakEntrySize, PakSize)})
<1>1. directory.at + directory.count * PakEntrySize <= PakSize
    BY DEF Inside, TablesInside
<1>2. DirectoryEntry \in Word /\ DirectoryEntry + PakEntrySize <= PakSize
    BY <1>1, PakIsTyped, EntryIsInside DEF DirectoryEntry, PakEntrySize, EntrySizes
<1>3. PakEntrySize \in Word
    BY Words DEF PakEntrySize
<1> QED
    BY <1>2, <1>3, PakIsTyped, BlockIsSound DEF Sound

LEMMA NameIsSound ==
  ASSUME Inside, NEW name_offset \in Word, NEW name_size \in Word,
         RangeValid(NameAt(name_offset), name_size, PakSize)
  PROVE  Sound({Block(NameAt(name_offset), name_size, PakSize)})
<1>1. NameAt(name_offset) \in Word
    BY PakIsTyped, SumIsWord DEF NameAt
<1>2. NameAt(name_offset) + name_size <= PakSize
    BY <1>1, PakIsTyped, Words, RangeIsInside
<1> QED
    BY <1>1, <1>2, PakIsTyped, BlockIsSound DEF Sound

LEMMA BlobIsSound ==
  ASSUME Inside, NEW kind \in DOMAIN BlobHeader, NEW blob_offset \in Word,
         NEW blob_size \in Word, RangeValid(blob_offset, blob_size, PakSize),
         ~(blob_size < BlobHeader[kind])
  PROVE  Sound({Block(blob_offset, BlobHeader[kind], PakSize),
                Pixels(kind, blob_offset, blob_size)})
<1>1. BlobHeader[kind] \in Word
    BY Words DEF BlobHeader
<1>2. blob_offset + blob_size <= PakSize
    BY PakIsTyped, Words, RangeIsInside
<1> DEFINE header == BlobHeader[kind]
<1>3. header \in Word
    BY <1>1
<1>4. ~(blob_size < header)
    OBVIOUS
<1> HIDE DEF header
<1>5. /\ blob_offset + header <= PakSize
      /\ Add(blob_offset, header) = blob_offset + header
      /\ blob_offset + header \in Word
      /\ blob_size - header \in Word
      /\ blob_offset + header + (blob_size - header) <= PakSize
    BY <1>2, <1>3, <1>4, PakIsTyped, Words DEF Add
<1>6. Sound({Block(blob_offset, header, PakSize)})
    BY <1>3, <1>5, PakIsTyped, BlockIsSound DEF Sound
<1>7. Sound({Block(blob_offset + header, blob_size - header, PakSize)})
    BY <1>5, PakIsTyped, BlockIsSound DEF Sound
<1> QED
    BY <1>5, <1>6, <1>7 DEF Pixels, Sound, header

(* A step of the loop over the entries, and what sets properties.          *)
LEMMA EntriesAreInside ==
  ASSUME Inside, pc \in {"entries", "metadata"}, entry < directory.count,
         UNCHANGED <<tables, directory, published>>, held' \in [Values -> Int],
         pc' \in {"entries", "metadata", "cleanup_assets"},
         Taken \/ UNCHANGED <<entry, loaded>>,
         pc' = "metadata" => UNCHANGED entry
  PROVE  Inside'
<1> USE DEF tables, Inside
<1>1. /\ entry' \in 0 .. directory'.count
      /\ loaded' \subseteq Nat
    <2>1. entry' \in 0 .. directory'.count
        BY PakIsTyped, Words DEF Taken, AssetsTyped
    <2>2. loaded \subseteq Nat /\ entry \in Nat
        BY PakIsTyped DEF AssetsTyped
    <2> QED
        BY <2>1, <2>2 DEF Taken
<1>2. TablesTyped' BY DEF TablesTyped
<1>3. AssetsTyped' BY <1>1 DEF AssetsTyped
<1>4. pc' \in Pcs BY DEF Pcs, LoadPcs
<1>5. Fresh' BY DEF Fresh, BeforeAssets
<1>6. TablesInside' BY DEF TablesInside, PakSize
<1>7. PartsInside' BY DEF PartsInside, PayloadEnd
<1> QED
    BY <1>2, <1>3, <1>4, <1>5, <1>6, <1>7

LEMMA LoadEntryIsInside ==
  ASSUME Inside, LoadEntry
  PROVE  Inside' /\ Sound(touched')
<1>1. held' \in [Values -> Int]
    BY HoldIsTyped DEF LoadEntry, Inside, AssetsTyped
<1>2. Inside'
    <2>1. /\ pc' \in {"entries", "metadata", "cleanup_assets"}
          /\ Taken \/ UNCHANGED <<entry, loaded>>
          /\ pc' = "metadata" => UNCHANGED entry
        BY DEF LoadEntry, Broken, Taken
    <2> QED
        BY <1>1, <2>1, EntriesAreInside DEF LoadEntry
<1>3. Sound(touched')
    <2> PICK kind \in DOMAIN BlobHeader, blob_offset \in Offsets, blob_size \in Lengths,
             name_offset \in Offsets, name_size \in Lengths :
          LET first == Block(DirectoryEntry, PakEntrySize, PakSize)
              name == Block(NameAt(name_offset), name_size, PakSize)
          IN
          IF EntryAccepted(blob_offset, blob_size, name_offset, name_size)
          THEN IF blob_size < BlobHeader[kind]
               THEN touched' = {first, name}
               ELSE touched' = {first, name, Block(blob_offset, BlobHeader[kind], PakSize),
                                Pixels(kind, blob_offset, blob_size)}
          ELSE touched' = {first}
        BY DEF LoadEntry
    <2>1. Sound({Block(DirectoryEntry, PakEntrySize, PakSize)})
        BY EntryIsSound DEF LoadEntry
    <2>2. /\ blob_offset \in Word /\ blob_size \in Word
          /\ name_offset \in Word /\ name_size \in Word
        BY Words
    <2>3. CASE ~EntryAccepted(blob_offset, blob_size, name_offset, name_size)
        BY <2>1, <2>3
    <2>4. CASE EntryAccepted(blob_offset, blob_size, name_offset, name_size)
        <3>1. Sound({Block(NameAt(name_offset), name_size, PakSize)})
            BY <2>2, <2>4, NameIsSound DEF EntryAccepted
        <3>2. CASE blob_size < BlobHeader[kind]
            BY <2>1, <2>4, <3>1, <3>2 DEF Sound
        <3>3. CASE ~(blob_size < BlobHeader[kind])
            <4>1. Sound({Block(blob_offset, BlobHeader[kind], PakSize),
                         Pixels(kind, blob_offset, blob_size)})
                BY <2>2, <2>4, <3>3, BlobIsSound DEF EntryAccepted
            <4> QED
                BY <2>1, <2>4, <3>1, <3>3, <4>1 DEF Sound
        <3> QED
            BY <3>2, <3>3
    <2> QED
        BY <2>3, <2>4
<1> QED
    BY <1>2, <1>3

LEMMA SetMetadataIsInside ==
  ASSUME Inside, SetMetadata
  PROVE  Inside' /\ Sound(touched')
<1>1. held' \in [Values -> Int]
    BY HoldIsTyped DEF SetMetadata, Inside, AssetsTyped
<1>2. entry < directory.count
    BY DEF SetMetadata, Inside, TablesInside
<1>3. Inside'
    BY <1>1, <1>2, EntriesAreInside DEF SetMetadata, Untouched, Broken
<1> QED
    BY <1>3 DEF SetMetadata, Untouched, Sound

LEMMA PublishIsInside ==
  ASSUME Inside, PublishAssets \/ PublishGlobals
  PROVE  Inside' /\ Sound(touched')
<1>1. held' \in [Values -> Int]
    BY HoldIsTyped DEF PublishAssets, PublishGlobals, Inside, AssetsTyped
<1>2. /\ UNCHANGED <<tables, directory, entry, loaded>>
      /\ published' \subseteq Properties
      /\ pc \in {"publish", "globals"} /\ pc' \in {"buffer", "cleanup_ui", "ready", "refused"}
      /\ touched' = {}
    BY DEF PublishAssets, PublishGlobals, Untouched, Inside, AssetsTyped, Properties
<1> USE <1>2 DEF tables, Inside
<1>3. TablesTyped' BY DEF TablesTyped
<1>4. AssetsTyped' BY <1>1 DEF AssetsTyped
<1>5. pc' \in Pcs BY DEF Pcs, OpenPcs, LoadPcs
<1>6. Fresh' BY DEF Fresh, BeforeAssets
<1>7. TablesInside' BY DEF TablesInside
<1>8. PartsInside' BY DEF PartsInside, PayloadEnd
<1> QED
    BY <1>3, <1>4, <1>5, <1>6, <1>7, <1>8 DEF Sound

LEMMA CloseIsInside ==
  ASSUME Inside, Close
  PROVE  Inside' /\ Sound(touched')
<1> USE DEF Close, Goto, Inside
<1>1. TablesTyped'
    BY Words DEF TablesTyped, NoTable, NoView, NoPart, Kinds, Parts, Identity, Plan,
       JavaScript, Pak
<1>2. AssetsTyped' BY Words DEF AssetsTyped, NoDirectory, Properties
<1>3. pc' \in Pcs BY DEF Pcs, OpenPcs
<1>4. Fresh' BY DEF Fresh
<1>5. TablesInside' BY DEF TablesInside
<1>6. PartsInside' BY DEF PartsInside
<1> QED
    BY <1>1, <1>2, <1>3, <1>4, <1>5, <1>6 DEF Sound

(* The invariant holds of every state, together with what the last step    *)
(* used.                                                                   *)
LEMMA AlwaysInside == Spec => [](Inside /\ Sound(touched))
<1>1. Inside /\ Sound(touched) /\ [Next]_vars => Inside' /\ Sound(touched')
    <2> SUFFICES ASSUME Inside, Sound(touched), [Next]_vars
                 PROVE  Inside' /\ Sound(touched')
        OBVIOUS
    <2>1. CASE Opening BY <2>1, OpeningIsInside
    <2>2. CASE ValidatePlan BY <2>2, ValidationIsInside
    <2>3. CASE InstallUi
        BY <2>3, QuietInstallationIsInside, PakHeaderIsInside, LoadEntryIsInside,
           SetMetadataIsInside, PublishIsInside DEF InstallUi, InstallAssets, Quiet
    <2>4. CASE Close BY <2>4, CloseIsInside
    <2>5. CASE UNCHANGED vars
        <3> USE <2>5 DEF vars, tables, assets, Inside
        <3>1. TablesTyped' BY DEF TablesTyped
        <3>2. AssetsTyped' BY DEF AssetsTyped
        <3>3. Fresh' BY DEF Fresh
        <3>4. TablesInside' BY DEF TablesInside, PakSize
        <3>5. PartsInside' BY DEF PartsInside, PayloadEnd
        <3> QED
            BY <3>1, <3>2, <3>3, <3>4, <3>5 DEF Sound
    <2> QED
        BY <2>1, <2>2, <2>3, <2>4, <2>5 DEF Next
<1>2. Inside' /\ Sound(touched') <=> (Inside /\ Sound(touched))'
    OBVIOUS
<1> QED
    BY InsideInit, <1>1, <1>2, PTL DEF Spec

(* TypeOK: types of the reader's state, and its loops within their tables. *)
THEOREM TypeCorrect == Spec => []TypeOK
<1>1. Inside /\ Sound(touched) => TypeOK
    BY DEF Inside, Sound, TypeOK, TablesTyped, AssetsTyped, Pcs
<1> QED
    BY AlwaysInside, <1>1, PTL

(* ReadsInside: pocketjs_package_open and install_assets never use memory  *)
(* outside the package, whatever its fields say, at any word width.        *)
THEOREM AllReadsInside == Spec => []ReadsInside
<1>1. Inside /\ Sound(touched) => ReadsInside
    BY DEF Sound, ReadsInside
<1> QED
    BY AlwaysInside, <1>1, PTL

------------------------------------------------------------------------------
(* One variant.                                                            *)

OneSource ==
  /\ pc \in {"section", "found", "opened"} =>
       \A part \in Parts : view[part] # NoPart => view[part].variant = index + 1
  /\ pc \in {"found", "opened"} => index + 1 \in verified
  /\ pc = "opened" => Complete

LEMMA OneSourceStep == Inside /\ OneSource /\ [Next]_vars => OneSource'
<1> SUFFICES ASSUME Inside, OneSource, [Next]_vars PROVE OneSource'
    OBVIOUS
<1>1. CASE pc' \notin {"section", "found", "opened"}
    BY <1>1 DEF OneSource
<1>2. CASE EnterVariant /\ pc' = "section"
    <2>1. view = NoView /\ view' = view
        BY <1>2 DEF EnterVariant, Refuse, Inside, Fresh
    <2> QED
        BY <1>2, <2>1 DEF OneSource, NoView
<1>3. CASE ReadSection /\ pc' = "section"
    <2>1. /\ index' = index
          /\ \/ view' = view
             \/ \E kind \in Parts, offset \in Offsets, length \in Lengths :
                  view' = [view EXCEPT ![kind] =
                             [at |-> offset, length |-> length, variant |-> index + 1]]
        BY <1>3 DEF ReadSection, Refuse, tables
    <2> QED
        BY <1>3, <2>1 DEF OneSource, ReadSection, Inside, TablesTyped
<1>4. CASE EndVariant /\ pc' = "found"
    BY <1>4 DEF EndVariant, HashMismatch, Refuse, OneSource
<1>5. CASE Accept /\ pc' = "opened"
    BY <1>5 DEF Accept, Refuse, OneSource, tables, Complete
<1>6. CASE UNCHANGED <<pc, index, view, verified>>
    BY <1>6 DEF OneSource, Complete
<1> QED
    <2>1. CASE Opening
        BY <1>1, <1>2, <1>3, <1>4, <1>5, <2>1 DEF Opening, OpenNext, Open, ReadHeader,
           SkipVariant, EnterVariant, NoVariant, ReadSection, EndVariant, HashMismatch,
           Accept, Refuse
    <2>2. CASE ValidatePlan
        BY <1>1, <2>2 DEF ValidatePlan, ParsePlan, EvaluateCanonicalizer, Canonicalize,
           CompareDigests, CompareTarget, CompareViewport, CleanupTarget, CleanupPlan, Goto
    <2>3. CASE InstallUi
        BY <1>1, <2>3 DEF InstallUi, InstallAssets, CreateUi, SetFunctions, CleanupUi,
           ReadPakHeader, TexturesMissing, LoadEntry, Broken, SetMetadata, EndEntries,
           PublishAssets, CleanupAssets, CreateBuffer, PublishGlobals, Goto
    <2>4. CASE Close
        BY <1>1, <2>4 DEF Close, Goto
    <2>5. CASE UNCHANGED vars
        BY <1>6, <2>5 DEF vars, tables
    <2> QED
        BY <2>1, <2>2, <2>3, <2>4, <2>5 DEF Next

(* OneVariant: what pocketjs_package_open accepts is whole and comes from  *)
(* one variant, the one whose hash agreed.                                 *)
THEOREM OpenedIsOneVariant == Spec => []OneVariant
<1>1. Init => OneSource
    BY DEF Init, OpenInit, OneSource
<1>2. OneSource => OneVariant
    BY DEF OneSource, OneVariant
<1> QED
    BY AlwaysInside, OneSourceStep, <1>1, <1>2, PTL DEF Spec

------------------------------------------------------------------------------
(* Every asset.                                                            *)

Collected ==
  /\ pc \in BeforeAssets => loaded = {}
  /\ pc \in {"entries", "metadata", "publish", "buffer", "globals", "ready"} =>
       loaded = 0 .. entry - 1
  /\ pc \in {"publish", "buffer", "globals", "ready"} => entry = directory.count
  /\ pc \in {"buffer", "globals"} => {"__textures", "__sprites"} \subseteq published
  /\ pc = "ready" => published = Properties

LEMMA CollectedStep == Inside /\ Collected /\ [Next]_vars => Collected'
<1> SUFFICES ASSUME Inside, Collected, [Next]_vars PROVE Collected'
    OBVIOUS
<1>1. CASE pc' \in {"refused", "cleanup_target", "cleanup_plan", "cleanup_ui",
                    "cleanup_assets"}
    BY <1>1 DEF Collected, BeforeAssets
<1>2. CASE pc' \in BeforeAssets /\ pc \in BeforeAssets /\ UNCHANGED assets
    BY <1>2 DEF Collected, BeforeAssets, assets
<1>3. CASE UNCHANGED <<pc, assets>>
    BY <1>3 DEF Collected, assets
<1>4. CASE ReadPakHeader /\ pc' = "entries"
    <2>1. loaded' = {} /\ entry' = 0
        BY <1>4 DEF ReadPakHeader, Collected, Inside, Fresh, BeforeAssets
    <2> QED
        BY <1>4, <2>1 DEF Collected, BeforeAssets
<1>5. CASE LoadEntry \/ SetMetadata
    <2>1. /\ pc' \in {"entries", "metadata", "cleanup_assets"}
          /\ Taken \/ UNCHANGED <<entry, loaded>>
        BY <1>5 DEF LoadEntry, SetMetadata, Broken
    <2>2. loaded = 0 .. entry - 1 /\ entry \in Nat
        BY <1>5, PakIsTyped DEF LoadEntry, SetMetadata, Collected
    <2>3. loaded' = 0 .. entry' - 1
        <3>1. CASE UNCHANGED <<entry, loaded>>
            BY <2>2, <3>1
        <3>2. CASE Taken
            <4>1. (0 .. entry - 1) \cup {entry} = 0 .. entry
                BY <2>2
            <4>2. entry' - 1 = entry
                BY <2>2, <3>2 DEF Taken
            <4> QED
                BY <2>2, <3>2, <4>1, <4>2 DEF Taken
        <3> QED
            BY <2>1, <3>1, <3>2
    <2> QED
        BY <2>1, <2>3 DEF Collected, BeforeAssets
<1>6. CASE EndEntries
    BY <1>6 DEF EndEntries, Goto, Collected, BeforeAssets, assets
<1>7. CASE PublishAssets /\ pc' = "buffer"
    BY <1>7 DEF PublishAssets, Collected, BeforeAssets
<1>8. CASE CreateBuffer /\ pc' = "globals"
    BY <1>8 DEF CreateBuffer, Goto, Collected, BeforeAssets, assets
<1>9. CASE PublishGlobals /\ pc' = "ready"
    <2>1. published' = Properties
        BY <1>9 DEF PublishGlobals, Collected, Inside, AssetsTyped, Properties
    <2> QED
        BY <1>9, <2>1 DEF PublishGlobals, Collected, BeforeAssets
<1>10. CASE Close
    BY <1>10 DEF Close, Goto, Collected, BeforeAssets
<1> QED
    <2>1. CASE Opening
        BY <1>1, <1>2, <2>1 DEF Opening, OpenNext, Open, ReadHeader,
           SkipVariant, EnterVariant, NoVariant, ReadSection, EndVariant, HashMismatch,
           Accept, Refuse, BeforeAssets
    <2>2. CASE ValidatePlan
        BY <1>1, <1>2, <2>2 DEF ValidatePlan, ParsePlan, EvaluateCanonicalizer, Canonicalize,
           CompareDigests, CompareTarget, CompareViewport, CleanupTarget, CleanupPlan, Goto,
           BeforeAssets
    <2>3. CASE InstallUi
        BY <1>1, <1>2, <1>4, <1>5, <1>6, <1>7, <1>8, <1>9, <2>3 DEF InstallUi, InstallAssets,
           CreateUi, SetFunctions, CleanupUi, ReadPakHeader, TexturesMissing, PublishAssets,
           CleanupAssets, CreateBuffer, PublishGlobals, Goto, BeforeAssets
    <2>4. CASE UNCHANGED vars
        BY <1>3, <2>4 DEF vars
    <2> QED
        BY <1>10, <2>1, <2>2, <2>3, <2>4 DEF Next

(* AssetsComplete: install_ui starts an application only when all entries  *)
(* of the PAK were taken and all four properties set.                      *)
THEOREM StartedIsComplete == Spec => []AssetsComplete
<1>1. Init => Collected
    BY DEF Init, OpenInit, Collected, BeforeAssets
<1>2. Collected => AssetsComplete
    BY DEF Collected, AssetsComplete
<1> QED
    BY AlwaysInside, CollectedStep, <1>1, <1>2, PTL DEF Spec
=============================================================================
