---------------------------- MODULE PackageTables ----------------------------
(***************************************************************************)
(* Opening a .pocket package (src/pocketjs_package.c): the header, the     *)
(* table of variants and the sections of the variant for this target, all  *)
(* of which hold offsets and lengths that may be anything.                 *)
(*                                                                         *)
(* The unit is four bytes: a 32-bit field is one unit, and sizes, offsets  *)
(* and lengths count units.  A field is met once, so reading it chooses    *)
(* its value; a comparison or a hash agrees or not.  size_t and uint32_t   *)
(* are equally wide and wrap at WordMax.  All errors are "refused".        *)
(*                                                                         *)
(* An operator named Faulty<Name> is <Name> with a slip a programmer could *)
(* make; no action uses it.                                                *)
(***************************************************************************)
EXTENDS Naturals

CONSTANTS
  WordMax,       \* SIZE_MAX and UINT32_MAX
  Sizes,         \* what package_size may be
  Counts, Offsets, Lengths   \* what a field of the package may hold

HeaderSize == 4
FooterSize == 2
VariantSize == 10
TargetSize == 4
SectionSize == 4
Alignment == 4

Word == 0 .. WordMax

ASSUME PackageAssumption ==
  /\ WordMax \in Nat /\ WordMax >= 32
  /\ Sizes \subseteq Word
  /\ Counts \subseteq Word /\ Offsets \subseteq Word /\ Lengths \subseteq Word

(* Sections by kind: identity, plan, JavaScript, PAK; others are ignored.  *)
Identity == 1
Plan == 2
JavaScript == 3
Pak == 4
Parts == {Identity, Plan, JavaScript, Pak}
Kinds == 0 .. 5

VARIABLES
  pc,             \* where the reader is
  size,           \* of the package
  table,          \* [at, count]: the variants
  index,          \* the loop over the variants
  sections,       \* [at, count]: the sections of the variant
  section,        \* the loop over them
  previous_kind,
  view,           \* out_view: the parts found, and the variant they are from
  verified,       \* the variants whose hash agreed
  touched         \* the memory used by the last step

tables == <<size, table, index, sections, section, previous_kind, view, verified>>

NoTable == [at |-> 0, count |-> 0]
NoPart == [at |-> 0, length |-> 0, variant |-> 0]
NoView == [part \in Parts |-> NoPart]

(* Memory: length units from address at on, in a region of limit units.    *)
Block(at, length, limit) == [at |-> at, length |-> length, limit |-> limit]
Blocks == [at : Word, length : Word, limit : Word]

OpenInit ==
  /\ pc = "closed"
  /\ size = 0
  /\ table = NoTable
  /\ index = 0
  /\ sections = NoTable
  /\ section = 0
  /\ previous_kind = 0
  /\ view = NoView
  /\ verified = {}
  /\ touched = {}

------------------------------------------------------------------------------
(* Machine arithmetic and the range check.                                 *)

Add(a, b) == IF a + b > WordMax THEN a + b - WordMax - 1 ELSE a + b
Mul(a, b) == (a * b) % (WordMax + 1)

AlignUp(value) ==
  IF value > WordMax - (Alignment - 1) THEN WordMax
  ELSE ((value + Alignment - 1) \div Alignment) * Alignment

FaultyRangeValid(offset, length, total) == Add(offset, length) <= total
RangeValid(offset, length, total) == offset <= total /\ length <= total - offset

(* A table of count entries starting at offset lies within total units.    *)
TableValid(offset, count, entry, total) ==
  /\ count <= WordMax \div entry
  /\ RangeValid(offset, Mul(count, entry), total)

------------------------------------------------------------------------------
(* pocketjs_package_open.                                                  *)

Refuse == pc' = "refused" /\ UNCHANGED tables

(* A descriptor: a null pointer or a package too short is refused.         *)
Open ==
  /\ pc = "closed"
  /\ \E bytes \in Sizes, given \in BOOLEAN :
       /\ size' = bytes
       /\ pc' = IF given /\ bytes >= HeaderSize + FooterSize THEN "header" ELSE "refused"
  /\ touched' = {}
  /\ UNCHANGED <<table, index, sections, section, previous_kind, view, verified>>

VariantTable(manifest_size) == AlignUp(Add(HeaderSize, manifest_size))

(* magic and version agree, and so does the footer's hash of what precedes *)
(* it; then the manifest and the table of variants must lie inside.        *)
HeaderAccepted(manifest_size, variant_count) ==
  /\ variant_count # 0
  /\ RangeValid(HeaderSize, manifest_size, size)
  /\ VariantTable(manifest_size) # WordMax
  /\ TableValid(VariantTable(manifest_size), variant_count, VariantSize, size)

ReadHeader ==
  /\ pc = "header"
  /\ touched' = {Block(0, size, size)}
  /\ \E agrees \in BOOLEAN, manifest_size \in Lengths, variant_count \in Counts :
       IF agrees /\ HeaderAccepted(manifest_size, variant_count)
       THEN /\ pc' = "variant"
            /\ table' = [at |-> VariantTable(manifest_size), count |-> variant_count]
            /\ UNCHANGED <<size, index, sections, section, previous_kind, view, verified>>
       ELSE Refuse

FaultyMoreVariants == index <= table.count
MoreVariants == index < table.count
VariantEntry == Add(table.at, Mul(index, VariantSize))

SkipVariant ==
  /\ pc = "variant" /\ MoreVariants
  /\ touched' = {Block(VariantEntry, TargetSize, size)}
  /\ index' = index + 1
  /\ UNCHANGED <<pc, size, table, sections, section, previous_kind, view, verified>>

(* The target is ours; a wrong host ABI or a bad section table ends it.    *)
EnterVariant ==
  /\ pc = "variant" /\ MoreVariants
  /\ touched' = {Block(VariantEntry, VariantSize, size)}
  /\ \E abi \in BOOLEAN, section_count \in Counts, sections_offset \in Offsets :
       IF /\ abi /\ section_count # 0
          /\ TableValid(sections_offset, section_count, SectionSize, size)
       THEN /\ pc' = "section"
            /\ sections' = [at |-> sections_offset, count |-> section_count]
            /\ UNCHANGED <<size, table, index, section, previous_kind, view, verified>>
       ELSE Refuse

NoVariant ==
  /\ pc = "variant" /\ ~MoreVariants
  /\ touched' = {}
  /\ Refuse

SectionEntry == Add(sections.at, Mul(section, SectionSize))
PayloadEnd == size - FooterSize

SectionAccepted(kind, offset, length) ==
  /\ kind # 0
  /\ section # 0 => kind > previous_kind
  /\ RangeValid(offset, length, PayloadEnd)

(* The payload is hashed and noted in the view.                            *)
ReadSection ==
  /\ pc = "section" /\ section < sections.count
  /\ \E kind \in Kinds, offset \in Offsets, length \in Lengths :
       IF SectionAccepted(kind, offset, length)
       THEN /\ touched' = {Block(SectionEntry, SectionSize, size), Block(offset, length, size)}
            /\ section' = section + 1
            /\ previous_kind' = kind
            /\ view' = IF kind \notin Parts THEN view
                       ELSE [view EXCEPT ![kind] =
                               [at |-> offset, length |-> length, variant |-> index + 1]]
            /\ UNCHANGED <<pc, size, table, index, sections, verified>>
       ELSE touched' = {Block(SectionEntry, SectionSize, size)} /\ Refuse

(* The variant's hash does not agree: the package is refused, whatever     *)
(* other variants it has.                                                  *)
FaultyHashMismatch ==
  /\ pc' = "variant" /\ index' = index + 1
  /\ section' = 0 /\ previous_kind' = 0
  /\ UNCHANGED <<size, table, sections, view, verified>>
HashMismatch == Refuse

EndVariant ==
  /\ pc = "section" /\ section = sections.count
  /\ touched' = {}
  /\ \/ /\ pc' = "found"
        /\ verified' = verified \cup {index + 1}
        /\ UNCHANGED <<size, table, index, sections, section, previous_kind, view>>
     \/ HashMismatch

(* The parts an application needs are there.  A script of a single byte is *)
(* refused as well; whole units do not tell it from an empty one.          *)
Complete ==
  /\ view[Plan].length # 0
  /\ view[JavaScript].length # 0
  /\ view[Pak].length # 0

(* The script has to end in NUL.                                           *)
Accept ==
  /\ pc = "found"
  /\ IF Complete
     THEN /\ touched' = {Block(view[JavaScript].at + view[JavaScript].length - 1, 1, size)}
          /\ \/ pc' = "opened" /\ UNCHANGED tables
             \/ Refuse
     ELSE touched' = {} /\ Refuse

OpenNext == Open \/ ReadHeader \/ SkipVariant \/ EnterVariant \/ NoVariant
            \/ ReadSection \/ EndVariant \/ Accept

------------------------------------------------------------------------------
(* Properties.                                                             *)

(* Whatever a package says, all memory used for it lies inside it (inside  *)
(* its PAK, for what the PAK's directory names), in true arithmetic: no    *)
(* sum or product that wrapped has slipped through a check.                *)
ReadsInside == \A block \in touched : block.at + block.length <= block.limit

(* An opened package is one whole variant: the parts the application needs *)
(* all come from the variant whose hash agreed, none from one that was     *)
(* skipped or given up.                                                    *)
OneVariant ==
  pc = "opened" =>
    /\ Complete
    /\ \A part \in Parts : view[part] # NoPart => view[part].variant \in verified
    /\ \A p, q \in Parts :
         view[p] # NoPart /\ view[q] # NoPart => view[p].variant = view[q].variant
=============================================================================
