------------------------------ MODULE PackageLoad ------------------------------
(***************************************************************************)
(* What becomes of an opened package (src/pocketjs_package.c and           *)
(* pocketjs_install_ui in src/pocketjs_runtime.c): its plan is validated,  *)
(* the assets of its PAK go to the Core, and the application finds them as *)
(* properties of ui.  Every step can fail, and the JavaScript values held  *)
(* at that point have to be released.  QuickJS, the Core's loaders and the *)
(* hash are external: they succeed or fail.                                *)
(*                                                                         *)
(* Steps without a branch between them are one action; what they take and  *)
(* release among themselves does not show.                                 *)
(***************************************************************************)
EXTENDS PackageTables, Integers

PakHeaderSize == 8
PakEntrySize == 6

(* The values C code holds a reference to, across a step that may fail.    *)
Values == {"plan", "canonicalizer", "hash_result", "target", "target_id", "global", "ui",
           "textures", "sprites", "metadata", "pak_buffer"}
Properties == {"__textures", "__sprites", "__pak", "ui"}

VARIABLES
  held,          \* how many references C code has to each value
  directory,     \* [at, count, names]: the PAK's directory
  entry,         \* the loop over its entries
  loaded,        \* the entries the Core took
  published      \* the properties set

assets == <<directory, entry, loaded, published>>
vars == <<pc, tables, touched, held, assets>>

NoDirectory == [at |-> 0, count |-> 0, names |-> 0]
NothingHeld == [value \in Values |-> 0]

Init ==
  /\ OpenInit
  /\ held = NothingHeld
  /\ directory = NoDirectory
  /\ entry = 0
  /\ loaded = {}
  /\ published = {}

(* References taken and released.                                          *)
Counted(values, value) == IF value \in values THEN 1 ELSE 0
Hold(taken, released) ==
  held' = [value \in Values |-> held[value] + Counted(taken, value) - Counted(released, value)]

Goto(from, to) == pc = from /\ pc' = to
Untouched == touched' = {} /\ UNCHANGED tables

Opening == OpenNext /\ UNCHANGED <<held, assets>>

------------------------------------------------------------------------------
(* pocketjs_package_validate_plan, with validate_plan_hash.                *)

ParsePlan ==
  /\ touched' = {Block(view[Plan].at, view[Plan].length, size)}
  /\ \/ Goto("opened", "hash") /\ Hold({"plan"}, {})
     \/ Goto("opened", "refused") /\ Hold({}, {})
  /\ UNCHANGED <<tables, assets>>

EvaluateCanonicalizer ==
  /\ \/ Goto("hash", "canonicalize") /\ Hold({"canonicalizer"}, {})
     \/ Goto("hash", "cleanup_plan") /\ Hold({}, {})
  /\ Untouched /\ UNCHANGED assets

(* The call takes a copy of the plan and gives it back.                    *)
FaultyCanonicalize ==
  /\ \/ Goto("canonicalize", "compare") /\ Hold({"hash_result"}, {"canonicalizer"})
     \/ Goto("canonicalize", "cleanup_plan") /\ Hold({}, {})
  /\ Untouched /\ UNCHANGED assets
Canonicalize ==
  /\ \/ Goto("canonicalize", "compare") /\ Hold({"hash_result"}, {"canonicalizer"})
     \/ Goto("canonicalize", "cleanup_plan") /\ Hold({}, {"canonicalizer"})
  /\ Untouched /\ UNCHANGED assets

(* The digests agree, or not; a digest that cannot be computed does not.   *)
CompareDigests ==
  /\ Goto("compare", "target") \/ Goto("compare", "cleanup_plan")
  /\ Hold({}, {"hash_result"})
  /\ Untouched /\ UNCHANGED assets

CompareTarget ==
  /\ Goto("target", "viewport") \/ Goto("target", "cleanup_target")
  /\ Hold({"target", "target_id"}, {})
  /\ Untouched /\ UNCHANGED assets

CompareViewport ==
  /\ \/ Goto("viewport", "ui") /\ Hold({}, {"target_id", "target", "plan"})
     \/ Goto("viewport", "cleanup_target") /\ Hold({}, {})
  /\ Untouched /\ UNCHANGED assets

CleanupTarget ==
  /\ Goto("cleanup_target", "cleanup_plan")
  /\ Hold({}, {"target_id", "target"})
  /\ Untouched /\ UNCHANGED assets

CleanupPlan ==
  /\ Goto("cleanup_plan", "refused")
  /\ Hold({}, {"plan"})
  /\ Untouched /\ UNCHANGED assets

------------------------------------------------------------------------------
(* pocketjs_install_ui: the ui object.                                     *)

(* Of the two objects the one that could be made is released.              *)
CreateUi ==
  /\ \/ Goto("ui", "functions") /\ Hold({"global", "ui"}, {})
     \/ Goto("ui", "refused") /\ Hold({}, {})
  /\ Untouched /\ UNCHANGED assets

(* Host functions, viewport and identification become properties of ui;    *)
(* one that cannot be set leaves an exception behind.                      *)
SetFunctions ==
  /\ Goto("functions", "pak") \/ Goto("functions", "cleanup_ui")
  /\ Hold({}, {})
  /\ Untouched /\ UNCHANGED assets

CleanupUi ==
  /\ Goto("cleanup_ui", "refused")
  /\ Hold({}, {"ui", "global"})
  /\ Untouched /\ UNCHANGED assets

------------------------------------------------------------------------------
(* pocketjs_package_install_assets.                                        *)

PakSize == view[Pak].length

(* magic, version and the declared size agree.                             *)
PakAccepted(directory_offset, count) ==
  PakSize >= PakHeaderSize /\ TableValid(directory_offset, count, PakEntrySize, PakSize)

ReadPakHeader ==
  /\ pc = "pak"
  /\ touched' = IF PakSize < PakHeaderSize THEN {} ELSE {Block(0, PakHeaderSize, PakSize)}
  /\ \E agrees \in BOOLEAN, at \in Offsets, count \in Counts, names \in Offsets :
       IF agrees /\ PakAccepted(at, count)
       THEN /\ pc' = "entries"
            /\ directory' = [at |-> at, count |-> count, names |-> names]
            /\ Hold({"textures", "sprites"}, {})
       ELSE pc' = "cleanup_ui" /\ UNCHANGED <<directory, held>>
  /\ UNCHANGED <<tables, entry, loaded, published>>

TexturesMissing ==
  /\ Goto("pak", "cleanup_ui")
  /\ Hold({}, {})
  /\ touched' = {}
  /\ UNCHANGED <<tables, assets>>

DirectoryEntry == Add(directory.at, Mul(entry, PakEntrySize))
NameAt(name_offset) == Add(directory.names, name_offset)

EntryAccepted(blob_offset, blob_size, name_offset, name_size) ==
  /\ RangeValid(blob_offset, blob_size, PakSize)
  /\ RangeValid(NameAt(name_offset), name_size, PakSize)

(* An entry is a resource (styles or a font), an image, a sprite or, by    *)
(* its name, none of these; the header before the pixels in units.         *)
BlobHeader == [resource |-> 0, image |-> 2, sprite |-> 4, other |-> 0]
Pixels(kind, blob_offset, blob_size) ==
  Block(Add(blob_offset, BlobHeader[kind]), blob_size - BlobHeader[kind], PakSize)

Taken ==
  /\ entry' = entry + 1
  /\ loaded' = loaded \cup {entry}
FaultyBroken == pc' = "publish" /\ UNCHANGED <<entry, loaded>>
Broken == pc' = "cleanup_assets" /\ UNCHANGED <<entry, loaded>>

(* The Core takes the blob or not; the handle of an image becomes a        *)
(* property of textures, a sprite gets an object for its metadata.         *)
LoadEntry ==
  /\ pc = "entries" /\ entry < directory.count
  /\ \E kind \in DOMAIN BlobHeader, blob_offset \in Offsets, blob_size \in Lengths,
        name_offset \in Offsets, name_size \in Lengths :
       IF EntryAccepted(blob_offset, blob_size, name_offset, name_size)
       THEN IF blob_size < BlobHeader[kind]
            THEN /\ touched' = {Block(DirectoryEntry, PakEntrySize, PakSize),
                                Block(NameAt(name_offset), name_size, PakSize)}
                 /\ Broken /\ Hold({}, {})
            ELSE /\ touched' = {Block(DirectoryEntry, PakEntrySize, PakSize),
                                Block(NameAt(name_offset), name_size, PakSize),
                                Block(blob_offset, BlobHeader[kind], PakSize),
                                Pixels(kind, blob_offset, blob_size)}
                 /\ \/ kind # "other" /\ Broken /\ Hold({}, {})
                    \/ kind = "sprite" /\ pc' = "metadata" /\ Hold({"metadata"}, {})
                       /\ UNCHANGED <<entry, loaded>>
                    \/ kind # "sprite" /\ Taken /\ Hold({}, {}) /\ UNCHANGED pc
       ELSE /\ touched' = {Block(DirectoryEntry, PakEntrySize, PakSize)}
            /\ Broken /\ Hold({}, {})
  /\ UNCHANGED <<tables, directory, published>>

(* Setting a property hands the value over, also when it fails; metadata   *)
(* that was not filled is released.                                        *)
SetMetadata ==
  /\ pc = "metadata"
  /\ \/ pc' = "entries" /\ Taken
     \/ Broken
  /\ Hold({}, {"metadata"})
  /\ Untouched /\ UNCHANGED <<directory, published>>

EndEntries ==
  /\ Goto("entries", "publish")
  /\ entry = directory.count
  /\ Hold({}, {})
  /\ Untouched /\ UNCHANGED assets

(* Both properties are tried.                                              *)
PublishAssets ==
  /\ pc = "publish"
  /\ Hold({}, {"textures", "sprites"})
  /\ \E set \in SUBSET {"__textures", "__sprites"} :
       /\ published' = published \cup set
       /\ pc' = IF set = {"__textures", "__sprites"} THEN "buffer" ELSE "cleanup_ui"
  /\ Untouched /\ UNCHANGED <<directory, entry, loaded>>

CleanupAssets ==
  /\ Goto("cleanup_assets", "cleanup_ui")
  /\ Hold({}, {"sprites", "textures"})
  /\ Untouched /\ UNCHANGED assets

------------------------------------------------------------------------------
(* pocketjs_install_ui: __pak and ui.                                      *)

CreateBuffer ==
  /\ \/ /\ Goto("buffer", "globals") /\ Hold({"pak_buffer"}, {})
        /\ touched' = {Block(view[Pak].at, PakSize, size)}
     \/ Goto("buffer", "cleanup_ui") /\ Hold({}, {}) /\ touched' = {}
  /\ UNCHANGED <<tables, assets>>

PublishGlobals ==
  /\ pc = "globals"
  /\ \E set \in SUBSET {"__pak", "ui"} :
       /\ published' = published \cup set
       /\ pc' = IF set = {"__pak", "ui"} THEN "ready" ELSE "refused"
  /\ Hold({}, {"pak_buffer", "ui", "global"})
  /\ Untouched /\ UNCHANGED <<directory, entry, loaded>>

(* The runtime is destroyed, and its context with what was published; the  *)
(* next create opens a package afresh.                                     *)
Close ==
  /\ Goto("ready", "closed") \/ Goto("refused", "closed")
  /\ size' = 0
  /\ table' = NoTable /\ index' = 0
  /\ sections' = NoTable /\ section' = 0 /\ previous_kind' = 0
  /\ view' = NoView /\ verified' = {} /\ touched' = {}
  /\ directory' = NoDirectory /\ entry' = 0 /\ loaded' = {} /\ published' = {}
  /\ UNCHANGED held

ValidatePlan == ParsePlan \/ EvaluateCanonicalizer \/ Canonicalize \/ CompareDigests
                \/ CompareTarget \/ CompareViewport \/ CleanupTarget \/ CleanupPlan
InstallAssets == ReadPakHeader \/ TexturesMissing \/ LoadEntry \/ SetMetadata \/ EndEntries
                 \/ PublishAssets \/ CleanupAssets
InstallUi == CreateUi \/ SetFunctions \/ CleanupUi \/ InstallAssets
             \/ CreateBuffer \/ PublishGlobals

Next == Opening \/ ValidatePlan \/ InstallUi \/ Close

Spec == Init /\ [][Next]_vars

------------------------------------------------------------------------------
(* Properties.                                                             *)

OpenPcs == {"closed", "header", "variant", "section", "found", "opened", "refused"}
LoadPcs == {"hash", "canonicalize", "compare", "target", "viewport", "cleanup_target",
            "cleanup_plan", "ui", "functions", "cleanup_ui", "pak", "entries", "metadata",
            "publish", "cleanup_assets", "buffer", "globals", "ready"}

(* Types of the state; loops stay within their tables.                     *)
TypeOK ==
  /\ pc \in OpenPcs \cup LoadPcs
  /\ size \in Word
  /\ table \in [at : Word, count : Word]
  /\ index \in 0 .. table.count
  /\ sections \in [at : Word, count : Word]
  /\ section \in 0 .. sections.count
  /\ previous_kind \in Kinds
  /\ view \in [Parts -> [at : Word, length : Word, variant : Nat]]
  /\ verified \subseteq Nat
  /\ touched \subseteq Blocks
  /\ held \in [Values -> Int]
  /\ directory \in [at : Word, count : Word, names : Word]
  /\ entry \in 0 .. directory.count
  /\ loaded \subseteq Nat
  /\ published \subseteq Properties

(* No reference is leaked or released twice on any path: no value is ever  *)
(* held twice or released without being held, and none is left when the    *)
(* package is refused, at whatever step, or the application starts.        *)
ReleasedOnce ==
  \A value \in Values :
    /\ held[value] \in {0, 1}
    /\ pc \in {"closed", "refused", "ready"} => held[value] = 0

(* An application that is started finds every asset of its PAK: all the    *)
(* entries were taken, and all properties set.                             *)
AssetsComplete ==
  pc = "ready" =>
    /\ loaded = 0 .. directory.count - 1
    /\ published = Properties
=============================================================================
