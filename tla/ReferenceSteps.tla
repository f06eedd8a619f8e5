--------------------------- MODULE ReferenceSteps ---------------------------
(***************************************************************************)
(* The steps the Python reference generators are made of                    *)
(* (src/tools/python-reference/generate_*.py).  A generator is a            *)
(* straight-line program: it loads files, compares what it loaded or what   *)
(* the file says now with a value pinned in its source, runs the loaded     *)
(* code, compares the facts it recorded, and writes one oracle.  Each step  *)
(* is a record; a program is a sequence of steps.                           *)
(*                                                                          *)
(* The bytes a step reads belong to a unit:                                 *)
(*   "target"       the upstream source whose symbols the oracle is about   *)
(*   "rest"         every other upstream source the target imports          *)
(*   "packages"     the third-party packages beside it                      *)
(*   "interpreter"  the Python that runs the generator                      *)
(*   "inventory"    upstream's public-symbol inventory                      *)
(*   "idd"          the EnergyPlus IDD and its epJSON schema                *)
(*   "reviewed"     the C# sources a native review names                    *)
(*   "fixture"      an oracle of a sibling, in the baseline                 *)
(* and a sibling generator loaded for its helpers is a unit of its own,     *)
(* named after it.  Place "root" is the checkout, "copy" the private copy   *)
(* some generators make of the sources and import from.                     *)
(***************************************************************************)
EXTENDS Sequences, SequencesExt

(***************************************************************************)
(* What may stand in a file, as far as any check can tell.  A comment       *)
(* changes the bytes only.  A quirk changes what the code does and passes   *)
(* the checks written in the generator's own code; a leak puts the address  *)
(* of an object among the facts; a change is one those checks refuse.       *)
(* An inventory may be laid out anew, be edited without its declared        *)
(* hash, be generated anew, or say something else of the target's symbols.  *)
(* Of what is installed, the packages and the interpreter, the checks see   *)
(* the version it declares, which a quirk in its files leaves as it is.     *)
(***************************************************************************)
CodeVersions == {"pinned", "comment", "quirk", "leaky", "changed"}
InventoryVersions == {"pinned", "reformatted", "edited", "regenerated", "retargeted"}
PlainVersions == {"pinned", "other"}
Installed == {"packages", "interpreter"}
SameVersion == {"pinned", "quirk"}

VersionsOf(unit) ==
  CASE unit = "inventory" -> InventoryVersions
    [] unit \in Installed -> SameVersion \cup {"other"}
    [] unit \in {"idd", "reviewed", "fixture"} -> PlainVersions
    [] OTHER -> CodeVersions

\* What the bytes of a version make the program that loaded them do.
Behaviour(version) == IF version = "comment" THEN "pinned" ELSE version

(***************************************************************************)
(* Loading.  A later load replaces what the process holds; UseToo keeps     *)
(* both, as two copies of one module under two names do.                    *)
(***************************************************************************)
Use(place, unit) == <<[op |-> "use", place |-> place, unit |-> unit]>>
UseToo(place, unit) == <<[op |-> "use too", place |-> place, unit |-> unit]>>
Copy(place, unit) == <<[op |-> "copy", place |-> place, unit |-> unit]>>

CopyTree(place) == Copy(place, "target") \o Copy(place, "rest")
ImportTree(place) == Use(place, "target") \o Use(place, "rest") \o Use("root", "packages")
ImportFile(place) == Use(place, "target")

\* The bytes are parsed for one glance at the rows and dropped again.
ReadRows == <<[op |-> "glance", place |-> "root", unit |-> "inventory"]>>
ParseInventory == Use("root", "inventory")

(***************************************************************************)
(* Comparing: the file as it is now, or what the process loaded earlier.    *)
(***************************************************************************)
Expect(place, unit, versions) ==
  <<[op |-> "expect", place |-> place, unit |-> unit, versions |-> versions]>>
Held(unit, versions) == <<[op |-> "held", unit |-> unit, versions |-> versions]>>

Pinned(place, unit) == Expect(place, unit, {"pinned"})
PinnedTree(place) == Pinned(place, "target") \o Pinned(place, "rest")
UsePinned(place, unit) == Use(place, unit) \o Held(unit, {"pinned"})

HashInventory == Pinned("root", "inventory")
SameContent == Held("inventory", {"pinned", "reformatted"})
DeclaresPin == Held("inventory", InventoryVersions \ {"regenerated"})
RowsPinned == Held("inventory", InventoryVersions \ {"retargeted"})

\* The version each package's metadata declares now, and the running Python's.
PackagesChecked == Expect("root", "packages", SameVersion)
InterpreterChecked == Held("interpreter", SameVersion)

\* Attributes, class relations and signatures of the loaded target.
Probe == Held("target", CodeVersions \ {"changed"})
SameSignatures == Probe

(***************************************************************************)
(* A sibling generator, loaded by path.  It may be asked only for the       *)
(* values of some constants it declares (which a quirk leaves alone), be    *)
(* hashed before it is loaded, or be hashed once it has run.                *)
(***************************************************************************)
SiblingByConstants(sibling, nested) ==
  Use("root", sibling) \o nested \o Held(sibling, CodeVersions \ {"changed"})
SiblingHashedFirst(sibling, nested) ==
  Pinned("root", sibling) \o Use("root", sibling) \o nested
SiblingHashedAfter(sibling, nested) ==
  Use("root", sibling) \o nested \o Pinned("root", sibling)

(***************************************************************************)
(* Facts.  An observation records the behaviour of the units it ran, which  *)
(* run in the interpreter, and with the packages where the sources import   *)
(* them.  The facts of the first place may be compared with pinned values   *)
(* or digests, with what the generator's code says of them, or with those   *)
(* of the copy, and be searched for addresses.                              *)
(***************************************************************************)
Observe(slot, units) ==
  LET beneath == {"interpreter"} \cup IF "rest" \in units THEN {"packages"} ELSE {} IN
  <<[op |-> "observe", slot |-> slot, units |-> units \cup beneath]>>
Facts(behaviours) == <<[op |-> "facts", behaviours |-> behaviours]>>

Semantics == Facts((CodeVersions \cup InventoryVersions \cup PlainVersions) \ {"changed"})
FactsPinned == Facts({"pinned"})
PortableFacts == Facts((CodeVersions \cup InventoryVersions \cup PlainVersions) \ {"leaky"})
Alike == <<[op |-> "alike"]>>

\* The sibling's oracle in the baseline is the one that was reviewed.
Fixture(sibling) == <<[op |-> "fixture", of |-> sibling]>>

(***************************************************************************)
(* The oracle: the file is created, then filled; some generators read it    *)
(* back.                                                                    *)
(***************************************************************************)
Write == <<[op |-> "tear"], [op |-> "fill"]>>
Reread == <<[op |-> "reread"]>>

(***************************************************************************)
(* The steps of a program that can depend on one unit, or end in a file.    *)
(***************************************************************************)
TouchesUnit(step, unit) ==
  CASE step.op \in {"use", "use too", "copy", "glance", "expect", "held"} -> step.unit = unit
    [] step.op = "observe" -> unit \in step.units
    [] OTHER -> TRUE

StepsOn(program, unit) == SelectSeq(program, LAMBDA step : TouchesUnit(step, unit))
==============================================================================
