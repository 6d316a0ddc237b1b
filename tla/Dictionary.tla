----------------------------- MODULE Dictionary -----------------------------
(***************************************************************************)
(* The RADIUS dictionary (class RadiusDictionary) as a value: what a line  *)
(* of a dictionary file adds to it, and what the lookups find in it.       *)
(*                                                                         *)
(* A line is the record of its fields: "kw" is the keyword, "name" the     *)
(* second field, the numbers are numbers.  A line with too few fields is   *)
(* skipped like one with an unknown keyword, but for $INCLUDE: there the   *)
(* name is taken without a test, and its absence is NoFile.                *)
(***************************************************************************)
EXTENDS Naturals, Sequences, FiniteSets, TLC, StdMap

CONSTANTS
  Rank,       \* alphabetical rank of every name, the order of std::map
  OctetSize   \* 256: an attribute's number is kept in an unsigned char

NoVendor == ""
NoType   == ""
NoFile   == ""

EmptyDictionary == [attrs |-> << >>, vendors |-> << >>]

First(S) == CHOOSE n \in S : \A m \in S : Rank[n] <= Rank[m]

-----------------------------------------------------------------------------
(* What the lines add.                                                     *)

(* The vendor in effect, unless the line has a fifth field.                *)
VendorOf(line, current) == IF line.vendor # NoVendor THEN line.vendor ELSE current

(* The faulty variant keeps the number whole.                              *)
WholeId(n) == n

KeptId(n) == n % OctetSize

(* attrs.insert keeps an entry that is there; the faulty variant assigns.  *)
AssignAttribute(d, line, current) ==
  [d EXCEPT !.attrs = Put(@, line.name,
     [id |-> KeptId(line.num), type |-> line.type,
      vendor |-> VendorOf(line, current), values |-> << >>])]

AddAttribute(d, line, current) ==
  IF line.name \in DOMAIN d.attrs THEN d ELSE AssignAttribute(d, line, current)

(* attrs[name].values[value]: operator[] makes an empty attribute if there *)
(* is none.                                                                *)
AddValue(d, line) ==
  LET a == IF line.name \in DOMAIN d.attrs THEN d.attrs[line.name]
           ELSE [id |-> 0, type |-> NoType, vendor |-> NoVendor, values |-> << >>]
  IN  [d EXCEPT !.attrs =
         Put(@, line.name, [a EXCEPT !.values = Put(@, line.value, line.num)])]

AddVendor(d, line) == [d EXCEPT !.vendors = Put(@, line.name, line.num)]

Added(d, line, current) ==
  CASE line.kw = "ATTRIBUTE" -> AddAttribute(d, line, current)
    [] line.kw = "VALUE"     -> AddValue(d, line)
    [] line.kw = "VENDOR"    -> AddVendor(d, line)
    [] OTHER                 -> d

NextVendor(line, current) ==
  CASE line.kw = "BEGIN-VENDOR" -> line.name
    [] line.kw = "END-VENDOR"   -> NoVendor
    [] OTHER                    -> current

-----------------------------------------------------------------------------
(* The lookups.  Each is guarded by the predicate whose negation makes the *)
(* code throw.                                                             *)

HasAttribute(d, name) == name \in DOMAIN d.attrs

GetAttribute(d, name) == d.attrs[name]  \* getAttribute ignores the vendor

HasValue(d, name, value) == HasAttribute(d, name) /\ value \in DOMAIN d.attrs[name].values

GetValue(d, name, value) == d.attrs[name].values[value]

ValueStrings(d, name, n) ==
  IF HasAttribute(d, name)
  THEN {v \in DOMAIN d.attrs[name].values : d.attrs[name].values[v] = n} ELSE {}

AttributeStrings(d, id, vendor) ==
  {a \in DOMAIN d.attrs : d.attrs[a].vendor = vendor /\ d.attrs[a].id = id}

VendorStrings(d, n) == {v \in DOMAIN d.vendors : d.vendors[v] = n}
=============================================================================
