--------------------------- MODULE Configuration ---------------------------
(***************************************************************************)
(* The configuration file (class Configuration) as a value.  A line is the *)
(* record of what the scanner of load() tells apart: its kind, a key, a    *)
(* value or NoValue, whether the value is a single character and whether   *)
(* blanks follow it, and whether the line ends with a newline.             *)
(*                                                                         *)
(* A name may have colons in it.  It is the sequence of the parts between  *)
(* them, so that to put a colon between two names is to join sequences;    *)
(* the empty section, which adds no colon, is the empty sequence.          *)
(***************************************************************************)
EXTENDS Sequences, StdMap

NoValue   == ""
NoSection == << >>

EmptyConfiguration == << >>

(* getline(...).good() is false for a last line that ends with the file:   *)
(* it is read, and dropped.                                                *)
Good(line) == line.newline

(* The value without the blanks around it; those that follow a value of    *)
(* one character stay, since value_end <= value_beg.                       *)
ValueOf(line) ==
  IF line.value = NoValue THEN [text |-> "true", blanks |-> FALSE]
  ELSE [text |-> line.value, blanks |-> line.short /\ line.blanks]

NextSection(line, section) == IF line.kind = "section" THEN line.key ELSE section

(* section + ":" + key: a line "MAIN:debug" in no section and a line       *)
(* "debug" in [MAIN] are about one key.                                    *)
FullKey(section, key) == section \o key

(* __data[key] = value.  The faulty variant inserts, as the dictionary     *)
(* does, and keeps the value of an earlier line.                           *)
Inserted(data, line, section) ==
  IF line.kind = "entry" /\ FullKey(section, line.key) \notin DOMAIN data
  THEN Put(data, FullKey(section, line.key), ValueOf(line)) ELSE data

Entered(data, line, section) ==
  IF line.kind = "entry" THEN Put(data, FullKey(section, line.key), ValueOf(line)) ELSE data

(* get(): an unknown key is entered with the empty string, NoValue.        *)
Get(data, key) ==
  IF key \in DOMAIN data THEN data[key] ELSE [text |-> NoValue, blanks |-> FALSE]
=============================================================================
