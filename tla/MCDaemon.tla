------------------------------ MODULE MCDaemon ------------------------------
(* Instances of Daemon for TLC: the shipped files in small, and the cases  *)
(* around them.                                                            *)
EXTENDS Daemon

MCRank == [n \in {"CoA-ACK", "CoA-Request", "Info", "Packet-Type", "User-Name", "EAP"} |->
             CASE n = "CoA-ACK" -> 1 [] n = "CoA-Request" -> 2 [] n = "EAP" -> 3
               [] n = "Info" -> 4 [] n = "Packet-Type" -> 5 [] OTHER -> 6]

Attr(name, num, vendor) ==
  [kw |-> "ATTRIBUTE", name |-> name, num |-> num, type |-> "string", vendor |-> vendor]
Val(value, num) == [kw |-> "VALUE", name |-> "Packet-Type", value |-> value, num |-> num]
Ven(name, num)  == [kw |-> "VENDOR", name |-> name, num |-> num]
Begin(name)     == [kw |-> "BEGIN-VENDOR", name |-> name]
End             == [kw |-> "END-VENDOR", name |-> "Cisco"]
Inc(file)       == [kw |-> "$INCLUDE", name |-> file]
Comment         == [kw |-> "", name |-> ""]

(* The shipped dictionary over a small freeradius dictionary.              *)
Shipped(freeradius) ==
  [root |-> <<Inc("freeradius"), Val("CoA-Request", 43), Val("CoA-ACK", 44), Begin("Cisco"),
              Attr("Info", 250, NoVendor), End>>] @@ freeradius

Freeradius == [freeradius |->
  <<Comment, Attr("User-Name", 1, NoVendor), Attr("Packet-Type", 23, NoVendor), Inc("cisco")>>]

CiscoFile == [cisco |-> <<Ven("Cisco", 9), Begin("Cisco"), Attr("Info", 250, NoVendor), End>>]
CiscoOpen == [cisco |-> <<Ven("Cisco", 9), Begin("Cisco"), Attr("Info", 250, NoVendor)>>]
Inline    == [freeradius |-> <<Begin("Cisco"), Inc("cisco"), Attr("EAP", 30, NoVendor), End,
                               Attr("User-Name", 1, NoVendor)>>]

Dictionaries ==
  { Shipped(Freeradius @@ CiscoFile),      \* as shipped
    Shipped(Freeradius @@ CiscoOpen),      \* a block that the included file leaves open
    Shipped(Freeradius),                   \* a file that is missing
    Shipped(<< >>),                        \* no freeradius: VALUE before ATTRIBUTE
    Shipped(Inline @@ [cisco |-> <<Attr("Info", 1, "Cisco"), Attr("User-Name", 33, NoVendor)>>]),
    [other |-> << >>],                     \* no dictionary at all
    Shipped([freeradius |-> <<Inc(NoFile)>>]),  \* $INCLUDE without a name
    [root |-> <<Attr("EAP", 35, NoVendor), Attr("Info", 3, "Cisco"), Val("CoA-ACK", 44),
                Attr("Packet-Type", 5, NoVendor), Attr("EAP", 4, NoVendor)>>] }

Section(name) == [kind |-> "section", key |-> <<name>>, newline |-> TRUE]
Written(key, value, short, newline) ==
  [kind |-> "entry", key |-> key, value |-> value, short |-> short, blanks |-> TRUE,
   newline |-> newline]
Entry(key, value, short, newline) == Written(<<key>>, value, short, newline)
Skip == [kind |-> "comment", newline |-> TRUE]

Main(lines) == <<Skip, Section("MAIN")>> \o lines
Configs ==
  { << >>,                                                           \* missing or empty
    Main(<<Entry("debug", NoValue, FALSE, TRUE)>>),                  \* "debug" alone
    Main(<<Entry("logfile", "l", TRUE, TRUE), Entry("userid", "u", TRUE, TRUE)>>),
    Main(<<Entry("logfile", "log", FALSE, FALSE)>>),                 \* no newline at the end
    <<Written(<<"MAIN", "debug">>, "true", FALSE, TRUE), Skip>>,     \* the colon in the key
    <<Written(<<"MAIN", "userid">>, "a", TRUE, TRUE), Section("MAIN"),
      Entry("userid", "b", TRUE, TRUE)>>,                            \* one key, two spellings
    <<Entry("debug", "true", FALSE, TRUE), Section("MAIN"), Entry("debug", "true", FALSE, TRUE),
      Entry("debug", "false", FALSE, TRUE), Section("ORACLE"), Entry("logfile", "x", TRUE, TRUE),
      Section("MAIN"), Entry("logfile", "log", FALSE, TRUE)>> }

MCInstallations ==
  [listing : {Shipped(Freeradius @@ CiscoFile)}, conf : Configs]
    \cup [listing : Dictionaries, conf : {Main(<<Entry("debug", NoValue, FALSE, TRUE)>>)}]

MCSymmetry == Permutations(Threads) \cup Permutations(Handlers)
=============================================================================
