---------------------------- MODULE MCCoACommand ----------------------------
(* Instances of CoACommand for TLC: five bits to an octet, two octets to a *)
(* word, three to a digest.                                                *)
EXTENDS CoACommand

MCSecret  == <<28>>
MCServer  == <<6>>
MCRandoms == {<<0, 31, 17>>, <<1, 2, 3>>}

Names == <<"Acct-Session-Id", "Cisco-Account-Info", "Cisco-Command-Code",
           "Cisco-Subscriber-Password", "CoA-ACK", "CoA-NAK", "CoA-Request", "EAP-Type-SIM",
           "Framed-Address", "Framed-IP-Address", "NAS-Port", "NAS-Port-Id", "Other",
           "Packet-Type", "User-Name", "Cisco", "Timestamp">>
MCRank == [n \in Range(Names) |-> CHOOSE k \in DOMAIN Names : Names[k] = n]

Bits == 5

MCXor(a, b) ==
  FoldLeft(LAMBDA n, k : n + ((a \div 2 ^ k + b \div 2 ^ k) % 2) * 2 ^ k, 0,
           [k \in 1..Bits |-> k - 1])

(* Some function of all octets and their places.                           *)
MCMd5(text) ==
  LET sum[n \in 0..Len(text)] == IF n = 0 THEN 5 ELSE (3 * sum[n - 1] + text[n]) % OctetSize
  IN  [k \in 1..BlockSize |-> (k * sum[Len(text)] + k) % OctetSize]

S      == LetterS
BigI   == LetterBigI
SmallI == LetterI

Attr(id, type, vendor) == [id |-> id, type |-> type, vendor |-> vendor, values |-> << >>]

Codes == [Attr(23, "integer", "") EXCEPT
            !.values = ("CoA-Request" :> 11) @@ ("CoA-ACK" :> 12) @@ ("CoA-NAK" :> 13)]

Full ==
  [attrs |-> ("User-Name" :> Attr(1, "string", "")) @@ ("Acct-Session-Id" :> Attr(12, "string", ""))
       @@ ("Framed-IP-Address" :> Attr(8, "ipaddr", "")) @@ ("NAS-Port" :> Attr(5, "integer", ""))
       @@ ("NAS-Port-Id" :> Attr(15, "string", "")) @@ ("Packet-Type" :> Codes)
       @@ ("Timestamp" :> Attr(7, "date", ""))
       @@ ("Cisco-Account-Info" :> Attr(25, "string", "Cisco"))
       @@ ("Cisco-Command-Code" :> Attr(24, "string", "Cisco"))
       @@ ("Cisco-Subscriber-Password" :> Attr(22, "string", "Cisco")),
   vendors |-> ("Cisco" :> 9) @@ ("Other" :> 7)]

WithAlias == [Full EXCEPT !.attrs = ("Framed-Address" :> Attr(8, "ipaddr", ""))
                                      @@ ("EAP-Type-SIM" :> Attr(30, "string", "")) @@ @]
NoVendors == [Full EXCEPT !.vendors = << >>]
OtherType == [Full EXCEPT !.attrs["Acct-Session-Id"].type = "abinary"]

Cmd(name, letter, nas, id, service) ==
  [command |-> name, letter |-> letter, nas |-> nas, id |-> id, service |-> service,
   login |-> <<16>>, password |-> <<17, 31>>]

Ping == Cmd("isg_ping", <<S>>, <<7, 8>>, <<4, 2>>, << >>)

(* Services that just fit and just do not; keys with every letter, with    *)
(* and without a NAS; passwords of zero to six octets.                     *)
MCCommands ==
  {Cmd(c, letter, nas, <<4, 2>>, s) :
     c \in {"isg_ping", "isg_logout", "isg_service_on", "isg_service_off"},
     letter \in {<< >>, <<S>>, <<BigI>>, <<SmallI>>}, nas \in {<< >>, <<7, 8>>},
     s \in {<<30>>, [k \in 1..22 |-> 30], [k \in 1..25 |-> 12]}}
  \cup {[Cmd("isg_logon", letter, <<7>>, <<4>>, << >>) EXCEPT !.password = [k \in 1..n |-> 29 + (k % 3)]] :
     letter \in {<< >>, <<S>>, <<BigI>>}, n \in 0..6}

MCCases ==
  [dict : {Full}, command : MCCommands, identifier : {1}]
  \cup [dict : {Full, WithAlias, NoVendors}, command : {Ping}, identifier : {0, 1, 4, 26, 31}]
  \cup {[dict |-> OtherType, command |-> [Ping EXCEPT !.letter = <<BigI>>], identifier |-> 3]}

Item(vendor, id, value) ==
  [vendor |-> vendor, id |-> id, first |-> 2 + Len(value), value |-> value]

(* A vendor specific item with a command code and an account info.         *)
Several == [Item(9, 24, <<4, 25, 3, S>>) EXCEPT !.first = 3]

MCItems ==
  {Item(0, 12, <<1>>), Item(0, 8, <<1, 2>>), Item(0, 15, <<26>>), Item(0, 30, <<26, 2>>),
   Item(0, 5, <<0, 1>>), Item(0, 7, <<1>>), Item(9, 24, <<4, 9>>), Item(9, 24, << >>),
   Item(9, 25, <<S, 26>>), Item(7, 24, <<1>>), Item(3, 24, <<1>>), Item(9, 20, <<1>>), Several}

Few == {Item(0, 15, <<1>>), Item(9, 24, <<4>>), Item(9, 25, <<S>>), Item(3, 24, <<26>>)}

(* A ping is answered with all of them, in twos and threes.  Behind the    *)
(* last reply the octets of its copy's header stand as attributes: one of  *)
(* number 26 that is as long as the identifier, and one of 1.              *)
MCReplies(c) ==
  IF c = Ping
  THEN [code : {12}, items : UNION {[1..n -> MCItems] : n \in 0..2} \cup [1..3 -> Few]]
         \cup {[code |-> 26, items |-> [k \in 1..3 |-> Item(9, 24, <<1, 1, 1, 1>>)]]}
  ELSE [code : {12, 13, 14}, items : {<< >>, <<Item(9, 24, <<2>>)>>}]
=============================================================================
