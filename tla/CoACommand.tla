----------------------------- MODULE CoACommand -----------------------------
(***************************************************************************)
(* One isg_* command from its key to what its client is told: the request  *)
(* is built and packed, the NAS reads it and replies, RadClient::read puts *)
(* every datagram that is queued behind the reply into one buffer, and     *)
(* unpack() takes the buffer apart, one round of a loop at a time.         *)
(* (CoAExchange has the timing, the losses and the other commands.)        *)
(*                                                                         *)
(* The NAS follows RFC 2865 and RFC 3576.  It is not under src/.           *)
(***************************************************************************)
EXTENDS RadiusPacket

CONSTANTS
  Cases,         \* the command with its parameters, what the dictionary files
                 \* declared, and the identifier of the request
  Replies(_),    \* what the NAS may reply to a command: code and items in order
  Randoms,       \* what _bigrand may give
  MaxRead        \* bound on the attributes that unpack() collects

OctetStrings == Seq(Octets)

(* Numbers of attributes are octets (unsigned char), those of vendors and  *)
(* values are words; every name has its place in the order.                *)
DictionaryOK(d) ==
  /\ DOMAIN d.attrs \cup DOMAIN d.vendors \subseteq DOMAIN Rank
  /\ \A name \in DOMAIN d.attrs :
       /\ d.attrs[name].id \in Octets
       /\ DOMAIN d.attrs[name].values \subseteq DOMAIN Rank
       /\ \A v \in DOMAIN d.attrs[name].values : d.attrs[name].values[v] \in Nat
  /\ \A v \in DOMAIN d.vendors : d.vendors[v] \in Nat /\ Fits(d.vendors[v], OctetSize, WordSize)

(* What wrapRadiusPacket looks for is of a type that reads as text or as    *)
(* an address, and no other name of the same number comes before it.       *)
Found(d, name, vendor, types) ==
  /\ HasAttribute(d, name) /\ d.attrs[name].vendor = vendor /\ d.attrs[name].type \in types
  /\ First(AttributeStrings(d, d.attrs[name].id, vendor)) = name

NamesFound(d) ==
  /\ Found(d, "NAS-Port-Id", NoVendor, {"string", "octets"})
  /\ HasAttribute(d, "Framed-Address") => Found(d, "Framed-Address", NoVendor, {"ipaddr"})
  /\ HasAttribute(d, "EAP-Type-SIM") => Found(d, "EAP-Type-SIM", NoVendor, {"string", "octets"})
  /\ "Cisco" \in DOMAIN d.vendors =>
       /\ d.vendors["Cisco"] # 0 /\ First(VendorStrings(d, d.vendors["Cisco"])) = "Cisco"
       /\ \A name \in {"Cisco-Command-Code", "Cisco-Account-Info"} :
            Found(d, name, "Cisco", {"string", "octets"})

(* The key (the parameter "pbhk") as its senders make it: a letter or none, *)
(* the address of the NAS if it is known, and the session or the account.  *)
(* The number of a session is one of an unsigned int.                      *)
CommandOK(c) ==
  /\ c.command \in {"isg_ping", "isg_logout", "isg_service_on", "isg_service_off", "isg_logon"}
  /\ c.letter \in {<< >>, <<LetterS>>, <<LetterBigI>>, <<LetterI>>}
  /\ {c.nas, c.id, c.service, c.login, c.password} \subseteq OctetStrings
  /\ (Range(c.nas) \cup Range(c.id)) \cap Range(Letters) = {}
  /\ c.letter = <<LetterI>> =>
       Range(c.id) \subseteq 0..9 /\ Fits(Number(c.id, 10), 16, 2 * WordSize)

(* An item of a reply.  A vendor specific one may hold several attributes:  *)
(* its number is that of the first of them, its value what stands behind    *)
(* the first's size (first), the others in their octets included.           *)
ItemOctets(item) ==
  LET v == item.value IN
  IF item.vendor = 0 THEN <<item.id, 2 + Len(v)>> \o v
  ELSE <<VendorSpecific, VsaHeader + Len(v)>> \o Word(item.vendor) \o <<item.id, item.first>> \o v

BodyOf(r) == FlattenSeq([k \in DOMAIN r.items |-> ItemOctets(r.items[k])])

(* A reply conforms to RFC 2865: its sizes fit.                            *)
ReplyOK(r) ==
  /\ r.code \in Octets
  /\ r.items \in Seq([vendor : Nat, id : Octets, first : Octets, value : OctetStrings])
  /\ \A item \in Range(r.items) :
       /\ Fits(item.vendor, OctetSize, WordSize)
       /\ Len(ItemOctets(item)) < OctetSize
       /\ IF item.vendor = 0 THEN item.id # VendorSpecific
          ELSE item.first \in 2..2 + Len(item.value)
  /\ HeaderSize + Len(BodyOf(r)) < OctetSize * OctetSize

(* An address has the octets of a word.                                    *)
AddressesOK(d, r) ==
  \A item \in Range(r.items) :
    item.vendor = 0 /\ HasAttribute(d, "Framed-Address") /\ item.id = d.attrs["Framed-Address"].id
      => Len(item.value) = WordSize

ASSUME CoACommandAssumption ==
  /\ MaxRead \in Nat
  /\ Randoms \subseteq [1..BlockSize -> Octets]
  /\ \A c \in Cases : /\ c.identifier \in Octets
                      /\ DictionaryOK(c.dict) /\ NamesFound(c.dict) /\ CommandOK(c.command)
                      /\ \A r \in Replies(c.command) : ReplyOK(r) /\ AddressesOK(c.dict, r)

VARIABLES
  dict, command, identifier,  \* as above
  phase,          \* where the command is
  packet,         \* the request, then nothing
  server,         \* the NAS the request was sent to
  wire,           \* the octets sent
  reply,          \* what the NAS replied
  copies,         \* datagrams of it in the socket's queue
  octets, i,      \* locals of unpack(): tmp and i
  code, attr, vsattr,  \* members of the RadPacket that is read
  told            \* what the client is told

requestVars == <<dict, command, identifier, packet, server, wire>>
replyVars   == <<reply, copies>>
readVars    == <<octets, i, code, attr, vsattr>>
vars == <<phase, requestVars, replyVars, readVars, told>>

Nothing == [code |-> 0, items |-> << >>]

Init ==
  /\ \E c \in Cases : /\ dict = c.dict /\ command = c.command
                      /\ identifier = c.identifier
  /\ phase = "build"
  /\ packet = EmptyPacket /\ server = << >> /\ wire = << >>
  /\ reply = Nothing /\ copies = 0
  /\ octets = << >> /\ i = 0
  /\ code = 0 /\ attr = << >> /\ vsattr = << >>
  /\ told = [as |-> "nothing"]

-----------------------------------------------------------------------------
(* The request.                                                            *)

Key == command.letter \o (IF command.nas = << >> THEN << >> ELSE command.nas \o <<Colon>>)
         \o command.id

Loggon == command.command = "isg_logon"

Build ==
  /\ phase = "build"
  /\ IF Loggon
     THEN \E random \in Randoms :
            packet' = LoggonRequest(dict, Key, command.login, command.password, random)
     ELSE packet' = SessionRequest(dict, command.command, Key, command.service)
  /\ phase' = "send"
  /\ UNCHANGED <<dict, command, identifier, server, wire, replyVars, readVars, told>>

Send ==
  /\ phase = "send" /\ Packable(dict, packet)
  /\ server' = ServerOf(Key)
  /\ wire' = Packed(dict, packet, identifier)
  /\ phase' = "nas"
  /\ UNCHANGED <<dict, command, identifier, packet, replyVars, readVars, told>>

(* pack() throws: -1, and an empty result.                                 *)
SendThrows ==
  /\ phase = "send" /\ ~Packable(dict, packet)
  /\ phase' = "told" /\ told' = [as |-> "empty"]
  /\ UNCHANGED <<requestVars, replyVars, readVars>>

-----------------------------------------------------------------------------
(* The NAS.                                                                *)

Datagram(r) ==
  LET body == BodyOf(r)
      size == HeaderSize + Len(body)
      head == <<r.code, identifier, size \div OctetSize, size % OctetSize>>
  IN  head \o Md5(head \o SubSeq(wire, 5, HeaderSize) \o body \o Secret) \o body

(* The reply arrives, perhaps twice before it is read.                     *)
NasReplies ==
  /\ phase = "nas"
  /\ reply' \in Replies(command)
  /\ copies' \in 1..2
  /\ octets' = IF copies' = 1 THEN Datagram(reply') ELSE Datagram(reply') \o Datagram(reply')
  /\ phase' = "header"
  /\ UNCHANGED <<requestVars, i, code, attr, vsattr, told>>

-----------------------------------------------------------------------------
(* unpack().  A position outside the octets throws: -1, and an empty       *)
(* result.                                                                 *)

UnpackHeader ==
  /\ phase = "header" /\ Len(octets) >= 4
  /\ code' = At(octets, 0)
  /\ octets' = From(octets, HeaderSize, -1)
  /\ phase' = "attributes" /\ i' = 0
  /\ UNCHANGED <<requestVars, replyVars, attr, vsattr, told>>

Reading(p) == phase = p /\ i < Len(octets)

Id   == At(octets, i)
Size == At(octets, i + 1)

(* A round of _unpackAttributes: a vendor specific attribute is passed     *)
(* over; any other is cut out, and kept if it has a name.                  *)
Stays == i' = i  \* faulty variant

Passes == i' = i + Size

PassOver ==
  /\ Reading("attributes") /\ i + 1 < Len(octets) /\ Id = VendorSpecific
  /\ Passes
  /\ UNCHANGED <<phase, requestVars, replyVars, octets, code, attr, vsattr, told>>

(* Faulty variant: the loop goes on behind what was cut out.               *)
CutOutAndSkip == octets' = Erased(octets, i, Size) /\ i' = i + Size

CutOut == octets' = Erased(octets, i, Size) /\ UNCHANGED i

ReadAttribute ==
  /\ Reading("attributes") /\ i + 1 < Len(octets) /\ Id # VendorSpecific
  /\ Len(attr) < MaxRead
  /\ CutOut
  /\ LET names == AttributeStrings(dict, Id, NoVendor)
         name  == First(names)
         data  == From(octets, i + 2, Size - 2)
     IN  attr' = IF names = {} THEN attr
                 ELSE Append(attr, [name |-> name,
                        value |-> ReadValue(dict, name, GetAttribute(dict, name).type, data)])
  /\ UNCHANGED <<phase, requestVars, replyVars, code, vsattr, told>>

(* A round of _unpackVSAttributes: any but a vendor specific attribute is  *)
(* passed over (there is one only behind a second copy); of a vendor       *)
(* specific one the first attribute's number and everything behind its     *)
(* size are taken, the size is not looked at.                              *)
PassOverPlain ==
  /\ Reading("vsa") /\ i + 1 < Len(octets) /\ Id # VendorSpecific
  /\ Passes
  /\ UNCHANGED <<phase, requestVars, replyVars, octets, code, attr, vsattr, told>>

Vendor == Number(From(octets, i + 2, WordSize), OctetSize)

ReadVsa ==
  /\ Reading("vsa") /\ i + VsaHeader <= Len(octets) /\ Id = VendorSpecific
  /\ Len(vsattr) < MaxRead
  /\ CutOut
  /\ LET vendors == VendorStrings(dict, Vendor)
         vendor  == First(vendors)
         names   == IF vendors = {} THEN {}
                    ELSE AttributeStrings(dict, At(octets, i + 2 + WordSize), vendor)
         name    == First(names)
         data    == From(octets, i + VsaHeader, Size - VsaHeader)
     IN  vsattr' = IF names = {} THEN vsattr
                   ELSE Append(vsattr, [vendor |-> vendor, name |-> name,
                          value |-> ReadVsaValue(dict, name, GetAttribute(dict, name).type, data)])
  /\ UNCHANGED <<phase, requestVars, replyVars, code, attr, told>>

LoopEnds ==
  /\ phase \in {"attributes", "vsa"} /\ i >= Len(octets)
  /\ phase' = IF phase = "attributes" THEN "vsa" ELSE "wrap"
  /\ i' = 0
  /\ UNCHANGED <<requestVars, replyVars, octets, code, attr, vsattr, told>>

OutOfRange ==
  \/ phase = "header" /\ Len(octets) < 4
  \/ (Reading("attributes") \/ Reading("vsa")) /\ i + 1 >= Len(octets)
  \/ Reading("vsa") /\ Id = VendorSpecific /\ i + VsaHeader > Len(octets)

UnpackThrows ==
  /\ OutOfRange
  /\ phase' = "told" /\ told' = [as |-> "empty"]
  /\ UNCHANGED <<requestVars, replyVars, readVars>>

-----------------------------------------------------------------------------
(* wrapRadiusPacket.                                                       *)

Values(name) ==
  FlattenSeq([k \in DOMAIN attr |-> IF attr[k].name = name THEN <<attr[k].value>> ELSE << >>])

CiscoValues(name) ==
  FlattenSeq([k \in DOMAIN vsattr |->
                IF vsattr[k].vendor = "Cisco" /\ vsattr[k].name = name
                THEN <<vsattr[k].value>> ELSE << >>])

(* dump() throws for a code without a name, substr(1) for an empty command *)
(* code; both escape to the dispatcher, which reports an error.            *)
Wrappable ==
  /\ ValueStrings(dict, "Packet-Type", code) # {}
  /\ \A k \in DOMAIN CiscoValues("Cisco-Command-Code") :
       CiscoValues("Cisco-Command-Code")[k].of # << >>

Wrap ==
  /\ phase = "wrap" /\ Wrappable
  /\ LET codes == CiscoValues("Cisco-Command-Code") IN
     told' = [as        |-> "result",
              code      |-> First(ValueStrings(dict, "Packet-Type", code)),
              command   |-> [k \in DOMAIN codes |-> Tail(codes[k].of)],
              account   |-> CiscoValues("Cisco-Account-Info"),
              address   |-> Values("Framed-Address"),
              port      |-> Values("NAS-Port-Id"),
              sim       |-> Values("EAP-Type-SIM")]
  /\ phase' = "told"
  /\ UNCHANGED <<requestVars, replyVars, readVars>>

WrapThrows ==
  /\ phase = "wrap" /\ ~Wrappable
  /\ told' = [as |-> "error"] /\ phase' = "told"
  /\ UNCHANGED <<requestVars, replyVars, readVars>>

-----------------------------------------------------------------------------
Unpack ==
  UnpackHeader \/ PassOver \/ ReadAttribute \/ PassOverPlain \/ ReadVsa \/ LoopEnds \/ UnpackThrows

Next == Build \/ Send \/ SendThrows \/ NasReplies \/ Unpack \/ Wrap \/ WrapThrows

(* The thread of the command goes on with a reply that it has; nothing is  *)
(* assumed of the NAS.                                                     *)
Spec == Init /\ [][Next]_vars /\ WF_vars(Unpack \/ Wrap \/ WrapThrows)

-----------------------------------------------------------------------------
TypeOK ==
  /\ phase \in {"build", "send", "nas", "header", "attributes", "vsa", "wrap", "told"}
  /\ Range(wire) \cup Range(octets) \subseteq 0..OctetSize - 1
  /\ copies \in 0..2
  /\ i \in Nat /\ code \in 0..OctetSize - 1
  /\ Len(attr) <= MaxRead /\ Len(vsattr) <= MaxRead
  /\ told.as \in {"nothing", "empty", "error", "result"}

(***************************************************************************)
(* What the NAS reads in the request, by the rules of RFC 2865: attributes *)
(* that fill the packet to its end, each with its size.                    *)
(***************************************************************************)
Malformed == [id |-> 0, data |-> << >>]

AttributesOf(w) ==
  LET from[p \in 1..Len(w) + 1] ==
        IF p > Len(w) THEN << >>
        ELSE IF p = Len(w) \/ w[p + 1] < 2 \/ p + w[p + 1] > Len(w) + 1 THEN <<Malformed>>
        ELSE <<[id |-> w[p], data |-> SubSeq(w, p + 2, p + w[p + 1] - 1)]>> \o from[p + w[p + 1]]
  IN  from[HeaderSize + 1]

Plain(name, value) == [id |-> GetAttribute(dict, name).id, data |-> value]

Cisco(name, value) ==
  [id |-> VendorSpecific,
   data |-> Word(dict.vendors["Cisco"]) \o <<GetAttribute(dict, name).id, 2 + Len(value)>> \o value]

Authentic(w) ==
  SubSeq(w, 5, HeaderSize) =
    Md5(SubSeq(w, 1, 4) \o Zeros(BlockSize) \o SubSeq(w, HeaderSize + 1, Len(w)) \o Secret)

(* The password as the NAS unmasks it, block by block from the front.      *)
Unmasked(data) ==
  LET block(k) == SubSeq(data, k * BlockSize + 1, (k + 1) * BlockSize)
      text == FlattenSeq([k \in 1..(Len(data) \div BlockSize) - 1 |-> Masked(block(k), block(k - 1))])
  IN  SubSeq(text, 2, 1 + text[1])

(* The session as the sender of the key meant it: a number is the one that *)
(* the hexadecimal digits of the session id write.                         *)
NamesSession(data) ==
  IF command.letter = <<LetterI>>
  THEN Number(data, 16) = Number(command.id, 10)
  ELSE data = command.id

Identified(a) ==
  IF command.letter \in {<<LetterI>>, <<LetterBigI>>}
  THEN a.id = GetAttribute(dict, "Acct-Session-Id").id /\ NamesSession(a.data)
  ELSE a = Cisco("Cisco-Account-Info",
                 <<LetterS>> \o (IF command.letter = << >> THEN Key ELSE Tail(Key)))

(* Values that the size octets can count, a dictionary that has the code,  *)
(* the vendor and the names, as texts, a session with its NAS, and a logon *)
(* by account.                                                             *)
Regular ==
  /\ HasValue(dict, "Packet-Type", "CoA-Request")
  /\ GetValue(dict, "Packet-Type", "CoA-Request") \in Octets
  /\ "Cisco" \in DOMAIN dict.vendors
  /\ \A a \in Range(packet.attr) \cup Range(packet.vsattr) :
       HasAttribute(dict, a.name) /\ GetAttribute(dict, a.name).type \in {"string", "octets"}
  /\ \A a \in Range(packet.vsattr) : Len(a.value) < OctetSize - VsaHeader
  /\ \A a \in Range(packet.attr)   : Len(a.value) < OctetSize - 2
  /\ command.letter \in {<<LetterI>>, <<LetterBigI>>} => command.nas # << >> /\ ~Loggon

(* The NAS that the key names receives an authentic request in which it    *)
(* finds the session of the key and the command with its service, or the   *)
(* user with a password it can unmask, and nothing else.  (the builders of *)
(* coapacket.cpp, pack with its three sizes, sendRadiusPacket)             *)
CommandArrives ==
  phase = "nas" /\ Regular =>
    LET got == AttributesOf(wire) IN
    /\ server = IF command.nas = << >> THEN DefaultServer ELSE command.nas
    /\ wire[1] = GetValue(dict, "Packet-Type", "CoA-Request")
    /\ wire[2] = identifier
    /\ Len(wire) = wire[3] * OctetSize + wire[4]
    /\ Authentic(wire)
    /\ IF Loggon
       THEN /\ Len(got) = 4
            /\ got[1] = Plain("User-Name", command.login)
            /\ Identified(got[2])
            /\ got[3] = Cisco("Cisco-Command-Code", <<1>>)
            /\ LET data == From(got[4].data, WordSize + 2, -1)
               IN  got[4] = Cisco("Cisco-Subscriber-Password", data)
                   /\ Unmasked(data) = command.password
       ELSE /\ Len(got) = 2
            /\ Identified(got[1])
            /\ got[2] = Cisco("Cisco-Command-Code", CommandCode(command.command, command.service))

-----------------------------------------------------------------------------
(* What the reply says, read off its items.                                *)
ItemValues(vendor, id) ==
  FlattenSeq([k \in DOMAIN reply.items |->
                LET item == reply.items[k]
                IN  IF item.vendor = vendor /\ item.id = id THEN <<item.value>> ELSE << >>])

CiscoItems(name) == ItemValues(dict.vendors["Cisco"], GetAttribute(dict, name).id)

Texts(list) == [k \in DOMAIN list |-> Text(list[k])]

(* What a reply that is read alone says of the session reaches the client, *)
(* in order, whatever unknown attributes and vendors stand in between; an  *)
(* error is reported for a code without a name and for an empty command    *)
(* only.  Of a vendor specific item with several attributes the first has  *)
(* the octets of the others at the end of its value, and these are not     *)
(* told as attributes.  If the reply is read with its copy, unpack() may   *)
(* throw (the client is told nothing) or never end; if it ends, what the   *)
(* client is told starts with what the reply says.  The address is found   *)
(* if the dictionary has the old name "Framed-Address" for it.  (unpack    *)
(* with the loops over the octets it shortens, wrapRadiusPacket)           *)
ReplyReachesClient ==
  phase = "told" /\ reply # Nothing /\ "Cisco" \in DOMAIN dict.vendors =>
    LET commands == CiscoItems("Cisco-Command-Code")
        agree(list, said) == IF copies = 1 THEN list = said ELSE IsPrefix(said, list)
    IN  /\ copies = 1 =>
             (told.as = "result" <=> /\ ValueStrings(dict, "Packet-Type", reply.code) # {}
                                     /\ << >> \notin Range(commands))
        /\ told.as = "result" =>
             /\ GetValue(dict, "Packet-Type", told.code) = reply.code
             /\ agree(told.command, [k \in DOMAIN commands |-> Tail(commands[k])])
             /\ agree(told.account, Texts(CiscoItems("Cisco-Account-Info")))
             /\ agree(told.port, Texts(ItemValues(0, GetAttribute(dict, "NAS-Port-Id").id)))
             /\ HasAttribute(dict, "Framed-Address") =>
                  LET said == ItemValues(0, GetAttribute(dict, "Framed-Address").id)
                  IN  agree(told.address, [k \in DOMAIN said |-> [form |-> "address", of |-> said[k]]])
             /\ HasAttribute(dict, "EAP-Type-SIM") =>
                  agree(told.sim, Texts(ItemValues(0, GetAttribute(dict, "EAP-Type-SIM").id)))

(* A reply that is read alone is taken apart in finitely many rounds and   *)
(* the client is told.  (the loops end because every size in a conforming  *)
(* reply is at least two; behind a second copy they may not)               *)
UnpackEnds == phase = "header" /\ copies = 1 ~> phase = "told"
=============================================================================
