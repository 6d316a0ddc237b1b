---------------------------- MODULE RadiusPacket ----------------------------
(***************************************************************************)
(* RADIUS packets (classes RadPacket and RadPacketCoA) as values: the      *)
(* packets that the CoA commands build, their octets, and one round of     *)
(* each loop that takes the octets of a reply apart.                       *)
(*                                                                         *)
(* A text or an octet string is a sequence of numbers below OctetSize, a   *)
(* packet a record of its code, its attributes and its vendor specific     *)
(* attributes.  The sizes are constants so that the limits of the format   *)
(* are within reach of small values.                                       *)
(***************************************************************************)
EXTENDS Dictionary, Integers, SequencesExt

CONSTANTS
  WordSize,     \* 4: octets of an unsigned int, and of a vendor's number
  BlockSize,    \* 16: octets of an MD5 digest, and of the authenticator
  Md5(_),       \* the digest of a sequence of octets
  Xor(_, _),    \* of two octets
  Secret,       \* "cisco"
  LetterS, LetterBigI, LetterI, Colon, Blank, Ampersand,
  DefaultServer

Octets         == 0..OctetSize - 1
VendorSpecific == 26
HeaderSize     == 4 + BlockSize
VsaHeader      == 4 + WordSize    \* 8: number, size, vendor, and those within

Letters == <<LetterS, LetterBigI, LetterI, Colon, Blank, Ampersand>>

(* The digits of a text are their own values.  A packet has room for four  *)
(* attributes.                                                             *)
ASSUME RadiusAssumption ==
  /\ OctetSize \in Nat /\ WordSize \in Nat \ {0} /\ BlockSize \in Nat \ {0}
  /\ OctetSize > VendorSpecific /\ HeaderSize + 4 * OctetSize < OctetSize * OctetSize
  /\ Range(Letters) \subseteq 16..OctetSize - 1 /\ IsInjective(Letters)
  /\ Rank \in [DOMAIN Rank -> Nat]
  /\ Secret \in Seq(Octets) /\ DefaultServer \in Seq(Octets)
  /\ \A a, b \in Octets : Xor(a, b) \in Octets /\ Xor(Xor(a, b), b) = a

EmptyPacket == [code |-> 0, attr |-> << >>, vsattr |-> << >>]

Zeros(n) == [k \in 1..n |-> 0]

-----------------------------------------------------------------------------
(* Conversions of text.                                                    *)

(* A number and its digits, most significant first.                        *)
Number(digits, base) ==
  LET upTo[k \in 0..Len(digits)] == IF k = 0 THEN 0 ELSE base * upTo[k - 1] + digits[k]
  IN  upTo[Len(digits)]

Shifts(n, base, count) ==
  LET by[k \in 0..count] == IF k = 0 THEN n ELSE by[k - 1] \div base IN by

Digits(n, base, count) ==
  [k \in 1..count |-> Shifts(n, base, count)[count - k] % base]

Fits(n, base, count) == Shifts(n, base, count)[count] = 0

(* atoi: the digits up to the first other character.                       *)
Atoi(text) ==
  LET others == {k \in DOMAIN text : text[k] > 9}
      end    == IF others = {} THEN Len(text) ELSE Min(others) - 1
  IN  Number(SubSeq(text, 1, end), 10)

(* A word in octets (htonl).                                               *)
Word(n) == Digits(n, OctetSize, WordSize)

(* "%08X": as many digits as a word has.                                   *)
HexDigits(n) == Digits(n, 16, 2 * WordSize)

ColonAt(text) == LET at == {k \in DOMAIN text : text[k] = Colon}
                 IN  IF at = {} THEN 0 ELSE Min(at)

-----------------------------------------------------------------------------
(* The requests.                                                           *)

(* setCode: a code that the dictionary does not know stays 0.              *)
Coded(dict) ==
  IF HasValue(dict, "Packet-Type", "CoA-Request")
  THEN [EmptyPacket EXCEPT !.code = GetValue(dict, "Packet-Type", "CoA-Request")]
  ELSE EmptyPacket

With(packet, name, value) ==
  [packet EXCEPT !.attr = Append(@, [name |-> name, value |-> value])]

WithCisco(packet, name, value) ==
  [packet EXCEPT !.vsattr = Append(@, [vendor |-> "Cisco", name |-> name, value |-> value])]

(* The session a key names: by the NAS's own session id, which the billing *)
(* gives as a number ("i") and others in hexadecimal ("I"), or by account. *)
BySession(key) == key # << >> /\ key[1] \in {LetterBigI, LetterI}

AccountOf(key) == IF key # << >> /\ key[1] = LetterS THEN key ELSE <<LetterS>> \o key

SessionId(key) ==
  LET id == SubSeq(key, ColonAt(key) + 1, Len(key))
  IN  IF key[1] = LetterI THEN HexDigits(Atoi(id)) ELSE id

Addressed(packet, key) ==
  IF BySession(key) THEN With(packet, "Acct-Session-Id", SessionId(key))
  ELSE WithCisco(packet, "Cisco-Account-Info", AccountOf(key))

(* A session key without a NAS: the builder returns, the packet is sent.   *)
NoNas(key) == BySession(key) /\ ColonAt(key) = 0

CommandCode(command, service) ==
  CASE command = "isg_ping"        -> <<4, Blank, Ampersand>>
    [] command = "isg_logout"      -> <<2>>
    [] command = "isg_service_on"  -> <<11>> \o service
    [] command = "isg_service_off" -> <<12>> \o service

(* ping, logout, serviceon, serviceoff.                                    *)
SessionRequest(dict, command, key, service) ==
  IF NoNas(key) THEN Coded(dict)
  ELSE WithCisco(Addressed(Coded(dict), key), "Cisco-Command-Code",
                 CommandCode(command, service))

(* The password in blocks, each masked by the digest of the one before.    *)
Masked(block, previous) ==
  LET mask == Md5(Secret \o previous) IN [k \in 1..BlockSize |-> Xor(block[k], mask[k])]

Padded(password) ==
  LET counted == <<Len(password) % OctetSize>> \o password
  IN  counted \o Zeros(BlockSize - (Len(counted) % BlockSize))

PasswordPack(authenticator, password) ==
  LET text  == Padded(password)
      count == Len(text) \div BlockSize
      block[k \in 0..count] ==
        IF k = 0 THEN authenticator
        ELSE Masked(SubSeq(text, (k - 1) * BlockSize + 1, k * BlockSize), block[k - 1])
  IN  FlattenSeq([k \in 1..count + 1 |-> block[k - 1]])

LoggonRequest(dict, key, login, password, random) ==
  LET named == WithCisco(With(Coded(dict), "User-Name", login),
                         "Cisco-Account-Info", AccountOf(key))
  IN  WithCisco(WithCisco(named, "Cisco-Command-Code", <<1>>),
                "Cisco-Subscriber-Password", PasswordPack(random, password))

(* sendRadiusPacket: the NAS is what stands before the colon, without the  *)
(* letter of the key.                                                      *)
ServerOf(key) ==
  LET server == SubSeq(key, 1, ColonAt(key) - 1)
  IN  IF ColonAt(key) = 0 THEN DefaultServer
      ELSE IF server # << >> /\ server[1] \in {LetterS, LetterI, LetterBigI}
           THEN Tail(server) ELSE server

-----------------------------------------------------------------------------
(* The octets of a request.                                                *)

Types == {"integer", "string", "date", "octets"}

ValueOctets(type, value) ==
  CASE type \in {"string", "octets"} -> value
    [] type = "integer"              -> Word(Atoi(value))
    [] type = "date"                 -> << >>

(* A type that pack() does not know makes it throw, unless the name, or    *)
(* the vendor, is not known either: such an attribute is passed over.      *)
Packable(dict, packet) ==
  LET known(a) == HasAttribute(dict, a.name) => GetAttribute(dict, a.name).type \in Types
  IN  /\ \A a \in Range(packet.attr) : known(a)
      /\ \A a \in Range(packet.vsattr) : a.vendor \in DOMAIN dict.vendors => known(a)

Whole(n) == n  \* faulty variant: keeps what does not fit

Octet(n) == n % OctetSize

(* One attribute of the list is appended after the loop: the last, or      *)
(* nothing if the last has no name in the dictionary.                      *)
PackedAttributes(dict, packet) ==
  IF packet.attr = << >> \/ ~HasAttribute(dict, Last(packet.attr).name) THEN << >>
  ELSE LET a == GetAttribute(dict, Last(packet.attr).name)
           v == ValueOctets(a.type, Last(packet.attr).value)
       IN  <<a.id, Octet(2 + Len(v))>> \o v

(* The size within counts what follows the vendor's number; the faulty     *)
(* variant counts the value only.                                          *)
ValueSize(v) == Octet(Len(v))

InnerSize(v) == Octet(2 + Len(v))

PackedVsa(dict, a) ==
  IF a.vendor \notin DOMAIN dict.vendors \/ ~HasAttribute(dict, a.name) THEN << >>
  ELSE LET t == GetAttribute(dict, a.name)
           v == ValueOctets(t.type, a.value)
       IN  <<VendorSpecific, Octet(VsaHeader + Len(v))>> \o Word(dict.vendors[a.vendor])
             \o <<t.id, InnerSize(v)>> \o v

(* Code, identifier, size, and the authenticator, which is the digest of   *)
(* the packet with zeros in its place and of the secret.                   *)
Packed(dict, packet, identifier) ==
  LET body == PackedAttributes(dict, packet)
                \o FlattenSeq([k \in DOMAIN packet.vsattr |-> PackedVsa(dict, packet.vsattr[k])])
      size == HeaderSize + Len(body)
      head == <<Octet(packet.code), identifier, Octet(size \div OctetSize), Octet(size)>>
  IN  head \o Md5(head \o Zeros(BlockSize) \o body \o Secret) \o body

-----------------------------------------------------------------------------
(* The octets of a reply.  Positions count from 0, as in the code.         *)

At(octets, i) == octets[i + 1]
From(octets, i, n) ==  \* substr(i, n): to the end if n is negative or too large
  SubSeq(octets, i + 1, IF n < 0 \/ i + n > Len(octets) THEN Len(octets) ELSE i + n)
Erased(octets, i, n) == SubSeq(octets, 1, i) \o From(octets, i + n, -1)

(* The value that the client sees: text, the octets of an address, the     *)
(* number of an integer, which is read with the least octet first, or the  *)
(* name of a value.                                                        *)
Text(data) == [form |-> "text", of |-> data]

NamedOrText(dict, name, data) ==
  IF ValueStrings(dict, name, Atoi(data)) = {} THEN Text(data)
  ELSE [form |-> "name", of |-> <<Atoi(data)>>]

ReadValue(dict, name, type, data) ==
  CASE type = "ipaddr"               -> [form |-> "address", of |-> From(data, 0, WordSize)]
    [] type = "integer"              -> [form |-> "integer", of |-> Reverse(From(data, 0, WordSize))]
    [] type \in {"octets", "string"} -> Text(data)
    [] OTHER                         -> NamedOrText(dict, name, data)

(* _unpackVSAttributes has no branch for integers.                         *)
ReadVsaValue(dict, name, type, data) ==
  IF type = "integer" THEN NamedOrText(dict, name, data)
  ELSE ReadValue(dict, name, type, data)
=============================================================================
