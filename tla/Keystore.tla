------------------------------ MODULE Keystore ------------------------------
(***************************************************************************)
(* The PKCS#12 file an add generates (generateKeystoreWithSubject in       *)
(* srv/signing.go).  The library's encoder cannot name the key, so the hub *)
(* takes the file apart, adds a friendlyName to the bag of the key and     *)
(* puts the file together again, lengths and MAC included.                 *)
(*                                                                         *)
(* DER is a sequence of pieces: a byte, or a run of bytes nobody looks     *)
(* into.  v tells pieces apart -- a byte's value, or a number below zero   *)
(* for a run -- and n is how many bytes the piece has.                     *)
(***************************************************************************)
EXTENDS Signing, Integers, SequencesExt

CONSTANTS
    NameBytes   \* what a value of a name field adds to the file, in bytes

Run(id, n) == <<[v |-> id, n |-> n]>>
Bytes(s)   == [i \in DOMAIN s |-> [v |-> s[i], n |-> 1]]

\* The bytes of the first i pieces, for each i.
SizesTo(d) ==
    LET upTo[i \in 0 .. Len(d)] == IF i = 0 THEN 0 ELSE upTo[i - 1] + d[i].n IN upTo
Size(d) == SizesTo(d)[Len(d)]

\* What a certificate's name adds to the file.
SizeOf(nm) ==
    LET upTo[f \in 0 .. Fields] == IF f = 0 THEN 0 ELSE upTo[f - 1] + NameBytes[nm[f]]
    IN  upTo[Fields]

\* Five fields of at most 10 MB each, the most ParseForm reads, and twice, for
\* the certificate's subject is its issuer.
MostBytes == 104857600
ASSUME KeystoreAssumption ==
    /\ NameBytes \in [Save \cup {Unset} -> Nat]
    /\ \A nm \in [Field -> Save \cup {Unset}] : SizeOf(nm) \in 0 .. MostBytes

\* The runs a file is made of; their sizes are those of a 2048-bit key.
OidData == Run(-1, 11)
OidEncryptedData == Run(-2, 11)
OidKeyBag == Run(-3, 13)
OidFriendlyName == Run(-4, 11)
OidLocalKeyId == Run(-5, 11)
Certs(n) == Run(-6, 901 + n)
ShroudedKey == Run(-7, 1270)
KeyId == Run(-8, 22)
Alias == Run(-9, 14)        \* "release" in UCS-2
Nul == Run(-10, 2)

-----------------------------------------------------------------------------
(* Lengths and values                                                      *)

\* encoding/asn1: as few octets as possible, and the top bit of the first one
\* tells that it says how many follow.
Octets(n) ==
    CASE n < 256 -> <<n>>
      [] n >= 256 /\ n < 65536 -> <<n \div 256, n % 256>>
      [] n >= 65536 /\ n < 16777216 -> <<n \div 65536, (n \div 256) % 256, n % 256>>
      [] n >= 16777216 ->
            <<n \div 16777216, (n \div 65536) % 256, (n \div 256) % 256, n % 256>>
LengthBytes(n) == IF n < 128 THEN <<n>> ELSE <<128 + Len(Octets(n))>> \o Octets(n)
Marshal(tag, body) == Bytes(<<tag>> \o LengthBytes(Size(body))) \o body

derLength(n) ==
    CASE n < 128   -> <<n>>
      [] n >= 128 /\ n < 256     -> <<129, n>>
      [] n >= 256 /\ n < 65536   -> <<130, n \div 256, n % 256>>
      [] n >= 65536 -> <<131, (n \div 65536) % 256, (n \div 256) % 256, n % 256>>

\* Faulty variant: the three-octet form starts one too late.
wrapTLVOffByOne(tag, tlv) ==
    LET n == Size(tlv)
    IN  Bytes(<<tag>> \o (IF n = 65536 THEN <<130, 0, 0>> ELSE derLength(n))) \o tlv

\* The same forms; a value of 2^24 bytes and more is refused, and with it the
\* key: the add answers as when the key cannot be stored (Fails in Signing).
TooLarge == <<>>
wrapTLV(tag, tlv) ==
    LET n == Size(tlv)
        len == CASE n < 128   -> <<n>>
                 [] n >= 128 /\ n < 256     -> <<129, n>>
                 [] n >= 256 /\ n < 65536   -> <<130, n \div 256, n % 256>>
                 [] n >= 65536 -> <<131, n \div 65536, (n \div 256) % 256, n % 256>>
    IN  IF n >= 16777216 THEN TooLarge ELSE Bytes(<<tag>> \o len) \o tlv

\* asn1.Unmarshal of one value: its tag, its body, all of it, and what follows.
Bad == [tag |-> 0, body |-> <<>>, full |-> <<>>, rest |-> <<>>]
HasHeader(d) == Len(d) >= 2 /\ d[1].v >= 0 /\ d[2].v >= 0
LengthOctets(d) == IF d[2].v < 128 THEN 0 ELSE d[2].v - 128
BodyLength(d) ==
    LET k == LengthOctets(d)
        value[i \in 0 .. k] == IF i = 0 THEN 0 ELSE 256 * value[i - 1] + d[2 + i].v
    IN  IF k = 0 THEN d[2].v ELSE value[k]
Ends(d) ==
    LET k == LengthOctets(d)
    IN  {e \in 2 + k .. Len(d) : Size(SubSeq(d, 3 + k, e)) = BodyLength(d)}
Read(d) ==
    IF ~HasHeader(d) \/ Ends(d) = {} THEN Bad
    ELSE LET k == LengthOctets(d)
             e == CHOOSE x \in Ends(d) : \A y \in Ends(d) : x <= y
         IN  [tag |-> d[1].v, body |-> SubSeq(d, 3 + k, e),
              full |-> SubSeq(d, 1, e), rest |-> SubSeq(d, e + 1, Len(d))]

\* The values d is a sequence of.
ValueAt(d, i) == Read(SubSeq(d, i, Len(d)))
Split(d) ==
    LET from[i \in 1 .. Len(d) + 1] ==
            IF ValueAt(d, i) = Bad THEN <<>>
            ELSE <<ValueAt(d, i)>> \o from[i + Len(ValueAt(d, i).full)]
    IN  from[1]

Fulls(values) == FlattenSeq([i \in DOMAIN values |-> values[i].full])

-----------------------------------------------------------------------------
(* The file.  content is AuthSafe's [0] wrapper, maced what the MAC is of. *)

\* pkcs12.LegacyRC2.Encode: the certificate in an encrypted part, the key in
\* a bag of a plain one.
Encode(n) ==
    LET bag  == Marshal(48, OidKeyBag \o Marshal(160, ShroudedKey)
                            \o Marshal(49, Marshal(48, OidLocalKeyId \o Marshal(49, KeyId))))
        data == Marshal(48, OidData \o Marshal(160, Marshal(4, Marshal(48, bag))))
        safe == Marshal(48, Marshal(48, OidEncryptedData \o Marshal(160, Certs(n))) \o data)
    IN  [content |-> Marshal(160, Marshal(4, safe)), maced |-> safe]

Contents(p12) == Split(Read(Read(Read(p12.content).body).body).body)

IsData(ci) == ci.tag = 48 /\ Head(ci.body) = OidData[1]
BagsOf(ci) == Split(Read(Read(Read(Tail(ci.body)).body).body).body)

Attributes(bag) == Split(Split(Tail(bag.body))[2].body)
hasAttr(bag, oid) == \E a \in ToSet(Attributes(bag)) : Head(a.body) = oid[1]
NeedsName(bag) == Head(bag.body) = OidKeyBag[1] /\ ~hasAttr(bag, OidFriendlyName)

bmpStringZeroTerm == Alias \o Nul

friendlyNameAttr ==
    Marshal(48, OidFriendlyName \o Marshal(49, Marshal(30, Front(bmpStringZeroTerm))))

\* A SET OF is written in the order of its elements' encodings: the name, which
\* is the shorter attribute, comes first.
WithName(bag) ==
    IF NeedsName(bag)
    THEN Marshal(48, OidKeyBag \o Split(Tail(bag.body))[1].full
                     \o Marshal(49, friendlyNameAttr \o Fulls(Attributes(bag))))
    ELSE bag.full

\* Assembled by hand: the SEQUENCE's length is known once its body is written.
buildDataContentInfo(payload) ==
    LET octet == Marshal(4, payload)
        seq == Bytes(<<48>>) \o OidData \o Bytes(<<160>> \o derLength(Size(octet))) \o octet
    IN  Bytes(<<48>> \o derLength(Size(seq) - 1)) \o Tail(seq)

Named(ci) ==
    LET bags == BagsOf(ci)
    IN  buildDataContentInfo(Marshal(48, FlattenSeq([j \in DOMAIN bags |-> WithName(bags[j])])))

\* The parts with a key bag in need of a name: only the first one is rebuilt.
Hits(cs) == {i \in DOMAIN cs : IsData(cs[i]) /\ \E b \in ToSet(BagsOf(cs[i])) : NeedsName(b)}
withKeyBagFriendlyName(p12) ==
    LET cs == Contents(p12)
        hits == Hits(cs)
        first == CHOOSE i \in hits : \A j \in hits : i <= j
        inner == Marshal(48, FlattenSeq(
                    [i \in DOMAIN cs |-> IF i = first THEN Named(cs[i]) ELSE cs[i].full]))
    IN  IF hits = {} THEN p12
        ELSE [content |-> wrapTLV(160, Marshal(4, inner)), maced |-> inner]

generateKeystore(n) == withKeyBagFriendlyName(Encode(n))

-----------------------------------------------------------------------------
(* What a build tool makes of the file                                     *)

KeyBags(p12) ==
    UNION {{b \in ToSet(BagsOf(ci)) : Head(b.body) = OidKeyBag[1]} :
            ci \in {c \in ToSet(Contents(p12)) : IsData(c)}}

Opened(p12) ==
    /\ Read(p12.content).full = p12.content                  \* no byte is left over
    /\ Read(Read(p12.content).body).body = p12.maced         \* the MAC is of what is there
    /\ \E b \in KeyBags(p12) :
        /\ Split(Tail(b.body))[1].body = ShroudedKey
        /\ \E a \in ToSet(Attributes(b)) :
            a.body = OidFriendlyName \o Marshal(49, Marshal(30, Alias))
        /\ hasAttr(b, OidLocalKeyId)
    /\ \E c \in ToSet(Contents(p12)) : ~IsData(c) /\ Read(Tail(c.body)).body[1].v = -6

Megabytes == 16000000

\* The file with these n bytes of name opens under the alias, and naming its key
\* again changes nothing; or it was refused, for a name of megabytes.
Usable(n, p12) ==
    \/ Opened(p12) /\ withKeyBagFriendlyName(p12) = p12
    \/ p12.content = TooLarge /\ n > Megabytes

Verdicts ==
    {<<nm, \A p12 \in {generateKeystore(SizeOf(nm))} : Usable(SizeOf(nm), p12)>> :
        nm \in [Field -> Save \cup {Unset}]}

\* Every keystore an add comes to store can be opened by a build under the
\* alias "release" that the stored passwords name, whatever the length of the
\* certificate's name: the lengths written by hand are right on both sides of
\* the points where their form changes (buildDataContentInfo, wrapTLV), and the
\* MAC is recomputed over the new content (withKeyBagFriendlyName).
GeneratedOpens == \A a \in Add : pc[a] \in {"store", "keyed"} => <<name[a], TRUE>> \in Verdicts
=============================================================================
