----------------------------- MODULE PrivkeyCodes -----------------------------
(***************************************************************************)
(* Private keys as they are printed and read (util.c): Base58 with a type, *)
(* hexadecimal, and Base58 protected with a password. A key is a sequence  *)
(* of KeyBytes bytes (32); cipher, digest and key derivation are small     *)
(* ones, what matters is which bytes they are given and where theirs go.   *)
(***************************************************************************)
EXTENDS ByteCodes

CONSTANTS KeyBytes, Order,      \* a key is a number from 1 to Order - 1
          Nibble,               \* values of a hexadecimal digit (16)
          Main, Test,           \* types of unprotected keys (128, 239)
          ProtectedMain, ProtectedTest,         \* and of protected ones (32, 79)
          PkcsGroup,            \* the other parameter group than 0 (16)
          BlockBytes,           \* of the cipher (16)
          BriefSalt, BriefHmac, PkcsSalt        \* lengths (4, 8, 8)

ASSUME PrivkeyAssumption ==
  /\ {KeyBytes, Order, Nibble, PkcsGroup, BlockBytes, BriefSalt, BriefHmac, PkcsSalt} \subseteq Nat \ {0}
  /\ BYTE = Nibble * Nibble /\ Order <= BYTE ^ KeyBytes
  /\ {Main, Test, ProtectedMain, ProtectedTest, PkcsGroup} \subseteq 0 .. BYTE - 1
  /\ Main % 2 = 0 /\ Test % 2 = 1

HexCurrency == {"ETH", "TRX"}
NoPass == 0

\* What a decoder returns: 0 if it refuses, 2 for a compressed key, else 1; it may also ask
\* for the password, or stop the program.
NoKey == [res |-> 0, key |-> <<>>, type |-> 0]
AskPassword == -1
Aborted == -2

\* vg_set_privkey, of a number: one that is no key fails its last assertion.
SetPrivkey(bytes, res, type) ==
  LET key == Number(bytes, BYTE)
  IN IF key \in 1 .. Order - 1 THEN [res |-> res, key |-> key, type |-> type]
     ELSE [NoKey EXCEPT !.res = Aborted]

-------------------------------------------------------------------------------
(* Without a password *)

\* BN_bn2bin, after the zeros it leaves out
KeyBuffer(key) == LET bin == Digits(key, BYTE) IN Repeat(0, KeyBytes - Len(bin)) \o bin

\* hex_enc
HexEncoded(bytes) ==
  [i \in 1 .. 2 * Len(bytes) |->
     LET byte == bytes[(i + 1) \div 2] IN IF i % 2 = 1 THEN byte \div Nibble ELSE byte % Nibble]

\* vg_encode_privkey: BN_bn2hex leaves leading bytes out.
EncodePrivkey(currency, key, type) ==
  CASE currency = "ETH" -> <<0, CharX>> \o HexEncoded(KeyBuffer(key))
    [] currency = "TRX" -> HexEncoded(Digits(key, BYTE))
    [] OTHER -> EncodedCheck(<<type>> \o KeyBuffer(key))

\* vg_encode_privkey_compressed
EncodeCompressed(key, type) == EncodedCheck(<<type>> \o KeyBuffer(key) \o <<1>>)

\* vg_decode_privkey: the length tells a compressed key from the other.
DecodePrivkey(input) ==
  LET bytes == Decoded(input)
  IN IF bytes = Refused \/ Len(bytes) \notin {KeyBytes + 1, KeyBytes + 2} THEN NoKey
     ELSE SetPrivkey(SubSeq(bytes, 2, KeyBytes + 1), Len(bytes) - KeyBytes, bytes[1])

-------------------------------------------------------------------------------
(* With a password *)

\* protkey_parameters, and the lengths that follow from a group's mode. A group that is one
\* past the table passes the test and is read from what follows it; it is refused here.
ParameterGroups == {0, PkcsGroup}
Lengths(group) ==
  IF group = 0
  THEN [cipher |-> ((KeyBytes + BlockBytes - 1) \div BlockBytes) * BlockBytes,
        hmac |-> BriefHmac, salt |-> BriefSalt]
  ELSE [cipher |-> ((KeyBytes + BlockBytes) \div BlockBytes) * BlockBytes, hmac |-> 0, salt |-> PkcsSalt]

\* Stand for PBKDF2, AES-256-CBC and HMAC-SHA256.
Material(pass, salt) == (pass + Number(salt, 2)) % BYTE
Enciphered(bytes, m) == [i \in DOMAIN bytes |-> (bytes[i] + m + i) % BYTE]
Deciphered(bytes, m) == [i \in DOMAIN bytes |-> (bytes[i] - m - i) % BYTE]
Hmac(bytes, m, length) == [i \in 1 .. length |-> (Number(bytes, 3) + i * m) % BYTE]

\* The cipher's padding, which the brief group turns off
PaddedTo(bytes, length) == bytes \o Repeat(length - Len(bytes), length - Len(bytes))
Unpadded(bytes) ==
  LET pad == bytes[Len(bytes)]
  IN IF pad \in 1 .. BlockBytes /\ \A i \in Len(bytes) - pad + 1 .. Len(bytes) : bytes[i] = pad
     THEN SubSeq(bytes, 1, Len(bytes) - pad) ELSE Refused

\* vg_protect_crypt, enc: the group, the key enciphered, its digest, the salt.
Protected(group, key, pass, salt) ==
  LET l == Lengths(group)
      m == Material(pass, salt)
  IN <<group>> \o Enciphered(IF group = 0 THEN key ELSE PaddedTo(key, l.cipher), m)
       \o Hmac(key, m, l.hmac) \o salt

\* vg_protect_crypt, !enc. Without a password only the form is tested, and what is to hold
\* the key is left as it is: unset.
Unprotected(data, pass, unset) ==
  LET l == Lengths(data[1])
      salt == SubSeq(data, 2 + l.cipher + l.hmac, Len(data))
      m == Material(pass, salt)
      plain == Deciphered(SubSeq(data, 2, 1 + l.cipher), m)
      key == IF data[1] = 0 THEN plain ELSE Unpadded(plain)
  IN IF data[1] \notin ParameterGroups \/ Len(data) # 1 + l.cipher + l.hmac + l.salt THEN Refused
     ELSE IF pass = NoPass THEN unset
     ELSE IF Len(key) # KeyBytes \/ Hmac(key, m, l.hmac) # SubSeq(data, 2 + l.cipher, 1 + l.cipher + l.hmac)
     THEN Refused ELSE key

\* vg_protect_encode_privkey: of the type only whether it is odd is kept.
EncodeProtected(group, key, type, pass, salt) ==
  EncodedCheck(<<IF type % 2 = 1 THEN ProtectedTest ELSE ProtectedMain>>
                 \o Protected(group, KeyBuffer(key), pass, salt))

\* vg_protect_decode_privkey: without a password, too, the key is set.
DecodeProtected(input, pass, unset) ==
  LET bytes == Decoded(input)
      key == Unprotected(SubSeq(bytes, 2, Len(bytes)), pass, unset)
  IN IF Len(bytes) < 2 \/ bytes[1] \notin {ProtectedMain, ProtectedTest} THEN NoKey
     ELSE IF key = Refused THEN NoKey
     ELSE SetPrivkey(key, 1, IF bytes[1] = ProtectedTest THEN Test ELSE Main)

-------------------------------------------------------------------------------
\* hex_dec, with digits of Nibble values; what it refuses leaves the buffer unset.
HexRead(input, unset) ==
  LET digits == SkipX(input)
  IN IF \/ Len(digits) = 0 \/ Len(digits) % 2 = 1
        \/ \E i \in DOMAIN digits : digits[i] \notin 0 .. Nibble - 1
     THEN unset
     ELSE [i \in 1 .. Len(digits) \div 2 |-> digits[2 * i - 1] * Nibble + digits[2 * i]]

\* vg_decode_privkey_any, but for PKCS #8, which the library reads
DecodeAny(currency, input, pass, unset) ==
  LET plain == DecodePrivkey(input)
      form == DecodeProtected(input, NoPass, unset)
  IN IF currency \in HexCurrency THEN SetPrivkey(HexRead(input, unset), 1, 0)
     ELSE IF plain.res # 0 THEN plain
     ELSE IF form.res # 1 THEN form
     ELSE IF pass = NoPass THEN [form EXCEPT !.res = AskPassword]
     ELSE DecodeProtected(input, pass, unset)

-------------------------------------------------------------------------------
(* What they should be *)

\* A key is read back as it was printed, the formats are told apart, and a protected key is
\* not given out without its password; provided that what the buffer happened to hold is a
\* key itself. The protected form keeps neither compression nor a type but Main and Test.
PrivkeyRight(key, types, unset) ==
  /\ \A c \in HexCurrency : DecodeAny(c, EncodePrivkey(c, key, 0), NoPass, unset).key = key
  /\ \A t \in types :
       /\ DecodeAny("BTC", EncodePrivkey("BTC", key, t), NoPass, unset) = [res |-> 1, key |-> key, type |-> t]
       /\ DecodeAny("BTC", EncodeCompressed(key, t), NoPass, unset) = [res |-> 2, key |-> key, type |-> t]
       /\ \A g \in ParameterGroups, pass \in 1 .. 2 : \A salt \in [1 .. Lengths(g).salt -> {0, 1}] :
            LET sent == EncodeProtected(g, key, t, pass, salt)
                read == DecodeAny("BTC", sent, pass, unset)
            IN /\ DecodePrivkey(sent).res = 0
               /\ DecodeAny("BTC", sent, NoPass, unset).res = AskPassword
               /\ read = [res |-> 1, key |-> key, type |-> IF t % 2 = 1 THEN Test ELSE Main]
===============================================================================
