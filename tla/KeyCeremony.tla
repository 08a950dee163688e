---------------------------- MODULE KeyCeremony ----------------------------
(***************************************************************************)
(* scripts/gen_founder_key.py: the key of the treasury is drawn on a       *)
(* machine that is offline, printed once, copied by hand, and the copy is  *)
(* judged before it is the only one.  Texts have their full length and     *)
(* base 58; the curve is y^2 = x^3 + 7 over a small field, and the two     *)
(* hashes are stand-ins that keep texts apart.                             *)
(***************************************************************************)
EXTENDS Integers, Sequences, FiniteSets

CONSTANTS Resolvers,                   \* hosts a route may be found to
          P, N, GX, GY,                \* the field, the order, the generator
          Draws,                       \* what 256 random bits may come to
          Places,                      \* of a text that a hand may get wrong
          MaxCeremonies                \* bound

VARIABLES routes,      \* resolvers the machine has a route to
          ceremony,    \* the run that makes a key
          paper,       \* keys made: what was printed and what else is known of it
          addressFile, \* what --address-out holds
          verdict,     \* of a run of --verify-backup or --selftest, which ends a behaviour
          ceremonies

keyVars == <<routes, ceremony, paper, addressFile, verdict, ceremonies>>

Nothing == <<>>
NoVerdict == [code |-> 2, text |-> Nothing, expected |-> Nothing]

\* Digits 0 .. 57 of B58: 'W' is 29, 'V' 28, 'T' 26 and 'c' 35.  58 stands for a
\* character that is not one of them, 59 for a space.
NETWORKS == [mainnet |-> [pubkey |-> 73, script |-> 135, secret |-> 190,
                          addr_char |-> 29, wif_char |-> 28],
             testnet |-> [pubkey |-> 65, script |-> 128, secret |-> 239,
                          addr_char |-> 26, wif_char |-> 35]]
Foreign == 58
Space == 59
EXPECTED_WIF_LEN == 52

-----------------------------------------------------------------------------
\* secp256k1
Infinity == <<>>

_inv(a) == LET pow[n \in 0 .. P - 2] == IF n = 0 THEN 1 ELSE (pow[n - 1] * a) % P
           IN  pow[P - 2]

_add(p1, p2) ==
  LET Chord(lam) == LET x3 == (lam * lam - p1[1] - p2[1]) % P
                    IN  <<x3, (lam * (p1[1] - x3) - p1[2]) % P>>
  IN  CASE p1 = Infinity -> p2
        [] p2 = Infinity -> p1
        [] p1 # Infinity /\ p2 # Infinity /\ p1[1] = p2[1] ->
             IF (p1[2] + p2[2]) % P = 0 THEN Infinity
             ELSE Chord((3 * p1[1] * p1[1] * _inv(2 * p1[2])) % P)
        [] OTHER -> Chord(((p2[2] - p1[2]) * _inv((p2[1] - p1[1]) % P)) % P)

\* Double-and-add, from the lowest bit.
RECURSIVE MulFrom(_, _, _)
MulFrom(k, addend, result) ==
  IF k = 0 THEN result
  ELSE MulFrom(k \div 2, _add(addend, addend),
               IF k % 2 = 1 THEN _add(result, addend) ELSE result)
_mul(k) == MulFrom(k, <<GX, GY>>, Infinity)

Zeros(n) == [i \in 1 .. n |-> 0]

\* Coordinates are below 256 here: the last byte of 32.
privkey_to_pubkey(priv, compressed) ==
  LET point == _mul(priv)
  IN  IF compressed THEN <<2 + (point[2] % 2)>> \o Zeros(31) \o <<point[1]>>
                    ELSE <<4>> \o Zeros(31) \o <<point[1]>> \o Zeros(31) \o <<point[2]>>

-----------------------------------------------------------------------------
\* Stand-ins: four bytes that depend on every byte, and twenty that tell two
\* public keys apart.
Weigh(bytes, Weight(_)) ==
  LET sum[i \in 0 .. Len(bytes)] == IF i = 0 THEN 0
                                    ELSE (sum[i - 1] + Weight(i) * bytes[i]) % 251
  IN  sum[Len(bytes)]
Checksum(payload) ==
  <<Weigh(payload, LAMBDA i : 1), Weigh(payload, LAMBDA i : i),
    Weigh(payload, LAMBDA i : i * i), Len(payload)>>
hash160(pub) == Zeros(3) \o <<pub[1], pub[33], pub[Len(pub)]>> \o Zeros(14)

\* Little-endian digits ds, times m, plus a.
RECURSIVE MulAdd(_, _, _, _)
MulAdd(ds, m, a, base) ==
  IF ds = <<>> THEN IF a = 0 THEN <<>> ELSE <<a % base>> \o MulAdd(<<>>, m, a \div base, base)
  ELSE LET t == Head(ds) * m + a
       IN  <<t % base>> \o MulAdd(Tail(ds), m, t \div base, base)

\* Big-endian digits of one base in another, least digit first, with no zeros above.
RECURSIVE Into(_, _, _, _)
Into(digits, from, base, acc) ==
  IF digits = <<>> THEN acc
  ELSE Into(Tail(digits), from, base, MulAdd(acc, from, Head(digits), base))

Reversed(s) == [i \in DOMAIN s |-> s[Len(s) + 1 - i]]
LeadingZeros(s) == Cardinality({i \in DOMAIN s : \A j \in 1 .. i : s[j] = 0})

b58check(payload) ==
  LET raw == payload \o Checksum(payload)
  IN  Zeros(LeadingZeros(raw)) \o Reversed(Into(raw, 256, 58, <<>>))

to_address(pubkey, version) == b58check(<<version>> \o hash160(pubkey))
to_wif(priv, version, compressed) ==
  b58check(<<version>> \o Zeros(31) \o <<priv>> \o (IF compressed THEN <<1>> ELSE <<>>))

-----------------------------------------------------------------------------
\* strip: the spaces at both ends.
Inner(text) == {i \in DOMAIN text : /\ \E j \in 1 .. i : text[j] # Space
                                    /\ \E j \in i .. Len(text) : text[j] # Space}
strip(text) ==
  LET ends == Inner(text)
      first == CHOOSE i \in ends : \A j \in ends : i <= j
  IN  IF ends = {} THEN Nothing ELSE SubSeq(text, first, first + Cardinality(ends) - 1)

\* What a text decodes to, or why it is malformed.
wif_to_privkey(text) ==
  LET raw == Zeros(LeadingZeros(text)) \o Reversed(Into(text, 58, 256, <<>>))
      payload == SubSeq(raw, 1, Len(raw) - 4)
  IN  IF \E i \in DOMAIN text : text[i] > 57 THEN [wrong |-> "character"]
      ELSE IF Len(raw) \notin {37, 38} THEN [wrong |-> "length"]
      ELSE IF Checksum(payload) # SubSeq(raw, Len(raw) - 3, Len(raw))
           THEN [wrong |-> "checksum"]
      ELSE [wrong |-> "nothing", version |-> payload[1],
            \* A scalar of more than the last byte is beyond the order.
            priv |-> IF SubSeq(payload, 2, 32) = Zeros(31) THEN payload[33] ELSE N,
            compressed |-> Len(payload) = 34 /\ payload[34] = 1]

\* A mutant: every key is taken for a compressed one.
Derived_Compressed(key, net) ==
  to_address(privkey_to_pubkey(key.priv, TRUE), NETWORKS[net].pubkey)
Derived(key, net) ==
  to_address(privkey_to_pubkey(key.priv, key.compressed), NETWORKS[net].pubkey)

\* The exit code: 0 a match, 1 none, 2 nothing was entered.
verify_backup(expected, text) ==
  LET wif == strip(text)
      key == wif_to_privkey(wif)
      nets == {n \in DOMAIN NETWORKS : NETWORKS[n].secret = key.version}
  IN  IF wif = Nothing THEN 2
      ELSE IF key.wrong # "nothing" THEN 1
      ELSE IF key.priv \notin 1 .. N - 1 \/ nets = {} THEN 1
      ELSE IF Derived(key, CHOOSE n \in nets : TRUE) = expected THEN 0 ELSE 1

-----------------------------------------------------------------------------
Off == [pc |-> "off"]

machine_is_online == routes # {}

Begins(network, override, addressOut) ==
  /\ ceremony = Off /\ verdict = NoVerdict
  /\ ceremonies < MaxCeremonies /\ ceremonies' = ceremonies + 1
  /\ ceremony' = [pc |-> "gate", network |-> network, override |-> override,
                  addressOut |-> addressOut]
  /\ UNCHANGED <<routes, paper, addressFile, verdict>>

\* A network route stops a key of mainnet, unless the operator insists.
offline_gate ==
  /\ ceremony.pc = "gate"
  /\ ceremony' = IF machine_is_online /\ ceremony.network = "mainnet" /\ ~ceremony.override
                 THEN Off ELSE [ceremony EXCEPT !.pc = "draw"]
  /\ UNCHANGED <<routes, paper, addressFile, verdict, ceremonies>>

\* Rejection sampling, and the two assertions before anything is shown.
Draw(bits) ==
  /\ ceremony.pc = "draw"
  /\ LET cfg == NETWORKS[ceremony.network]
         address == to_address(privkey_to_pubkey(bits, TRUE), cfg.pubkey)
         wif == to_wif(bits, cfg.secret, TRUE)
     IN  IF bits \notin 1 .. N - 1 THEN UNCHANGED <<ceremony, paper>>
         ELSE IF address[1] # cfg.addr_char \/ wif[1] # cfg.wif_char
         THEN ceremony' = Off /\ UNCHANGED paper
         ELSE /\ paper' = paper \cup {[wif |-> wif, address |-> address, priv |-> bits,
                                       network |-> ceremony.network]}
              /\ ceremony' = IF ceremony.addressOut THEN [pc |-> "file", address |-> address]
                             ELSE Off
  /\ UNCHANGED <<routes, addressFile, verdict, ceremonies>>

AddressOut ==
  /\ ceremony.pc = "file"
  /\ addressFile' = ceremony.address /\ ceremony' = Off
  /\ UNCHANGED <<routes, paper, verdict, ceremonies>>

\* What is typed for a key: its text, or one that a hand, another wallet or
\* another sheet of paper has made of it.
OtherNetwork(network) == CHOOSE n \in DOMAIN NETWORKS : n # network
Typed(key) ==
  {key.wif, <<Space>> \o key.wif \o <<Space>>, Nothing}
  \cup UNION {{[key.wif EXCEPT ![i] = (@ + 1) % 58], [key.wif EXCEPT ![i] = Foreign],
               SubSeq(key.wif, 1, i - 1) \o SubSeq(key.wif, i + 1, Len(key.wif)),
               SubSeq(key.wif, 1, i) \o SubSeq(key.wif, i, Len(key.wif))} : i \in Places}
  \cup {to_wif(key.priv, NETWORKS[key.network].secret, FALSE),
        to_wif(key.priv, NETWORKS[OtherNetwork(key.network)].secret, TRUE),
        to_wif(key.priv, 128, TRUE), to_wif(0, NETWORKS[key.network].secret, TRUE),
        to_wif(N + key.priv, NETWORKS[key.network].secret, TRUE)}

\* The address to compare with is the one of the key, or what the file holds.
Judge ==
  /\ ceremony = Off /\ verdict = NoVerdict
  /\ \E key \in paper : \E expected \in {key.address, addressFile}, text \in Typed(key) :
       verdict' = [code |-> verify_backup(expected, text), text |-> text,
                   expected |-> expected]
  /\ UNCHANGED <<routes, ceremony, paper, addressFile, ceremonies>>

Version(net, kind) == NETWORKS[net][kind]

Filled(kind, byte) ==
  [i \in 1 .. IF kind = "secret" THEN 32 ELSE 20 |-> byte]
    \o (IF kind = "secret" THEN <<1>> ELSE <<>>)

\* --selftest: the generator, and the first character of random payloads.
FirstChars(net, kind, bytes) == {b58check(<<Version(net, kind)>> \o Filled(kind, b))[1] : b \in bytes}
selftest ==
  /\ ceremony = Off /\ verdict = NoVerdict
  /\ \E bytes \in {{0, 255}, {0, 128}, {7, 255}} :
       verdict' =
         [code |->
            IF /\ _mul(1) = <<GX, GY>>
               /\ \A net \in DOMAIN NETWORKS :
                    /\ FirstChars(net, "pubkey", bytes) = {NETWORKS[net].addr_char}
                    /\ Cardinality(FirstChars(net, "script", bytes)) = 1
                    /\ FirstChars(net, "secret", bytes) = {NETWORKS[net].wif_char}
            THEN 0 ELSE 1,
          test |-> bytes]
  /\ UNCHANGED <<routes, ceremony, paper, addressFile, ceremonies>>

\* The cable, until the machine is asked.
Route == /\ ceremony.pc = "gate"
         /\ \E rs \in SUBSET Resolvers : rs # routes /\ routes' = rs
         /\ UNCHANGED <<ceremony, paper, addressFile, verdict, ceremonies>>

KeyInit ==
  /\ routes = {} /\ ceremony = Off /\ paper = {} /\ addressFile = Nothing
  /\ verdict = NoVerdict /\ ceremonies = 0

KeyNext ==
  \/ Route
  \/ \E network \in DOMAIN NETWORKS, override, addressOut \in BOOLEAN :
       Begins(network, override, addressOut)
  \/ offline_gate
  \/ \E bits \in Draws : Draw(bits)
  \/ AddressOut \/ Judge \/ selftest

-----------------------------------------------------------------------------
\* A copy passes exactly when what was typed is what was printed for the address
\* it is held against: a slip of the hand, the same scalar in another form or
\* for another network, and the key of another address never do; and the prefix
\* table holds for the least and the greatest payload and not only for a random
\* one.
BackupTellsTruth ==
  IF "test" \in DOMAIN verdict THEN verdict.code = 0
  ELSE verdict.code = 0 <=> \E key \in paper : /\ strip(verdict.text) = key.wif
                                               /\ verdict.expected = key.address

\* Every key that is printed is one the curve has, and its public half is what
\* adding the generator to itself comes to.
KeysAreOnTheCurve ==
  \A key \in paper :
    LET sum[k \in 1 .. N] == IF k = 1 THEN <<GX, GY>> ELSE _add(sum[k - 1], <<GX, GY>>)
    IN  /\ sum[N] = Infinity
        /\ _mul(key.priv) = sum[key.priv]
=============================================================================
