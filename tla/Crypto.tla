------------------------------- MODULE Crypto -------------------------------
(***************************************************************************)
(* SHA-256, HMAC and the comparison of secrets (guardian_crypto.c), on the *)
(* real 64-byte blocks and 32-bit words.  A word is the tuple of its four  *)
(* bytes, the most significant first, so that reading and writing a word   *)
(* in network order is taking a tuple apart.  Clearing memory after use is *)
(* left out: nothing reads it again.                                       *)
(***************************************************************************)
EXTENDS Integers, Sequences
LOCAL INSTANCE Bitwise

CONSTANTS Pieces,     \* lengths of the pieces a message is fed in
          MaxLength,  \* longest message
          Keys        \* lengths of the keys

VARIABLES context,  \* guardian_sha256_context_t
          fed,      \* history: length of the message so far
          digest,   \* the digest of the message, once final was called
          macs      \* codes computed, with the lengths of key and data

cryptoVars == << context, fed, digest, macs >>

BLOCK_SIZE == 64
LENGTH_AT == 56   \* where the 64-bit length starts in the last block

XorTable == [a \in 0 .. 255 |-> [b \in 0 .. 255 |-> a ^^ b]]
AndTable == [a \in 0 .. 255 |-> [b \in 0 .. 255 |-> a & b]]

Halves(h) == << h[1] \div 256, h[1] % 256, h[2] \div 256, h[2] % 256 >>
XorWord(a, b) == [i \in 1 .. 4 |-> XorTable[a[i]][b[i]]]
AndWord(a, b) == [i \in 1 .. 4 |-> AndTable[a[i]][b[i]]]
NotWord(a) == [i \in 1 .. 4 |-> 255 - a[i]]

\* Sum modulo 2^32.
Add(a, b) ==
  LET s4 == a[4] + b[4]
      s3 == a[3] + b[3] + s4 \div 256
      s2 == a[2] + b[2] + s3 \div 256
      s1 == a[1] + b[1] + s2 \div 256
  IN << s1 % 256, s2 % 256, s3 % 256, s4 % 256 >>

\* The word shifted right by n bits, what falls in on the left being `fill'.
Shifted(w, n, fill) ==
  LET at(i) == IF i > 0 THEN w[i] ELSE fill[i + 4]
      q == n \div 8
      low == 2^(n % 8)
  IN [i \in 1 .. 4 |-> at(i - q) \div low + (at(i - q - 1) % low) * (256 \div low)]

rotr(w, n) == Shifted(w, n, w)
shr(w, n) == Shifted(w, n, << 0, 0, 0, 0 >>)

sha256_k ==
  << << \h428A, \h2F98 >>, << \h7137, \h4491 >>, << \hB5C0, \hFBCF >>, << \hE9B5, \hDBA5 >>,
    << \h3956, \hC25B >>, << \h59F1, \h11F1 >>, << \h923F, \h82A4 >>, << \hAB1C, \h5ED5 >>,
    << \hD807, \hAA98 >>, << \h1283, \h5B01 >>, << \h2431, \h85BE >>, << \h550C, \h7DC3 >>,
    << \h72BE, \h5D74 >>, << \h80DE, \hB1FE >>, << \h9BDC, \h06A7 >>, << \hC19B, \hF174 >>,
    << \hE49B, \h69C1 >>, << \hEFBE, \h4786 >>, << \h0FC1, \h9DC6 >>, << \h240C, \hA1CC >>,
    << \h2DE9, \h2C6F >>, << \h4A74, \h84AA >>, << \h5CB0, \hA9DC >>, << \h76F9, \h88DA >>,
    << \h983E, \h5152 >>, << \hA831, \hC66D >>, << \hB003, \h27C8 >>, << \hBF59, \h7FC7 >>,
    << \hC6E0, \h0BF3 >>, << \hD5A7, \h9147 >>, << \h06CA, \h6351 >>, << \h1429, \h2967 >>,
    << \h27B7, \h0A85 >>, << \h2E1B, \h2138 >>, << \h4D2C, \h6DFC >>, << \h5338, \h0D13 >>,
    << \h650A, \h7354 >>, << \h766A, \h0ABB >>, << \h81C2, \hC92E >>, << \h9272, \h2C85 >>,
    << \hA2BF, \hE8A1 >>, << \hA81A, \h664B >>, << \hC24B, \h8B70 >>, << \hC76C, \h51A3 >>,
    << \hD192, \hE819 >>, << \hD699, \h0624 >>, << \hF40E, \h3585 >>, << \h106A, \hA070 >>,
    << \h19A4, \hC116 >>, << \h1E37, \h6C08 >>, << \h2748, \h774C >>, << \h34B0, \hBCB5 >>,
    << \h391C, \h0CB3 >>, << \h4ED8, \hAA4A >>, << \h5B9C, \hCA4F >>, << \h682E, \h6FF3 >>,
    << \h748F, \h82EE >>, << \h78A5, \h636F >>, << \h84C8, \h7814 >>, << \h8CC7, \h0208 >>,
    << \h90BE, \hFFFA >>, << \hA450, \h6CEB >>, << \hBEF9, \hA3F7 >>, << \hC671, \h78F2 >> >>

sha256_h ==
  << << \h6A09, \hE667 >>, << \hBB67, \hAE85 >>, << \h3C6E, \hF372 >>, << \hA54F, \hF53A >>,
     << \h510E, \h527F >>, << \h9B05, \h688C >>, << \h1F83, \hD9AB >>, << \h5BE0, \hCD19 >> >>

sha256_init ==
  [state |-> [i \in 1 .. 8 |-> Halves(sha256_h[i])], buffer |-> << >>, total |-> 0]
---------------------------------------------------------------------------
RECURSIVE Schedule(_)
Schedule(w) ==
  IF Len(w) = 64 THEN w
  ELSE LET i == Len(w) + 1
           x == w[i - 15]
           y == w[i - 2]
           s0 == XorWord(XorWord(rotr(x, 7), rotr(x, 18)), shr(x, 3))
           s1 == XorWord(XorWord(rotr(y, 17), rotr(y, 19)), shr(y, 10))
       IN Schedule(Append(w, Add(Add(w[i - 16], s0), Add(w[i - 7], s1))))

\* One round on the working variables v = << a, b, ..., h >>.
Sigma1(e) == XorWord(XorWord(rotr(e, 6), rotr(e, 11)), rotr(e, 25))
Choice(e, f, g) == XorWord(AndWord(e, f), AndWord(NotWord(e), g))
Sigma0(a) == XorWord(XorWord(rotr(a, 2), rotr(a, 13)), rotr(a, 22))
Majority(a, b, c) == XorWord(XorWord(AndWord(a, b), AndWord(a, c)), AndWord(b, c))

Rotated(v, temp1, temp2) ==
  << Add(temp1, temp2), v[1], v[2], v[3], Add(v[4], temp1), v[5], v[6], v[7] >>

Round(v, k, w) ==
  Rotated(v, Add(Add(Add(v[8], Sigma1(v[5])), Add(Choice(v[5], v[6], v[7]), Halves(k))), w),
             Add(Sigma0(v[1]), Majority(v[1], v[2], v[3])))

\* Rounds i to 64.  (The comparison with << >> makes TLC evaluate v.)
RECURSIVE Rounds(_, _, _)
Rounds(v, w, i) ==
  IF v = << >> \/ i > 64 THEN v ELSE Rounds(Round(v, sha256_k[i], w[i]), w, i + 1)

sha256_transform(state, block) ==
  LET w == Schedule([i \in 1 .. 16 |-> SubSeq(block, 4 * i - 3, 4 * i)])
      v == Rounds(state, w, 1)
  IN [i \in 1 .. 8 |-> Add(state[i], v[i])]

(* Bytes go to the buffer; a full buffer is transformed and starts over.   *)
RECURSIVE Consume(_, _)
Consume(c, data) ==
  IF data = << >> THEN c
  ELSE LET available == BLOCK_SIZE - Len(c.buffer)
           copy == IF Len(data) < available THEN Len(data) ELSE available
           buffer == c.buffer \o SubSeq(data, 1, copy)
           rest == SubSeq(data, copy + 1, Len(data))
       IN Consume(IF Len(buffer) = BLOCK_SIZE
                    THEN [c EXCEPT !.state = sha256_transform(@, buffer), !.buffer = << >>]
                    ELSE [c EXCEPT !.buffer = buffer], rest)

sha256_update(c, data) == Consume([c EXCEPT !.total = @ + Len(data)], data)

Zeros(n) == [i \in 1 .. n |-> 0]

\* The bit length as eight bytes; messages are far shorter than 2^28 bytes.
LengthBytes(total) ==
  LET bits == total * 8
  IN << 0, 0, 0, 0, bits \div 2^24, (bits \div 2^16) % 256, (bits \div 256) % 256, bits % 256 >>

\* Mutant: a message that leaves room for the length is given another block.
length_fits_strict(used) == used < LENGTH_AT

length_fits(used) == used <= LENGTH_AT

Serialized(state) == [i \in 1 .. 32 |-> state[(i + 3) \div 4][1 + ((i - 1) % 4)]]

\* The last block: what is buffered, zeros, the length.
FinalBlock(c) ==
  Serialized(sha256_transform(c.state,
    c.buffer \o Zeros(LENGTH_AT - Len(c.buffer)) \o LengthBytes(c.total)))

sha256_final(c) ==
  LET marked == Append(c.buffer, 128)
  IN FinalBlock(IF length_fits(Len(marked)) THEN [c EXCEPT !.buffer = marked]
                ELSE [c EXCEPT !.state = sha256_transform(@, marked \o Zeros(BLOCK_SIZE - Len(marked))),
                               !.buffer = << >>])

sha256(data) == sha256_final(sha256_update(sha256_init, data))

(* HMAC.  A key longer than a block is replaced by its digest.             *)
ZeroFilled(k) == k \o Zeros(BLOCK_SIZE - Len(k))

key_block(key) == ZeroFilled(IF Len(key) > BLOCK_SIZE THEN sha256(key) ELSE key)

Pad(block, byte) == [i \in 1 .. BLOCK_SIZE |-> XorTable[block[i]][byte]]

\* The digest of a padded key followed by data, fed in two pieces.
keyed_digest(block, byte, data) ==
  sha256_final(sha256_update(sha256_update(sha256_init, Pad(block, byte)), data))

hmac_with(block, data) == keyed_digest(block, \h5C, keyed_digest(block, \h36, data))

hmac_sha256(key, data) == hmac_with(key_block(key), data)

(* The differences of all bytes, or-ed; nothing equals nothing.            *)
constant_time_equal(left, right, length) ==
  length # 0 /\ \A i \in 1 .. length : XorTable[left[i]][right[i]] = 0
---------------------------------------------------------------------------
(* The message of length n: a, b, c, ...                                   *)
Message(n) == [i \in 1 .. n |-> (96 + i) % 256]

CryptoInit == context = sha256_init /\ fed = 0 /\ digest = {} /\ macs = {}

Update ==
  /\ digest = {} /\ macs = {}
  /\ \E n \in Pieces :
       /\ fed + n <= MaxLength
       /\ context' = sha256_update(context, SubSeq(Message(fed + n), fed + 1, fed + n))
       /\ fed' = fed + n
  /\ UNCHANGED << digest, macs >>

Final ==
  /\ digest = {} /\ macs = {}
  /\ digest' = {sha256_final(context)}
  /\ UNCHANGED << context, fed, macs >>

Mac ==
  /\ fed = 0 /\ digest = {} /\ macs = {}
  /\ \E k \in Keys, n \in Pieces :
       macs' = {[key |-> k, data |-> n, code |-> hmac_sha256(Message(k), Message(n))]}
  /\ UNCHANGED << context, fed, digest >>

\* The next call starts from a fresh context.
Begin ==
  /\ digest # {} \/ macs # {}
  /\ context' = sha256_init /\ fed' = 0 /\ digest' = {} /\ macs' = {}

CryptoNext == Update \/ Final \/ Mac \/ Begin
---------------------------------------------------------------------------
(* The hash of a whole message, as the standard defines it: the message, a *)
(* one bit, as few zeros as fill up the last block, and the length.        *)
Padded(m) ==
  LET zeros == CHOOSE z \in 0 .. BLOCK_SIZE - 1 : (Len(m) + 1 + z + 8) % BLOCK_SIZE = 0
  IN m \o << 128 >> \o Zeros(zeros) \o LengthBytes(Len(m))

RECURSIVE Chained(_, _)
Chained(state, padded) ==
  IF padded = << >> THEN state
  ELSE Chained(sha256_transform(state, SubSeq(padded, 1, BLOCK_SIZE)),
               SubSeq(padded, BLOCK_SIZE + 1, Len(padded)))

Standard(m) == Serialized(Chained(sha256_init.state, Padded(m)))

NestedMac(block, data) == Standard(Pad(block, \h5C) \o Standard(Pad(block, \h36) \o data))

StandardMac(key, data) ==
  NestedMac(ZeroFilled(IF Len(key) > BLOCK_SIZE THEN Standard(key) ELSE key), data)

(* The first bytes of the published digests of the empty message, of abc   *)
(* (security_host_test.c) and of the alphabet.                             *)
Published ==
  [n \in {0, 3, 26} |->
     CASE n = 0 -> << \hE3, \hB0, \hC4, \h42 >>
       [] n = 3 -> << \hBA, \h78, \h16, \hBF >>
       [] OTHER -> << \h71, \hC4, \h80, \hDF >>]

(* Whatever pieces a message comes in, wherever they end in a block, the   *)
(* digest is that of the whole message; and a code is the HMAC of its key  *)
(* and data, keys longer than a block included, by the comparison the      *)
(* device itself uses (guardian_sha256_update, guardian_sha256_final,      *)
(* guardian_hmac_sha256, guardian_crypto_constant_time_equal).             *)
DigestsAreStandard ==
  /\ \A d \in digest :
       /\ d = Standard(Message(fed))
       /\ fed \in DOMAIN Published => SubSeq(d, 1, 4) = Published[fed]
  /\ \A m \in macs :
       constant_time_equal(m.code, StandardMac(Message(m.key), Message(m.data)), 32)
=============================================================================
