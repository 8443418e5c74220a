------------------------------ MODULE HashWord ------------------------------
(***************************************************************************)
(* The hash functions of src/include/utils/hashword.h: Bob Jenkins's       *)
(* lookup3 hashword / hashword2 on uint32_t, and the 64-bit FNV-1 hash     *)
(* fnv_64_buf with its unrolled two-word form hashword2(uint64_t,          *)
(* uint64_t).  A caller hashes one key at a time; the loops of hashword,   *)
(* fnv_64_buf and hashword2 are steps, so that every iteration is a state. *)
(*                                                                         *)
(* An unsigned w-bit integer is the sequence of its w/8 bytes, least       *)
(* significant first (the order fnv_64_buf reads a uint64_t's octets on a  *)
(* little-endian machine).  Arithmetic is C's: modulo 2^w.                 *)
(***************************************************************************)
EXTENDS Integers, Sequences, SequencesExt, Bitwise

CONSTANTS
  Keys32,    \* the uint32_t arrays hashword is called on
  Inits,     \* the initval arguments
  Keys64,    \* the uint64_t arrays hashword(const uint64_t *, length) hashes
  Pairs64    \* the (first, second) arguments of hashword2 on uint64_t

VARIABLES
  pc,        \* "idle", "hashword", "fnv", "hashword2_64"
  call,      \* the call being made: [fn, key, init]
  a, b, c,   \* hashword's internal state
  k,         \* the keys hashword has not consumed yet
  hval,      \* the FNV hash value
  buf,       \* the octets the FNV loop has not read yet
  i,         \* hashword2(uint64_t)'s input index
  result     \* the last call and the value it returned

vars == <<pc, call, a, b, c, k, hval, buf, i, result>>

-----------------------------------------------------------------------------
(* C unsigned arithmetic on byte sequences.                                *)

\* The n-byte word whose byte j is F(j), for n = 4 or 8 (a tuple, so that
\* its bytes are computed once).
Word(n, F(_)) ==
  IF n = 4 THEN <<F(1), F(2), F(3), F(4)>>
  ELSE <<F(1), F(2), F(3), F(4), F(5), F(6), F(7), F(8)>>

Zeros(n) == Word(n, LAMBDA j : 0)

\* x + y mod 2^(8 * Len(x)), carrying from the low byte up.
AddW(x, y) ==
  FoldLeft(LAMBDA s, j :
             [out |-> Append(s.out, (x[j] + y[j] + s.carry) % 256),
              carry |-> (x[j] + y[j] + s.carry) \div 256],
           [out |-> <<>>, carry |-> 0], [j \in 1..Len(x) |-> j]).out

NotW(x) == Word(Len(x), LAMBDA j : 255 - x[j])

SubW(x, y) == AddW(AddW(x, NotW(y)), Word(Len(x), LAMBDA j : IF j = 1 THEN 1 ELSE 0))

XorW(x, y) == Word(Len(x), LAMBDA j : x[j] ^^ y[j])

OrW(x, y) == Word(Len(x), LAMBDA j : x[j] | y[j])

\* The byte j of x, 0 outside x.
ByteAt(x, j) == IF j \in 1..Len(x) THEN x[j] ELSE 0

\* x << s and x >> s, for 0 <= s < 8 * Len(x).
ShlW(x, s) ==
  LET q == s \div 8  r == s % 8 IN
  Word(Len(x), LAMBDA j : ((ByteAt(x, j - q) * 2^r) % 256)
                          + (ByteAt(x, j - q - 1) \div 2^(8 - r)))

ShrW(x, s) ==
  LET q == s \div 8  r == s % 8 IN
  Word(Len(x), LAMBDA j : (ByteAt(x, j + q) \div 2^r)
                          + ((ByteAt(x, j + q + 1) * 2^(8 - r)) % 256))

\* The uint32_t of a natural number below 2^31 (a small literal).
U32(n) == Word(4, LAMBDA j : (n \div 2^(8 * (j - 1))) % 256)

-----------------------------------------------------------------------------
(* lookup3 (hashword.h:46-94).                                             *)

rot(x, s) == OrW(ShlW(x, s), ShrW(x, 32 - s))

\* mix's lines "x -= y; x ^= rot(y, s); y += z;" as <<x, y, z, s>>, with
\* a, b, c numbered 1, 2, 3, applied in order to the triple <<a, b, c>>.
MixLines ==
  << <<1, 3, 2, 4>>, <<2, 1, 3, 6>>, <<3, 2, 1, 8>>,
     <<1, 3, 2, 16>>, <<2, 1, 3, 19>>, <<3, 2, 1, 4>> >>

MixLine(abc, l) ==
  [abc EXCEPT ![l[1]] = XorW(SubW(abc[l[1]], abc[l[2]]), rot(abc[l[2]], l[4])),
              ![l[2]] = AddW(abc[l[2]], abc[l[3]])]

mix(abc) == FoldLeft(MixLine, abc, MixLines)

\* final_mix's lines "x ^= y; x -= rot(y, s);" as <<x, y, s>>.
FinalMixLines ==
  << <<3, 2, 14>>, <<1, 3, 11>>, <<2, 1, 25>>, <<3, 2, 16>>,
     <<1, 3, 4>>, <<2, 1, 14>>, <<3, 2, 24>> >>

FinalLine(abc, l) ==
  [abc EXCEPT ![l[1]] = SubW(XorW(abc[l[1]], abc[l[2]]), rot(abc[l[2]], l[3]))]

final_mix(abc) == FoldLeft(FinalLine, abc, FinalMixLines)

Deadbeef == <<239, 190, 173, 222>>

\* Mutant: the length not scaled by 4.
HashwordSetupNoShift(length, initval) ==
  AddW(AddW(Deadbeef, U32(length)), initval)

\* a = b = c = 0xdeadbeef + ((uint32_t) length << 2) + initval
HashwordSetup(length, initval) ==
  AddW(AddW(Deadbeef, ShlW(U32(length), 2)), initval)

\* hashword2(first, second, initval) on uint32_t (hashword.h:214-227).
hashword2(first, second, initval) ==
  LET s == AddW(AddW(Deadbeef, U32(8)), initval)
  IN final_mix(<<AddW(s, first), AddW(s, second), s>>)[3]

-----------------------------------------------------------------------------
(* FNV-1 (hashword.h:109-138).                                             *)

FnvOffsetBasis == <<37, 35, 34, 132, 228, 156, 242, 203>>  \* 0xcbf29ce484222325

\* Mutant: the 2^40 term of the prime left out.
FnvShiftSumNo40(h) ==
  AddW(h, AddW(AddW(AddW(AddW(ShlW(h, 1), ShlW(h, 4)), ShlW(h, 5)),
                    ShlW(h, 7)), ShlW(h, 8)))

\* hval += (hval<<1) + (hval<<4) + (hval<<5) + (hval<<7) + (hval<<8) + (hval<<40)
FnvShiftSum(h) ==
  AddW(h, AddW(AddW(AddW(AddW(AddW(ShlW(h, 1), ShlW(h, 4)), ShlW(h, 5)),
                               ShlW(h, 7)), ShlW(h, 8)), ShlW(h, 40)))

\* hval ^= (uint64_t) octet
FnvOctet(h, octet) == XorW(FnvShiftSum(h), <<octet>> \o Zeros(7))

\* fnv_64_buf(buf, len), as a fold over the octets.
fnv_64_buf(octets) == FoldLeft(FnvOctet, FnvOffsetBasis, octets)

\* The octets of an array of uint64_t, as they lie in memory.
Octets(words) == FoldLeft(LAMBDA s, w : s \o w, <<>>, words)

-----------------------------------------------------------------------------

Init ==
  /\ pc = "idle"
  /\ call = [fn |-> "none"]
  /\ a = Zeros(4) /\ b = Zeros(4) /\ c = Zeros(4) /\ k = <<>>
  /\ hval = Zeros(8) /\ buf = <<>> /\ i = 0
  /\ result = [call |-> [fn |-> "none"], value |-> <<>>]

\* hashword(k, length, initval), hashword.h:157-163: set up the state.
CallHashword ==
  /\ pc = "idle"
  /\ \E key \in Keys32, init \in Inits :
       /\ call' = [fn |-> "hashword", key |-> key, init |-> init]
       /\ a' = HashwordSetup(Len(key), init)
       /\ b' = HashwordSetup(Len(key), init)
       /\ c' = HashwordSetup(Len(key), init)
       /\ k' = key
  /\ pc' = "hashword"
  /\ UNCHANGED <<hval, buf, i, result>>

\* Lines 166-174: while (length > 3) add three keys and mix.
HashwordBlock ==
  /\ pc = "hashword"
  /\ Len(k) > 3
  /\ LET m == mix(<<AddW(a, k[1]), AddW(b, k[2]), AddW(c, k[3])>>) IN
       /\ a' = m[1] /\ b' = m[2] /\ c' = m[3]
  /\ k' = SubSeq(k, 4, Len(k))
  /\ UNCHANGED <<pc, call, hval, buf, i, result>>

\* Lines 177-191: the fall-through switch on the last 0..3 keys.
HashwordTail ==
  /\ pc = "hashword"
  /\ Len(k) <= 3
  /\ LET c1 == IF Len(k) = 3 THEN AddW(c, k[3]) ELSE c
         b1 == IF Len(k) >= 2 THEN AddW(b, k[2]) ELSE b
         a1 == IF Len(k) >= 1 THEN AddW(a, k[1]) ELSE a
         out == IF Len(k) = 0 THEN <<a, b, c>> ELSE final_mix(<<a1, b1, c1>>)
     IN /\ a' = out[1] /\ b' = out[2] /\ c' = out[3]
        /\ result' = [call |-> call, value |-> out[3]]
  /\ k' = <<>>
  /\ pc' = "idle"
  /\ UNCHANGED <<call, hval, buf, i>>

\* hashword(const uint64_t * k, length) = fnv_64_buf(k, 8 * length)
\* (lines 274-278, 109-119).
CallHashword64 ==
  /\ pc = "idle"
  /\ \E key \in Keys64 :
       /\ call' = [fn |-> "hashword64", key |-> key]
       /\ buf' = Octets(key)
  /\ hval' = FnvOffsetBasis
  /\ pc' = "fnv"
  /\ UNCHANGED <<a, b, c, k, i, result>>

\* Lines 121-134: one octet of the FNV-1 loop.
FnvStep ==
  /\ pc \in {"fnv", "hashword2_64"}
  /\ buf # <<>>
  /\ hval' = FnvOctet(hval, Head(buf))
  /\ buf' = Tail(buf)
  /\ UNCHANGED <<pc, call, a, b, c, k, i, result>>

\* Lines 121, 137: the buffer is read; return hval.
FnvReturn ==
  /\ pc = "fnv"
  /\ buf = <<>>
  /\ result' = [call |-> call, value |-> hval]
  /\ pc' = "idle"
  /\ UNCHANGED <<call, a, b, c, k, hval, buf, i>>

\* hashword2(uint64_t first, uint64_t second), lines 237-249: i = 0, the
\* octets of first.
CallHashword2_64 ==
  /\ pc = "idle"
  /\ \E p \in Pairs64 :
       /\ call' = [fn |-> "hashword2_64", key |-> p]
       /\ buf' = p[1]
  /\ hval' = FnvOffsetBasis
  /\ i' = 0
  /\ pc' = "hashword2_64"
  /\ UNCHANGED <<a, b, c, k, result>>

\* Mutant: the loop stops after first.
Hashword2OneInput ==
  /\ pc = "hashword2_64"
  /\ buf = <<>>
  /\ result' = [call |-> call, value |-> hval]
  /\ pc' = "idle"
  /\ UNCHANGED <<call, a, b, c, k, hval, buf, i>>

\* Lines 243-250: ++i, then the octets of second, or return when i == 2.
Hashword2NextInput ==
  /\ pc = "hashword2_64"
  /\ buf = <<>>
  /\ \/ /\ i + 1 # 2
        /\ i' = i + 1
        /\ buf' = call.key[2]
        /\ UNCHANGED <<pc, result>>
     \/ /\ i + 1 = 2
        /\ result' = [call |-> call, value |-> hval]
        /\ pc' = "idle"
        /\ UNCHANGED <<i, buf>>
  /\ UNCHANGED <<call, a, b, c, k, hval>>

Next ==
  \/ CallHashword \/ HashwordBlock \/ HashwordTail
  \/ CallHashword64 \/ FnvStep \/ FnvReturn
  \/ CallHashword2_64 \/ Hashword2NextInput

Spec == Init /\ [][Next]_vars

-----------------------------------------------------------------------------

Byte == 0..255

\* Reference: FNV-1 as its definition states it, hval = (hval * FNV_Prime)
\* mod 2^64 then hval ^= octet, with FNV_Prime = 1099511628211
\* (0x100000001b3) multiplied out byte by byte.
FnvPrime == <<179, 1, 0, 0, 0, 1, 0, 0>>

\* Column j of the schoolbook product x * y.
Column(x, y, j) == FoldLeft(LAMBDA t, l : t + x[l] * y[j - l + 1], 0, [l \in 1..j |-> l])

MulW(x, y) ==
  FoldLeft(LAMBDA s, j :
             [out |-> Append(s.out, (s.carry + Column(x, y, j)) % 256),
              carry |-> (s.carry + Column(x, y, j)) \div 256],
           [out |-> <<>>, carry |-> 0], [j \in 1..Len(x) |-> j]).out

Fnv1(octets) ==
  FoldLeft(LAMBDA h, o : XorW(MulW(h, FnvPrime), <<o>> \o Zeros(7)),
           FnvOffsetBasis, octets)

\* hashword on two keys returns what hashword2, "a hard-coded version of
\* hashword for hashing exactly 2 numbers" (hashword.h:206-213), returns.
HashwordOfTwoIsHashword2 ==
  result.call.fn = "hashword" /\ Len(result.call.key) = 2
    => result.value = hashword2(result.call.key[1], result.call.key[2],
                                result.call.init)

\* The shift-and-add loop of fnv_64_buf computes FNV-1, "hval *= FNV_Prime"
\* (comment at hashword.h:123-127), over the octets of the uint64_t array.
Hashword64IsFnv1 ==
  result.call.fn = "hashword64" => result.value = Fnv1(Octets(result.call.key))

\* hashword2(uint64_t, uint64_t) "computes the same hash as calling
\* fnv_64_buf() with exactly two entries" (hashword.h:229-230).
Hashword2_64IsFnvBuf ==
  result.call.fn = "hashword2_64"
    => result.value = fnv_64_buf(result.call.key[1] \o result.call.key[2])

==============================================================================
