----------------------------- MODULE MCHashWord -----------------------------
(***************************************************************************)
(* Keys for model checking the hash functions: lengths that take every    *)
(* branch of hashword's loop and switch, and words at the edges of uint32 *)
(* and uint64 (0, 1, 2^31, 2^32 - 1, all bytes distinct).                  *)
(***************************************************************************)
EXTENDS HashWord

W0 == U32(0)
W1 == U32(1)
WTop == <<0, 0, 0, 128>>          \* 0x80000000
WMax == <<255, 255, 255, 255>>    \* 0xffffffff
WMix == <<4, 3, 2, 1>>            \* 0x01020304

MCKeys32 ==
  { <<>>, <<WMax>>, <<W1, WMax>>, <<WTop, W0>>, <<W1, WTop, WMax>>,
    <<WMix, W1, WTop, WMax>>, <<W0, W1, WMix, WTop, WMax, W1>>,
    <<W1, W1, W1, W1, W1, W1, W1>> }

MCInits == { W0, WMax }

D0 == Zeros(8)
DMax == [j \in 1..8 |-> 255]
DMix == <<8, 7, 6, 5, 4, 3, 2, 1>>

MCKeys64 == { <<>>, <<DMax>>, <<DMix, D0>> }

MCPairs64 == { <<D0, DMax>>, <<DMix, DMax>> }

==============================================================================
