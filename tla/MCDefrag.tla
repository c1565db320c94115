------------------------------ MODULE MCDefrag ------------------------------
\* Two requests on a KV cache of three blocks besides the null block.
EXTENDS OnlineDefragmenter, TLC

CONSTANTS r1, r2

Symmetric == Permutations(Req)
=============================================================================
