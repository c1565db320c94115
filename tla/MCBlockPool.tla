---------------------------- MODULE MCBlockPool ----------------------------
\* Three requests: two share their first two blocks, the third the first one.
EXTENDS BlockPool, TLC

CONSTANTS r1, r2, r3, h1, h2, h3, k2

MCHashOf == (r1 :> <<h1, h2>>) @@ (r2 :> <<h1, h2, h3>>) @@ (r3 :> <<h1, k2>>)
=============================================================================
