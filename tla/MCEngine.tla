------------------------------ MODULE MCEngine ------------------------------
(***************************************************************************)
(* Instances of the engine core.  Blocks hold two tokens.  The first three *)
(* requests of MCTokens have a block in common, the first two a token more;*)
(* with four or five usable blocks, two or three requests run until they   *)
(* grow, so that they are preempted and resume, with and without hits.     *)
(* The configurations choose which requests have structured output, remote *)
(* blocks, encoder inputs and LoRAs.                                       *)
(***************************************************************************)
EXTENDS EngineCore

MCReq == 1..4
MCReqThree == 1..3
MCTokens == <<<<"a", "b", "c", "x", "y", "z">>, <<"a", "b", "c", "d", "u", "v">>,
              <<"a", "b", "g", "h", "i", "j">>, <<"e", "f", "g", "h">>>>
MCPromptLen == <<3, 4, 3, 3>>
MCMaxTokens == <<3, 2, 3, 1>>

\* The same with fewer tokens to generate, where there are transfers as well.
MCTokensShort == [MCTokens EXCEPT ![1] = SubSeq(@, 1, 4), ![2] = SubSeq(@, 1, 5)]
MCMaxTokensShort == <<1, 1, 3, 1>>

\* Two longer requests with a block in common, for speculative decoding.
MCReqTwo == 1..2
MCTokensTwo == <<<<"a", "b", "c", "x", "y", "z", "s", "t">>,
                 <<"a", "b", "c", "d", "u", "v", "s", "t">>>>
MCPromptLenTwo == <<3, 3>>
MCMaxTokensTwo == <<5, 5>>

\* The inputs of the encoder: one that spans two chunks of its prompt, two inputs in
\* one prompt, and one at the start.
MCInputs == <<<<[offset |-> 1, length |-> 2]>>,
              <<[offset |-> 0, length |-> 1], [offset |-> 1, length |-> 2]>>,
              <<[offset |-> 0, length |-> 2]>>, << >>>>
MCInputsThree == SubSeq(MCInputs, 1, 3)
MCInputsLast == <<<<[offset |-> 1, length |-> 2]>>, << >>, <<[offset |-> 0, length |-> 2]>>, << >>>>
MCLora == <<1, 0, 2, 2>>

MCNoInputs == [r \in Req |-> << >>]
MCNoLora == [r \in Req |-> 0]

MCHashes ==
  UNION {{SubSeq(Tokens[r], 1, BlockSize * i) : i \in 1..(Len(Tokens[r]) \div BlockSize)} :
           r \in Req}
=============================================================================
