------------------------------ MODULE MCRunner ------------------------------
(***************************************************************************)
(* Four requests on the HPU model runner.  The prompt  of the third is the *)
(* prompt of the first with its first answer token, so that with prefix    *)
(* caching it hits a block that a decode of the first completes.           *)
(***************************************************************************)
EXTENDS HPUModelRunner

MCReq == 1..4
MCTokens == <<<<"a", "b", "c", "x", "y", "z">>, <<"a", "b", "d", "e", "u", "v">>,
              <<"a", "b", "c", "x", "t", "s">>, <<"f", "g", "h", "i">>>>
MCPromptLen == <<3, 3, 5, 2>>
MCMaxTokens == <<3, 3, 1, 2>>
MCNoInputs == [r \in Req |-> << >>]
MCNoLora == [r \in Req |-> 0]

MCHashes ==
  UNION {{SubSeq(Tokens[r], 1, BlockSize * i) : i \in 1..(Len(Tokens[r]) \div BlockSize)} :
           r \in Req}
=============================================================================
