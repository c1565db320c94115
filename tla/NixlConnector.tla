---------------------------- MODULE NixlConnector ----------------------------
(***************************************************************************)
(* The transfer of KV caches between a prefill and a decode engine         *)
(* (vllm/distributed/kv_transfer/kv_connector/v1/nixl_connector.py), as    *)
(* operators on two values.  The scheduler side has                        *)
(*                                                                         *)
(*   do_remote_prefill   the requests whose prompt is still to be fetched  *)
(*   reqs_need_recv      transfers to start: records [req, blocks]         *)
(*   finished_recving    finished_recving_kv_req_ids of the scheduler      *)
(*                                                                         *)
(* and the worker side, over the tensor parallel ranks,                    *)
(*                                                                         *)
(*   recving             <<k, r>>: rank k is fetching the blocks of r      *)
(*   arrived             those of them whose state is DONE                 *)
(*   target              [Req -> SUBSET Blocks]: what a transfer writes    *)
(*   read                <<k, r>>: the other engine has read r from rank k *)
(*   notifs              those of them rank k has not looked at yet        *)
(*   done_recving_count, done_sending_count   kept by the first rank       *)
(*                                                                         *)
(* Both engines have the same number of ranks, so that one notification    *)
(* per rank is waited for.                                                 *)
(***************************************************************************)
EXTENDS KVCacheManager

CONSTANTS PromptLen,       \* [Req -> Nat]: num_prompt_tokens
          RemotePrefill,   \* the requests that come with do_remote_prefill
          RemoteDecode,    \* the requests that come with do_remote_decode
          TPSize           \* world_size of the tensor parallel group

ASSUME ConnectorAssumption ==
  /\ RemotePrefill \subseteq Req /\ RemoteDecode \subseteq Req
  /\ RemotePrefill \cap RemoteDecode = {}
  /\ TPSize \in Nat \ {0}

Ranks == 1..TPSize
FirstRank == 1

-----------------------------------------------------------------------------
\* The scheduler side.
InitConnector ==
  [do_remote_prefill |-> RemotePrefill, reqs_need_recv |-> {}, finished_recving |-> {}]

\* get_num_new_matched_tokens: the prompt tokens in full blocks beyond the local
\* hits; if there are any, they are loaded asynchronously.
round_down(n) == BlockSize * (n \div BlockSize)
num_external_computed_tokens(c, r, local) ==
  IF r \in c.do_remote_prefill /\ round_down(PromptLen[r]) > local
  THEN round_down(PromptLen[r]) - local ELSE 0

\* update_state_after_alloc, with the unhashed blocks of an asynchronous load, or
\* with none: then the other engine is only told that its blocks are not needed.
update_state_after_alloc(c, r, blocks) ==
  IF r \notin c.do_remote_prefill THEN c
  ELSE [c EXCEPT !.do_remote_prefill = @ \ {r},
                 !.reqs_need_recv = IF PromptLen[r] < BlockSize THEN @
                                    ELSE @ \cup {[req |-> r, blocks |-> blocks]}]

\* The number of tokens _update_waiting_for_remote_kv takes as computed; the last
\* token is computed again, for its logits.
remote_computed_tokens_All(k, r, num_tokens) ==
  AtMost(BlockSize * Len(k.req_to_blocks[r]), num_tokens)
remote_computed_tokens(k, r, num_tokens) ==
  LET n == AtMost(BlockSize * Len(k.req_to_blocks[r]), num_tokens)
  IN IF n = num_tokens THEN n - 1 ELSE n

\* request_finished: whether the blocks stay until the other engine has read them.
request_finished(k, r, length_capped, computed) ==
  /\ r \in RemoteDecode
  /\ length_capped
  /\ Len(k.req_to_blocks[r]) > IF computed % BlockSize = 0 THEN 0 ELSE 1

-----------------------------------------------------------------------------
\* The worker side.
InitTransfers ==
  [recving |-> {}, arrived |-> {}, target |-> [r \in Req |-> {}], read |-> {}, notifs |-> {},
   done_recving_count |-> [r \in Req |-> 0], done_sending_count |-> [r \in Req |-> 0]]

\* start_load_kv and _read_blocks on every rank.
BlocksToRead(loads, r) == UNION {m.blocks : m \in {l \in loads : l.req = r}}
start_load_kv(x, meta) ==
  LET loads == {m \in meta : m.blocks # {}}
  IN [x EXCEPT !.recving = @ \cup (Ranks \X {m.req : m \in loads}),
               !.target = [r \in Req |-> BlocksToRead(loads, r) \cup @[r]]]

\* get_finished: each rank takes its finished transfers and notifications, the
\* other ranks send their ids to the first, which counts them: an id it receives
\* itself, or has counted as received, as received, any other as sent.
AllDone_Any(count) == count > 0
AllDone(count) == count = TPSize
get_finished(x) ==
  LET left == x.recving \ x.arrived
      first(S, r) == IF <<FirstRank, r>> \in S THEN 1 ELSE 0
      recv == [r \in Req |-> x.done_recving_count[r] + first(x.arrived, r)]
      send == [r \in Req |-> x.done_sending_count[r] + first(x.notifs, r)]
      others(r) == Cardinality({k \in Ranks \ {FirstRank} :
                                  <<k, r>> \in x.arrived \cup x.notifs})
      is_recving(r) == recv[r] > 0 \/ <<FirstRank, r>> \in left
      all_recv == [r \in Req |-> recv[r] + IF is_recving(r) THEN others(r) ELSE 0]
      all_send == [r \in Req |-> send[r] + IF is_recving(r) THEN 0 ELSE others(r)]
      done(count) == {r \in Req : AllDone(count[r])}
  IN [recving |-> done(all_recv), sending |-> done(all_send),
      transfers |->
        [x EXCEPT !.recving = left, !.arrived = {}, !.notifs = {},
                  !.target = [r \in Req |-> IF r \in done(all_recv) THEN {} ELSE @[r]],
                  !.done_recving_count =
                     [r \in Req |-> IF r \in done(all_recv) THEN 0 ELSE all_recv[r]],
                  !.done_sending_count =
                     [r \in Req |-> IF r \in done(all_send) THEN 0 ELSE all_send[r]]]]

\* The other side of NIXL: a transfer into rank k is complete; the other engine
\* has read the blocks of r from rank k and notifies it.
TransferArrived(x, k, r) == [x EXCEPT !.arrived = @ \cup {<<k, r>>}]
TransferRead(x, k, r) ==
  [x EXCEPT !.read = @ \cup {<<k, r>>}, !.notifs = @ \cup {<<k, r>>}]
=============================================================================
