----------------------------- MODULE MCRegistry ------------------------------
(* Configuration files: such as the daemon starts with, and such as it refuses. *)
EXTENDS Registry

Defaults == [temperature |-> 8, top_p |-> 9, top_k |-> 40]

\* One model that reasons under a ceiling, one that neither reasons nor has one.
Thinker == [reasoning |-> "on", opens |-> TRUE, refuses |-> None, sampling |-> Defaults,
            max_new_tokens |-> 6]
Plain   == [reasoning |-> "none", opens |-> FALSE, refuses |-> "system", sampling |-> Defaults,
            max_new_tokens |-> None]

\* One whose template leaves the opening of the block to the model.
Starter == [Thinker EXCEPT !.opens = FALSE]

MCSettings == {Thinker, Plain, Starter}

Rkllm(id, operations, template, settings) ==
  [id |-> id, operations |-> operations, backend |-> "rkllm", rkllm |-> TRUE, rknn |-> FALSE,
   tokenizer |-> FALSE, template |-> template, settings |-> settings]
Rknn(id)      == [Rkllm(id, <<"embed">>, FALSE, Plain) EXCEPT
                    !.backend = "rknn", !.rkllm = FALSE, !.rknn = TRUE, !.tokenizer = TRUE]
Rkwhisper(id) == [Rkllm(id, <<"transcribe">>, FALSE, Plain) EXCEPT
                    !.backend = "rkwhisper", !.rkllm = FALSE]

File(models) == [loopback |-> TRUE, token |-> "unset", socket |-> TRUE, models |-> models]

Text    == File(<<Rkllm("one", <<"generate", "embed">>, TRUE, Thinker)>>)
Speech  == File(<<Rkwhisper("one"), Rkwhisper("two")>>)
Mixed   == File(<<Rkwhisper("one"), Rkllm("two", <<"generate">>, TRUE, Plain), Rkwhisper("three")>>)
Several == File(<<Rkllm("one", <<"generate">>, TRUE, Plain), Rkllm("two", <<"generate">>, FALSE, Plain),
                  Rknn("three")>>)

\* Files the daemon does not start with.
NoSocket   == [Speech EXCEPT !.socket = FALSE]
Exposed    == [Text EXCEPT !.loopback = FALSE]
TokenGone  == [Text EXCEPT !.token = "bad"]
SameName   == File(<<Rkllm("one", <<"generate">>, TRUE, Plain), Rknn("one")>>)

\* What ModelConfig::validate refuses, a model at a time.
BadModels ==
  {File(<<m>>) : m \in {Rkllm("one", <<>>, TRUE, Plain), Rkllm("one", <<"generate", "sing">>, TRUE, Plain),
                       Rkllm("one", <<"transcribe">>, TRUE, Plain),
                       [Rkllm("one", <<"generate">>, TRUE, Plain) EXCEPT !.rkllm = FALSE],
                       [Rknn("one") EXCEPT !.tokenizer = FALSE],
                       [Rkwhisper("one") EXCEPT !.operations = <<"generate">>]}}

MCFiles == {Text, Speech, Mixed, Several, NoSocket, Exposed, TokenGone, SameName} \union BadModels
=============================================================================
