--------------------------- MODULE MCHTTPExchange ---------------------------
(* Instances of HTTPExchange for TLC. *)
EXTENDS HTTPExchange

Ask(method, uri, params, content, type, form) ==
  [start |-> <<method>>, uri |-> uri, params |-> params, content |-> content, type |-> type, form |-> form]

Plain == <<"plain">>
Form == <<"x-www-form-urlencoded">>

\* A query with an escape and two parameters
Get == Ask("GET", <<"/">>, << <<"k", "SP">>, <<"q">> >>, <<>>, Plain, <<>>)
Post == Ask("POST", <<"/">>, <<>>, <<"x", "CR", "y">>, <<"plain", ";", "u">>, <<>>)
PostForm == Ask("POST", <<"/">>, <<>>, <<"k", "%", "2", "0", "z", "&", "q", "+", "z">>, Form,
                << <<"k", "SP", "z">>, <<"q", "SP", "z">> >>)
\* A URI with a control character, which the parser rejects
Bad == Ask("GET", <<"/", "NUL">>, <<>>, <<>>, Plain, <<>>)

AllRequests == {Get, Post, PostForm, Bad}
OneRequest == {Get}
AllContents == {<<>>, <<"x", "y">>}
LongContent == {<<"x", "y">>}
Mixed == BOOLEAN
OnlyChunked == {TRUE}
=============================================================================
