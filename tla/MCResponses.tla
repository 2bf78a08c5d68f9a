---------------------------- MODULE MCResponses -----------------------------
(***************************************************************************)
(* Model-checking instance of Responses.                                   *)
(***************************************************************************)
EXTENDS Responses

CONSTANTS home, about, r1, r2

AllChains == {<<"logger", "recovery", "etag">>, <<"compress", "recovery", "etag">>,
              <<"etag", "logger", "jwt", "compress">>, <<"logger", "cors", "basicauth", "compress">>, <<"static">>}

\* The ETags of a page, plain and compressed; clients may send an old one.
PageTags == {NoTag, <<Plain(home)>>, <<Packed(home), Packed(Trailer)>>}
NoTags == {NoTag}
EtagOnly == {<<"etag">>}
Sym == Permutations(Requests)
=============================================================================
