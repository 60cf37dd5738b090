---------------------------------- MODULE Http ----------------------------------
(***************************************************************************)
(* http.h: http_1_1_parser::process, a state machine that is handed the    *)
(* bytes of a request chunk by chunk, the query_string_parser and the      *)
(* hex_transformer it calls, over the tokenizer of lexer.h.                *)
(*                                                                         *)
(* `store' is the parser and its caller, in the middle of a chunk: one     *)
(* action is one turn of process's loop.  `contents' is the request that   *)
(* the bytes were written for.  Characters are strings of length one; a    *)
(* byte that was written as an escape is the string of its two digits.     *)
(***************************************************************************)
EXTENDS Naturals, SequencesExt

CONSTANTS
    Requests,   \* the requests that are sent
    Malformed,  \* and what is sent that is none
    Endings,    \* the line endings: sequences of CR and LF
    Bodies      \* what follows the request

\* of the constants
HttpAssumption == Endings \subseteq {<<"CR", "LF">>, <<"LF">>}

VARIABLES store, contents
vars == <<store, contents>>

HexDigits == {"0", "4", "1"}
Line == {"CR", "LF"}

----------------------------------------------------------------------------
(* How a request is written: a blank of the URI or of a parameter as `+',  *)
(* a byte of two digits as an escape, two blanks after the colon of a      *)
(* header.                                                                 *)

Escapes == [byte \in {hi \o lo : hi, lo \in HexDigits} |->
              CHOOSE e \in {<<"%", hi, lo>> : hi, lo \in HexDigits} : e[2] \o e[3] = byte]
Encoded(text) == FlattenSeq([i \in DOMAIN text |->
                    IF text[i] \in DOMAIN Escapes THEN Escapes[text[i]]
                    ELSE IF text[i] = " " THEN <<"+">> ELSE <<text[i]>>])
Query(params) ==
    IF params = <<>> THEN <<>>
    ELSE FlattenSeq([i \in DOMAIN params |->
            <<IF i = 1 THEN "?" ELSE "&">> \o Encoded(params[i].name)
              \o (IF params[i].value = <<>> THEN <<>> ELSE <<"=">> \o Encoded(params[i].value))])
Headers(headers, ending) ==
    FlattenSeq([i \in DOMAIN headers |->
        headers[i].name \o <<":", " ", " ">> \o headers[i].value \o ending])
Message(r, ending) ==
    r.request_type \o <<" ">> \o Encoded(r.uri) \o Query(r.query_params) \o <<" ">>
      \o r.http_version \o ending \o Headers(r.headers, ending) \o ending

\* What a chunk that ends after n characters costs the parser.  In or right after an
\* escape of the URI, the digits read stay behind in the transformer; in a query, the
\* parameter is notified as far as it came and the rest is taken for the version; before
\* the last blank after a colon, the blanks that follow are taken for the value.
Costs(text) ==
    LET blanks == {i \in DOMAIN text : text[i] = " "}
        marks  == {i \in DOMAIN text : text[i] = "?"}
        space  == IF marks = {} THEN 0 ELSE Min({i \in blanks : i > Max(marks)})
        escape(n) == \E i \in 0..2 : n - i > 0 /\ text[n - i] = "%"
        query(n)  == marks # {} /\ Min(marks) <= n /\ n < space
        colon(n)  == text[n] \in {":", " "} /\ n < Len(text) /\ text[n + 1] = " "
    IN  [n \in DOMAIN text |-> CASE query(n) -> {"query"}
                                [] ~query(n) /\ escape(n) -> {"escape"}
                                [] colon(n) -> {"blanks"}
                                [] OTHER -> {}]

----------------------------------------------------------------------------
(* tokenizer: what is left of the chunk, and what was consumed of it.      *)

Prefix(tok, n) == [out |-> SubSeq(tok, 1, n), tok |-> SubSeq(tok, n + 1, Len(tok))]
consume_until(tok, stop) ==
    LET at == SelectInSeq(tok, LAMBDA ch : ch \in stop)
    IN  Prefix(tok, IF at = 0 THEN Len(tok) ELSE at - 1)
skip_while(tok, ch) ==
    LET at == SelectInSeq(tok, LAMBDA c : c # ch)
    IN  Prefix(tok, IF at = 0 THEN Len(tok) ELSE at - 1).tok
EOF == "end of the chunk"
peek(tok) == IF tok = <<>> THEN EOF ELSE Head(tok)
skip(tok) == IF tok = <<>> THEN <<>> ELSE Tail(tok)

\* hex_transformer: its state is what it has taken of an escape, and it decodes a whole
\* one only when something follows it in the chunk
transform(tok, hex) ==
    LET took == Prefix(tok, Min({3 - Len(hex), Len(tok)}))
        have == hex \o took.out
        ready == Len(have) = 3 /\ took.tok # <<>>
        valid == ready /\ have[2] \in HexDigits /\ have[3] \in HexDigits
    IN  [tok |-> took.tok, hex |-> IF ready THEN <<>> ELSE have,
         out |-> IF valid THEN <<have[2] \o have[3]>> ELSE <<>>, more |-> ready => valid]

\* process, of the token that accepts the next character: an escape is transformed, a `+'
\* is a blank, anything else is itself
process(tok, hex) ==
    IF Head(tok) = "%" THEN transform(tok, hex)
    ELSE [tok |-> Tail(tok), hex |-> hex, more |-> TRUE,
          out |-> <<IF Head(tok) = "+" THEN " " ELSE Head(tok)>>]

\* consume_while, of escapes, of `+' and of the characters that are not in `stop'
RECURSIVE consume_while(_, _, _)
consume_while(tok, hex, stop) ==
    IF tok = <<>> \/ Head(tok) \in stop \ {"%", "+"}
    THEN [tok |-> tok, hex |-> hex, out |-> <<>>]
    ELSE LET step == process(tok, hex)
             rest == consume_while(step.tok, step.hex, stop)
         IN  IF step.more THEN [rest EXCEPT !.out = step.out \o @]
             ELSE [tok |-> step.tok, hex |-> step.hex, out |-> step.out]

----------------------------------------------------------------------------
(* query_string_parser::parse; `rest' is the tokenizer and `params' the    *)
(* notifier.                                                               *)

Reserved == Line \cup {" ", "=", "&", "?", "/", ":"}
Notified(qs) == IF qs.name = <<>> THEN qs.params
                ELSE Append(qs.params, [name |-> qs.name, value |-> qs.value])
\* reset
\* mutant: the value is left from the parameter before
KeepsValue(qs, state) == [qs EXCEPT !.name = <<>>, !.state = state]
reset(qs, state) == [qs EXCEPT !.name = <<>>, !.value = <<>>, !.state = state]
End(qs, state) == reset([qs EXCEPT !.params = Notified(qs)], state)

RECURSIVE parse(_)
parse(qs) ==
    LET read == consume_while(qs.rest, qs.hex, Reserved)
        name == [qs EXCEPT !.name = @ \o read.out, !.hex = read.hex, !.rest = read.tok]
        value == [qs EXCEPT !.value = @ \o read.out, !.hex = read.hex, !.rest = read.tok]
        skipped(q) == [q EXCEPT !.rest = skip(@)]
        next == peek(read.tok)
    IN  IF qs.rest = <<>> \/ qs.state \in {"S3", "S4"} THEN qs
        ELSE parse(CASE qs.state = "S0" /\ peek(qs.rest) # "?" -> [qs EXCEPT !.state = "S4"]
                     [] qs.state = "S0" /\ peek(qs.rest) = "?" ->
                            skipped([qs EXCEPT !.name = <<>>, !.state = "S1"])
                     [] qs.state = "S1" /\ next = "=" -> skipped([name EXCEPT !.state = "S2"])
                     [] qs.state = "S1" /\ next \in {"&", "?"} -> skipped(End(name, "S1"))
                     [] qs.state = "S1" /\ next \notin {"=", "&", "?"} -> End(name, "S3")
                     [] qs.state = "S2" /\ next = "&" -> skipped(End(value, "S1"))
                     [] qs.state = "S2" /\ next # "&" -> End(value, "S3"))

----------------------------------------------------------------------------
Empty == [request_type |-> <<>>, uri |-> <<>>, query_params |-> <<>>, http_version |-> <<>>,
          headers |-> <<>>]
Rejected == [Empty EXCEPT !.request_type = <<"rejected">>]

\* a parser before its first byte
Parser(src) ==
    [state |-> "REQUEST_TYPE", new_header |-> TRUE, stg |-> Empty, hex |-> <<>>,
     qs |-> [state |-> "S0", name |-> <<>>, value |-> <<>>, hex |-> <<>>, params |-> <<>>, rest |-> <<>>],
     src |-> src, chunk |-> <<>>, tok |-> <<>>, num_parsed |-> 0, lost |-> {}]
Sent(request, message, body) ==
    /\ store = Parser(message \o body)
    /\ contents = [request |-> request, body |-> body, length |-> Len(message \o body),
                   costs |-> Costs(message \o body)]

Init == \E body \in Bodies :
    \/ \E r \in Requests, ending \in Endings : Sent(r, Message(r, ending), body)
    \/ \E text \in Malformed : Sent(Rejected, text, body)

is_complete == store.state \in {"PARSER_COMPLETE", "PARSER_ERROR"}

\* The caller reads a chunk and calls process, also with what comes after the request.
\* `lost' is a history of what the cuts have cost.
Process ==
    /\ store.tok = <<>> /\ store.src # <<>> /\ store.state # "PARSER_ERROR"
    /\ \E n \in DOMAIN store.src :
        LET at == contents.length - Len(store.src) + n
            chunk == Prefix(store.src, n)
        IN  store' = [store EXCEPT !.chunk = chunk.out, !.tok = chunk.out, !.src = chunk.tok,
                                   !.num_parsed = 0, !.lost = @ \cup contents.costs[at]]
    /\ UNCHANGED contents

----------------------------------------------------------------------------
(* The turns of the loop, one for each state: while (not tok.empty())      *)

Turn(state) == store.tok # <<>> /\ store.state = state /\ UNCHANGED contents

RequestType ==
    /\ Turn("REQUEST_TYPE")
    /\ LET read == consume_until(store.tok, Line \cup {" "})
           next == peek(read.tok)
       IN  store' = [store EXCEPT
              !.stg.request_type = @ \o read.out,
              !.tok = IF next = " " THEN skip(read.tok) ELSE read.tok,
              !.state = CASE next = " " -> "URI" [] next = EOF -> @ [] OTHER -> "PARSER_ERROR"]

Uri ==
    /\ Turn("URI")
    /\ LET read == consume_while(store.tok, store.hex, Line \cup {" ", "?"})
           next == peek(read.tok)
       IN  store' = [store EXCEPT
              !.stg.uri = @ \o read.out, !.hex = read.hex,
              !.tok = IF next = " " THEN skip(read.tok) ELSE read.tok,
              !.state = CASE next = "?" -> "QUERY_PARAM"
                          [] next = " " -> "HTTP_VERSION"
                          [] next = EOF -> @
                          [] OTHER      -> "PARSER_ERROR"]

QueryParam ==
    /\ Turn("QUERY_PARAM")
    /\ LET qs == parse([store.qs EXCEPT !.rest = store.tok, !.params = store.stg.query_params])
       IN  store' = [store EXCEPT
              !.stg.query_params = qs.params,
              !.qs = [qs EXCEPT !.rest = <<>>, !.params = <<>>],
              !.tok = IF qs.state = "S4" THEN qs.rest ELSE skip(qs.rest),
              !.state = IF qs.state = "S4" THEN "PARSER_ERROR" ELSE "HTTP_VERSION"]

HttpVersion ==
    /\ Turn("HTTP_VERSION")
    /\ LET read == consume_until(store.tok, Line)
           next == peek(read.tok)
       IN  store' = [store EXCEPT
              !.stg.http_version = @ \o read.out, !.tok = read.tok,
              !.state = CASE next = "CR" -> "REQUEST_CR" [] next = "LF" -> "REQUEST_LF" [] OTHER -> @]

\* REQUEST_CR, REQUEST_LF, HEADER_CR, HEADER_LF, END_CR and END_LF: one character is expected
Expected ==
    [REQUEST_CR |-> <<"CR", "REQUEST_LF">>, REQUEST_LF |-> <<"LF", "HEADER_KEY">>,
     HEADER_CR  |-> <<"CR", "HEADER_LF">>,  HEADER_LF  |-> <<"LF", "HEADER_KEY">>,
     END_CR     |-> <<"CR", "END_LF">>,     END_LF     |-> <<"LF", "PARSER_COMPLETE">>]
EndOfLine ==
    /\ \E state \in DOMAIN Expected : Turn(state)
    /\ LET expect == Expected[store.state]
       IN  store' = IF Head(store.tok) # expect[1] THEN [store EXCEPT !.state = "PARSER_ERROR"]
                    ELSE [store EXCEPT !.state = expect[2], !.tok = Tail(@),
                                       !.new_header = @ \/ store.state = "HEADER_LF"]

\* stg_header: a field is appended to the last header, or to a new one
Staged(headers, new) ==
    IF new THEN Append(headers, [name |-> <<>>, value |-> <<>>]) ELSE headers

HeaderKey ==
    /\ Turn("HEADER_KEY")
    /\ LET read == consume_until(store.tok, Line \cup {":"})
           next == peek(read.tok)
           staged == Staged(store.stg.headers, store.new_header)
       IN  store' = [store EXCEPT
              !.stg.headers = IF read.out = <<>> THEN @
                              ELSE [staged EXCEPT ![Len(staged)].name = @ \o read.out],
              !.new_header = @ /\ read.out = <<>>,
              !.tok = CASE next = ":"  -> skip_while(skip(read.tok), " ")
                        [] next = "LF" -> skip(read.tok)
                        [] OTHER       -> read.tok,
              !.state = CASE next = "CR" -> "END_CR"
                          [] next = "LF" -> "PARSER_COMPLETE"
                          [] next = ":"  -> "HEADER_VALUE"
                          [] OTHER       -> @]

HeaderValue ==
    /\ Turn("HEADER_VALUE")
    /\ LET read == consume_until(store.tok, Line)
           next == peek(read.tok)
           staged == Staged(store.stg.headers, store.new_header)
       IN  store' = [store EXCEPT
              !.stg.headers = [staged EXCEPT ![Len(staged)].value = @ \o read.out],
              !.new_header = next = "LF",
              !.tok = IF next = "LF" THEN skip(read.tok) ELSE read.tok,
              !.state = CASE next = "CR" -> "HEADER_CR" [] next = "LF" -> "HEADER_KEY" [] OTHER -> @]

\* process returns: how much of the chunk was parsed, or 0 after an error
Complete ==
    /\ Turn("PARSER_COMPLETE")
    /\ store' = [store EXCEPT !.num_parsed = Len(store.chunk) - Len(store.tok), !.tok = <<>>]
Error ==
    /\ Turn("PARSER_ERROR")
    /\ store' = [store EXCEPT !.tok = <<>>]

Next ==
    \/ Process \/ RequestType \/ Uri \/ QueryParam \/ HttpVersion \/ EndOfLine
    \/ HeaderKey \/ HeaderValue \/ Complete \/ Error

Spec == Init /\ [][Next]_vars

----------------------------------------------------------------------------
\* However the bytes are cut into chunks, the parser makes of them the request that was
\* written and rejects what is none, but for what a cut has cost: in the URI's escapes
\* everything, in the query the last parameter so far and what comes before the version,
\* at the blanks after a colon no more than blanks (http.h:29-105, 189-262, 358-573).
RequestExact ==
    store.tok = <<>> /\ "escape" \notin store.lost =>
        /\ is_complete \/ store.src # <<>>
        /\ store.state = "PARSER_ERROR" => contents.request = Rejected
        /\ store.state = "PARSER_COMPLETE" =>
            LET read == store.stg
                sent == contents.request
                Value(header) == skip_while(header.value, " ")
            IN  /\ read.request_type = sent.request_type /\ read.uri = sent.uri
                /\ IF "query" \in store.lost
                   THEN /\ read.query_params = <<>> \/ IsPrefix(Front(read.query_params), sent.query_params)
                        /\ IsSuffix(sent.http_version, read.http_version)
                   ELSE read.query_params = sent.query_params /\ read.http_version = sent.http_version
                /\ IF "blanks" \in store.lost
                   THEN /\ Len(read.headers) = Len(sent.headers)
                        /\ \A i \in DOMAIN sent.headers : /\ read.headers[i].name = sent.headers[i].name
                                                          /\ Value(read.headers[i]) = Value(sent.headers[i])
                   ELSE read.headers = sent.headers

\* The parser never waits for more than the message.  The chunk in which the body begins
\* is answered with the place where it does, and every other with 0, also one that ends
\* with the message: only is_complete tells it from a part of a request (http.h:338-341, 565-572).
AnswerExact ==
    store.tok = <<>> /\ store.state = "PARSER_COMPLETE" /\ "escape" \notin store.lost =>
        LET unread == Len(store.src) + Len(store.chunk)
        IN  store.num_parsed = IF Len(store.src) < Len(contents.body) /\ Len(contents.body) < unread
                               THEN unread - Len(contents.body) ELSE 0
=============================================================================
