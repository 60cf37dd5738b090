------------------------ MODULE MCContainersAndReaders ------------------------
(***************************************************************************)
(* Small instances, for one run of TLC, of the parts with recursive        *)
(* operators: the ordered containers and the readers of csv, http and tar. *)
(* A behaviour is one of one container or reader, chosen at the start.     *)
(***************************************************************************)
EXTENDS OrderedContainers

MCKeys == [btree3 |-> 1..9, btree5 |-> 1..9, tree |-> 1..5, set |-> 1..5, sorted |-> 1..3]
MCMaxSize == [btree3 |-> 9, btree5 |-> 9, tree |-> 5, set |-> 5, sorted |-> 4]

Csv == INSTANCE Csv WITH
    Letters <- {"a", "b"}, Quote <- "q", Delim <- "d", Newline <- "n",
    MaxColumns <- 3, MaxLength <- 2

Pair(name, value) == [name |-> name, value |-> value]
Request(uri, params, headers) ==
    [request_type |-> <<"G">>, uri |-> uri, query_params |-> params,
     http_version |-> <<"H", "1">>, headers |-> headers]
\* "41" is an escaped byte, "CR", "LF" are characters
Http == INSTANCE Http WITH
    Requests <- {Request(<<"/">> \o u, ps, hs) :
        u \in {<<>>, <<"u">>, <<"41", "u">>, <<" ">>},
        ps \in {<<>>, <<Pair(<<"a">>, <<"b">>)>>,
                <<Pair(<<"a">>, <<"41">>), Pair(<<" ">>, <<>>)>>,
                <<Pair(<<"a">>, <<>>), Pair(<<"b">>, <<"b", " ">>)>>},
        hs \in {<<>>, <<Pair(<<"k">>, <<"v", "v">>)>>,
                <<Pair(<<"k">>, <<"v">>), Pair(<<"l">>, <<>>)>>}},
    Malformed <- {<<"G", "CR", "LF">>, <<"G", " ", "/", "LF">>,
                  <<"G", " ", "%", "z", "0", "u", " ">>,
                  <<"G", " ", "/", " ", "H", "CR", "x">>,
                  <<"G", " ", "/", " ", "H", "LF", "k", ":", "CR", "x">>,
                  <<"G", " ", "/", " ", "H", "LF", "CR", "x">>},
    Endings <- {<<"CR", "LF">>, <<"LF">>}, Bodies <- {<<"b", "LF">>}

\* a directory, a file of one block whose name just fits, one of three with a long name,
\* one with a time that is not octal, a link
Member(name, type, size, mtime, link) ==
    [name |-> name, type |-> type, size |-> size, mtime |-> mtime, link |-> link]
Tar == INSTANCE Tar WITH
    Block <- 4, HeaderSize <- 3, MaxMembers <- 3, Buffers <- {3, 5},
    Members <- {Member(<<"d">>, "5", 0, <<1>>, <<>>), Member(<<"f", "i">>, "0", 4, <<7, 0>>, <<>>),
                Member(<<"l", "o", "n">>, "0", 9, <<2>>, <<>>), Member(<<"s">>, "0", 1, <<1, 10>>, <<>>),
                Member(<<"g">>, "1", 0, <<>>, <<"f", "g">>)}

ASSUME ReadersAssumption == Csv!CsvAssumption /\ Http!HttpAssumption /\ Tar!TarAssumption

AnyInit ==
    \/ Init
    \/ kind = "csv"  /\ Csv!Init
    \/ kind = "http" /\ Http!Init
    \/ kind = "tar"  /\ Tar!Init

AnyNext ==
    \/ kind \in Kinds /\ Next
    \/ kind = "csv"  /\ Csv!Next  /\ UNCHANGED kind
    \/ kind = "http" /\ Http!Next /\ UNCHANGED kind
    \/ kind = "tar"  /\ Tar!Next  /\ UNCHANGED kind

AnySpec == AnyInit /\ [][AnyNext]_vars

----------------------------------------------------------------------------
\* csv.h, http.h, tar_file.h: what is read back is what was written, and nothing of one
\* column, parameter or entry is left in the next, wherever a document ends, a request is
\* cut into chunks or an archive is cut off, and whichever read of it fails; but what a
\* cut or a name that fills its field costs is said in RequestExact and SameEntry.
ReadBackExact ==
    /\ kind = "csv"  => Csv!DocumentReadBack
    /\ kind = "http" => Http!RequestExact /\ Http!AnswerExact
    /\ kind = "tar"  => Tar!EntriesExact /\ Tar!DataExact
=============================================================================
