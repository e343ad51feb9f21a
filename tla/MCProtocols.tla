---------------------------- MODULE MCProtocols -----------------------------
(***************************************************************************)
(* The protocol crates, for TLC: the SQL pool and the MongoDB pool under   *)
(* the shared scheduler; HTTP/1 and HTTP/2 connections, the HTTP client    *)
(* with its pool, and the HTTP server's shutdown; Redis, PostgreSQL,       *)
(* MySQL, SMTP and MongoDB connections with their servers, and what        *)
(* clients keep across connections; WebSocket and TLS streams; the         *)
(* decompression of bodies; each in the settings that reach different      *)
(* code.  They share no state: a behaviour exercises one of them, which    *)
(* `part' names, and the variables of the others stand still.              *)
(***************************************************************************)
EXTENDS Naturals, Sequences, FiniteSets

CONSTANTS Parts, Tokens, NoPool, MaxTime, MaxConnections, MaxClears

VARIABLES
    part,
    policy, entries, waiters, callers, driving, unpolled, progressed, woken, timer, failure, ended, now,
    link, todo, over,
    replies, next, losses, published,
    conn, up, down, server, told, truth

poolVars == <<policy, entries, waiters, callers, driving, unpolled, progressed, woken, timer, failure, ended, now>>
h2Vars == <<link, todo, over>>
redisVars == <<replies, next, losses, published>>
wireVars == <<conn, up, down, server, told, truth>>
vars == <<part, poolVars, h2Vars, redisVars, wireVars>>

---------------------------------------------------------------------------
(* The pools.  A SQL lease names its connection, a MongoDB lease is one;   *)
(* only MongoDB has policy updates, which clear the pool.                  *)

Pools == INSTANCE PoolPolicies WITH
    MySql <- FALSE, MinKept <- 0, MaxIdle <- 1, IdleTimeout <- 1, QueueLimit <- 0, MaxUses <- 0,
    MaxLifetime <- 0, WaitForConnections <- TRUE, Never <- 99,
    MinSize <- 0, MaxSize <- MaxConnections, MaxConnecting <- 2, WaitTimeout <- MaxTime, IdleTime <- MaxTime
SqlLeaseId(lease) == lease.connection
MongoLeaseId(lease) == lease
SqlEnding(p) == p.ending
MongoEnding(p) == p.closed
NoUpdates(p, time) == {}

SqlAsync == INSTANCE AsyncPool WITH
    Deadlines <- {1}, Tokens <- Tokens \ {3}, New <- Pools!SqlNew, Checkout <- Pools!SqlCheckout, CancelCheckout <- Pools!SqlCancel,
    Connected <- Pools!SqlConnected, ConnectFailed <- Pools!SqlConnectFailed, Checkin <- Pools!SqlCheckin,
    Closed <- Pools!SqlClosed, DeadlinesOf <- Pools!SqlDeadlines, Expire <- Pools!SqlExpire, End <- Pools!SqlEnd,
    Updates <- NoUpdates, Given <- Pools!SqlBusy, Ending <- SqlEnding, IdOf <- SqlLeaseId
MongoAsync == INSTANCE AsyncPool WITH
    Deadlines <- {1}, Tokens <- Tokens \ {3}, New <- Pools!Drive(Pools!MongoNew, 0), Checkout <- Pools!MongoCheckout,
    CancelCheckout <- Pools!MongoCancel, Connected <- Pools!MongoConnected, ConnectFailed <- Pools!MongoConnectFailed,
    Checkin <- Pools!MongoCheckin, Closed <- Pools!MongoClosed, DeadlinesOf <- Pools!MongoDeadlines,
    Expire <- Pools!MongoExpire, End <- Pools!MongoEnd, Updates <- Pools!MongoUpdates, Given <- Pools!MongoOut,
    Ending <- MongoEnding, IdOf <- MongoLeaseId

---------------------------------------------------------------------------
(* HTTP/2 in five settings: one stream after the other, with resets of    *)
(* streams that are gone; windows that a host changes under way; shutdown, *)
(* and trailers of the server; trailers of the client; and a lost transport*)
(* or a missed deadline for SETTINGS.                                      *)

H2Plain == [streams |-> 2, limit |-> 1, window |-> 1, body |-> 1, windows |-> {}, backlog |-> 2,
            shutdowns |-> {}, trailers |-> {}, repeats |-> {}, lossy |-> FALSE]
H2Cases ==
    [h2 |-> [H2Plain EXCEPT !.repeats = {"client", "server"}],
     h2_settings |-> [H2Plain EXCEPT !.streams = 1, !.limit = 2, !.window = 2, !.body = 2, !.windows = {1}, !.backlog = 1],
     h2_shutdown |-> [H2Plain EXCEPT !.shutdowns = {"client", "server"}, !.trailers = {"server"}],
     h2_trailers |-> [H2Plain EXCEPT !.trailers = {"client"}],
     h2_lossy |-> [H2Plain EXCEPT !.limit = 2, !.backlog = 1, !.lossy = TRUE]]
H2(k) == INSTANCE Http2 WITH
    MaxStreams <- H2Cases[k].streams, StreamLimit <- H2Cases[k].limit,
    Window <- H2Cases[k].window, FrameSize <- 1, Body <- H2Cases[k].body, Windows <- H2Cases[k].windows,
    MaxSettings <- (IF H2Cases[k].windows = {} THEN 0 ELSE 1), Backlog <- H2Cases[k].backlog,
    Resets <- {"client", "server"}, Repeats <- H2Cases[k].repeats,
    Impatient <- (IF H2Cases[k].lossy THEN {"client"} ELSE {}), Shutdowns <- H2Cases[k].shutdowns, Trailers <- H2Cases[k].trailers,
    Lossy <- H2Cases[k].lossy

---------------------------------------------------------------------------
(* Redis in four settings: RESP3 with patterns; RESP2 with a server that    *)
(* refuses, TLS and no replay; commands of two names on one transport; and *)
(* the same with a transport that is lost.                                 *)

Single(op, name, pattern) == [op |-> op, names |-> <<name>>, pattern |-> pattern]
Plain(op) == [op |-> op, names |-> <<>>, pattern |-> FALSE]
OneName == {Plain("Get"), Plain("Ping"), Plain("Quit"), Plain("Unsubscribe"),
            Single("Subscribe", "a", FALSE), Single("Unsubscribe", "a", FALSE)}
Patterns == {Single("Subscribe", "p", TRUE), [Plain("Unsubscribe") EXCEPT !.pattern = TRUE]}
TwoNames == {Plain("Get"), [Plain("Subscribe") EXCEPT !.names = <<"a", "b">>],
             [Plain("Unsubscribe") EXCEPT !.names = <<"a", "b">>]}
RedisPlain == [commands |-> (OneName \ {Plain("Quit"), Plain("Ping")}) \cup Patterns, setup |-> {"Select"}, tls |-> FALSE, resp3 |-> TRUE, server |-> TRUE,
               replay |-> TRUE, refusals |-> FALSE, losses |-> 1]
RedisCases ==
    [redis |-> RedisPlain,
     redis_resp2 |-> [RedisPlain EXCEPT !.commands = OneName, !.setup = {"Auth"}, !.tls = TRUE, !.server = FALSE,
                                        !.replay = FALSE, !.refusals = TRUE],
     redis_names |-> [RedisPlain EXCEPT !.commands = TwoNames, !.losses = 0],
     redis_replay |-> [RedisPlain EXCEPT !.commands = TwoNames]]
Redis(k) == INSTANCE RedisConnection WITH
    Commands <- RedisCases[k].commands, Timed <- {1}, Setup <- RedisCases[k].setup,
    Tls <- RedisCases[k].tls, PreferResp3 <- RedisCases[k].resp3, OfflineQueue <- TRUE,
    AutoResubscribe <- RedisCases[k].replay, AutoResend <- RedisCases[k].replay, MaxRetries <- 1,
    ServerResp3 <- RedisCases[k].server, Refusals <- RedisCases[k].refusals, MaxLosses <- RedisCases[k].losses,
    MaxMessages <- 1

---------------------------------------------------------------------------
(* PostgreSQL: pipelined queries and named statements; COPY; TLS with      *)
(* SASL.  MySQL: statements over an RSA exchange; users over TLS; and a    *)
(* server whose failed commands may leave a transaction open.  SMTP: one   *)
(* setting for each TLS policy, with what the server offers and AUTH uses. *)

PgCommand(extended, name, copy, begins) == [extended |-> extended, name |-> name, copy |-> copy, begins |-> begins]
Queries == {PgCommand(FALSE, "", FALSE, TRUE), PgCommand(TRUE, "n", FALSE, FALSE)}
Copies == {PgCommand(FALSE, "", TRUE, FALSE), PgCommand(TRUE, "", TRUE, FALSE), PgCommand(FALSE, "", FALSE, FALSE)}
PgCases ==
    [pg |-> [commands |-> Queries, ssl |-> "Disable", server |-> FALSE, method |-> "trust", data |-> 0],
     pg_copy |-> [commands |-> Copies, ssl |-> "Disable", server |-> FALSE, method |-> "password", data |-> 1],
     pg_tls |-> [commands |-> Queries, ssl |-> "Prefer", server |-> TRUE, method |-> "sasl", data |-> 0]]
Pg(k) == INSTANCE PostgresConnection WITH
    Commands <- PgCases[k].commands, Timed <- {1}, MaxPending <- 2, Ssl <- PgCases[k].ssl, BindingRequired <- FALSE,
    HostBinds <- TRUE, ServerTls <- PgCases[k].server, Method <- PgCases[k].method, Mechanisms <- {"plain", "plus"},
    MaxData <- PgCases[k].data, Faults <- TRUE

MyCases ==
    [my |-> [kinds |-> {"query", "begin", "prepare", "execute", "close", "reset"}, tls |-> FALSE, silent |-> FALSE],
     my_tls |-> [kinds |-> {"query", "change_user", "prepare", "ping", "reset_statement"}, tls |-> TRUE, silent |-> FALSE],
     my_silent |-> [kinds |-> {"query"}, tls |-> FALSE, silent |-> TRUE]]
My(k) == INSTANCE MySqlConnection WITH
    Timed <- {1}, Kinds <- MyCases[k].kinds, Tls <- MyCases[k].tls, LocalInfile <- TRUE, FullAuth <- TRUE, Faults <- TRUE,
    SilentBegin <- MyCases[k].silent

SmtpCases ==
    [smtp |-> [tls |-> "None", auth |-> "none", offers |-> {"pipelining"}, old |-> FALSE],
     smtp_required |-> [tls |-> "Required", auth |-> "login", offers |-> {"starttls", "login"}, old |-> FALSE],
     smtp_upgrade |-> [tls |-> "Opportunistic", auth |-> "plain", offers |-> {"plain", "pipelining"}, old |-> FALSE],
     smtp_implicit |-> [tls |-> "Implicit", auth |-> "none", offers |-> {}, old |-> TRUE]]
Smtp(k) == INSTANCE SmtpConnection WITH
    Tokens <- 1 .. 2, Recipients <- 2, TlsPolicy <- SmtpCases[k].tls, AuthMethod <- SmtpCases[k].auth,
    Offers <- SmtpCases[k].offers, OldServer <- SmtpCases[k].old, Streams <- BOOLEAN, Refusals <- TRUE, Faults <- TRUE

---------------------------------------------------------------------------
(* HTTP/1: uploads of each framing, with 100 (Continue) and early answers; *)
(* and what has no body, closes or upgrades.  The pool under two requests, *)
(* the client over it, and the server's accept loop.                       *)

Framing(kind, n) == [kind |-> kind, n |-> n]
NoBody == Framing("Empty", 0)
AnyRequest == [method |-> "GET", body |-> NoBody, expect |-> FALSE, close |-> FALSE, upgrade |-> FALSE, trailers |-> FALSE]
AnyResponse == [status |-> 200, body |-> NoBody, bytes |-> 0, keep |-> TRUE, when |-> "end", trailers |-> FALSE]
H1Cases ==
    [h1 |->
        [requests |-> {AnyRequest, [AnyRequest EXCEPT !.method = "POST", !.body = Framing("Known", 1), !.expect = TRUE],
                       [AnyRequest EXCEPT !.method = "POST", !.body = Framing("Chunked", 0), !.trailers = TRUE]},
         responses |-> {[AnyResponse EXCEPT !.body = Framing("Known", 2), !.bytes = 2],
                        [AnyResponse EXCEPT !.body = Framing("Chunked", 0), !.bytes = 1, !.when = "split", !.trailers = TRUE],
                        [AnyResponse EXCEPT !.status = 204, !.when = "head"],
                        [AnyResponse EXCEPT !.body = Framing("CloseDelimited", 0), !.bytes = 1, !.keep = FALSE]}],
     h1_upgrade |->
        [requests |-> {[AnyRequest EXCEPT !.close = TRUE], [AnyRequest EXCEPT !.method = "HEAD"],
                       [AnyRequest EXCEPT !.method = "CONNECT"],
                       [AnyRequest EXCEPT !.body = Framing("Known", 1), !.upgrade = TRUE]},
         responses |-> {AnyResponse, [AnyResponse EXCEPT !.status = 101],
                        [AnyResponse EXCEPT !.body = Framing("Omitted", 0), !.when = "head"],
                        [AnyResponse EXCEPT !.status = 404, !.body = Framing("Known", 1), !.bytes = 1, !.when = "head"]}]]
H1(k) == INSTANCE Http1Exchange WITH
    Tokens <- 1 .. 2, Requests <- H1Cases[k].requests, Responses <- H1Cases[k].responses, Continues <- TRUE,
    Timed <- {1}, Stops <- TRUE, Faults <- TRUE
HttpPooled == INSTANCE HttpClient WITH
    Origins <- {}, Secure <- {}, Proxied <- {}, Http2 <- {}, Modes <- {}, MaxRedirects <- 0, Requests <- 0,
    Keys <- {"a"}, Users <- 1 .. 2, MaxPerHost <- 1, Idle <- 1, Slack <- 0, MaxStreams <- 2, MaxTime <- 2, MaxIds <- 2,
    MaxSets <- 3
ClientCases == [http_client |-> [origins |-> 1 .. 2, most |-> 2], http_single |-> [origins |-> {1}, most |-> 1]]
Client(k) == INSTANCE HttpClient WITH
    Origins <- ClientCases[k].origins, Secure <- {2}, Proxied <- {2}, Http2 <- {2}, Modes <- {"Follow", "Error"}, MaxRedirects <- 1,
    MaxPerHost <- ClientCases[k].most, Idle <- 1, Slack <- 0, MaxTime <- 1, MaxIds <- 3, MaxSets <- 2, Requests <- 2,
    Keys <- {}, Users <- {}, MaxStreams <- 1
Web == INSTANCE HttpServer WITH
    Conns <- {"c1", "c2"}, LingerTimeout <- 2, Deadlines <- {1}, MaxTime <- 2, Failing <- {"c1"}

---------------------------------------------------------------------------
(* MongoDB.  Connections: exhaust and unacknowledged commands; TLS and     *)
(* SASL; encoded messages.  The client: elections, lost answers and a set  *)
(* that shrinks; servers of an old wire version, whose pools every error   *)
(* clears and which no election id orders.  Sessions over one router, two  *)
(* routers, and two pooled identities.  Cursors, change streams and bulk.  *)

McPlain == [tokens |-> 1 .. 3, unacknowledged |-> {2}, encoded |-> {}, secure |-> FALSE]
McCases ==
    [mc |-> McPlain, mc_encoded |-> [McPlain EXCEPT !.encoded = {1, 3}],
     mc_secure |-> [McPlain EXCEPT !.tokens = {1}, !.unacknowledged = {}, !.secure = TRUE]]
Mc(k) == INSTANCE MongoConnection WITH
    Tokens <- McCases[k].tokens, Unacknowledged <- McCases[k].unacknowledged, Encoded <- McCases[k].encoded,
    Tls <- McCases[k].secure, Credential <- McCases[k].secure, LastId <- 2, Faults <- TRUE

MongoCases ==
    [mongo_client |-> [wire |-> 17, commands |-> 1, faults |-> 1, adverse |-> TRUE],
     mongo_old |-> [wire |-> 7, commands |-> 1, faults |-> 1, adverse |-> FALSE]]
Mongo(k) == INSTANCE MongoClient WITH
    NoAddress <- "-", NoSet <- "-", NoVersion <- [process |-> 0, counter |-> 0], Members <- {"a", "b"}, Seeds <- {"a"},
    Wire <- MongoCases[k].wire, Kinds <- {"Write"}, Preference <- "Primary", TagSets <- <<>>, RetryEnabled <- TRUE,
    MaxCommands <- MongoCases[k].commands, MaxFaults <- MongoCases[k].faults, MaxClears <- 1,
    Lossy <- MongoCases[k].adverse, Shrinks <- MongoCases[k].adverse

OpCases ==
    [session |-> [ids |-> {"i"}, routers |-> {"r"}, max |-> 2, lost |-> 2, limit |-> 0, tokens |-> TRUE],
     session_routers |-> [ids |-> {"i"}, routers |-> {"q", "r"}, max |-> 1, lost |-> 2, limit |-> 0, tokens |-> TRUE],
     session_pool |-> [ids |-> {"i", "j"}, routers |-> {"r"}, max |-> 1, lost |-> 1, limit |-> 0, tokens |-> TRUE],
     cursor |-> [ids |-> {}, routers |-> {}, max |-> 0, lost |-> 0, limit |-> 0, tokens |-> TRUE],
     cursor_limit |-> [ids |-> {}, routers |-> {}, max |-> 0, lost |-> 0, limit |-> 3, tokens |-> TRUE],
     stream |-> [ids |-> {}, routers |-> {}, max |-> 0, lost |-> 0, limit |-> 0, tokens |-> TRUE],
     stream_old |-> [ids |-> {}, routers |-> {}, max |-> 0, lost |-> 0, limit |-> 0, tokens |-> FALSE],
     bulk |-> [ids |-> {}, routers |-> {}, max |-> 0, lost |-> 0, limit |-> 0, tokens |-> TRUE]]
MongoOps(k) == INSTANCE MongoOperations WITH
    Ids <- OpCases[k].ids, NoSession <- "-", Routers <- OpCases[k].routers, NoRouter <- "-", MaxNumber <- OpCases[k].max,
    MaxLost <- OpCases[k].lost, Rows <- 4, Batch <- 2, Limit <- OpCases[k].limit, Tokens <- OpCases[k].tokens,
    MaxFaults <- 2, Sizes <- 1 .. 3, MaxDocuments <- 3, MaxMessage <- 4, MaxCount <- 2

---------------------------------------------------------------------------
(* WebSocket: messages that cross; dropped operations and deadlines; the   *)
(* subprotocols.  TLS: either end, a failing transport, a full buffer of   *)
(* plaintext.  A Redis cluster whose slots move, and Sentinel discovery.   *)

Sent(client, srv) == [client |-> client, server |-> srv]
SocketCases ==
    [ws |-> [offers |-> {{}}, supports |-> {<<>>}, sends |-> Sent(<<"text", "ping">>, <<"text">>), faults |-> FALSE],
     ws_dropped |-> [offers |-> {{}}, supports |-> {<<>>}, sends |-> Sent(<<"ping">>, <<"text">>), faults |-> TRUE],
     ws_protocols |-> [offers |-> {{}, {"p"}, {"p", "q"}}, supports |-> {<<>>, <<"q", "p">>, <<"r">>},
                       sends |-> Sent(<<>>, <<>>), faults |-> FALSE]]
Socket(k) == INSTANCE StreamLayers WITH
    Offers <- SocketCases[k].offers, Supports <- SocketCases[k].supports, NoProtocol <- "-", Sends <- SocketCases[k].sends,
    Faults <- SocketCases[k].faults, Server <- FALSE, Writes <- <<>>, Script <- <<>>, PlainRoom <- 0
TlsCases ==
    [tls |-> [server |-> FALSE, room |-> 4, faults |-> FALSE], tls_server |-> [server |-> TRUE, room |-> 4, faults |-> FALSE],
     tls_faults |-> [server |-> FALSE, room |-> 4, faults |-> TRUE], tls_full |-> [server |-> FALSE, room |-> 2, faults |-> FALSE]]
Tls(k) == INSTANCE StreamLayers WITH
    Server <- TlsCases[k].server, Writes <- <<"w1", "w2">>, Script <- <<"d1", "d2", "notify">>, PlainRoom <- TlsCases[k].room,
    Faults <- TlsCases[k].faults, Offers <- {}, Supports <- {}, NoProtocol <- "-", Sends <- <<>>

ClusterPlain == [nodes |-> {"a", "b"}, slots |-> {"s"}, requests |-> {<<"s">>}, redirects |-> 1, moves |-> 2,
                 commands |-> 3, faults |-> 0]
ClusterCases ==
    [cluster |-> ClusterPlain,
     cluster_keys |-> [ClusterPlain EXCEPT !.slots = {"s", "t"}, !.requests = {<<>>, <<"s">>, <<"t">>, <<"s", "t">>},
                                           !.redirects = 2, !.moves = 1, !.commands = 2, !.faults = 1],
     cluster_nodes |-> [ClusterPlain EXCEPT !.nodes = {"a", "b", "c"}, !.redirects = 2, !.commands = 2, !.faults = 1],
     sentinel |-> ClusterPlain]
Cluster(k) == INSTANCE RedisCluster WITH
    Nodes <- ClusterCases[k].nodes, Seed <- "a", NoNode <- "-", Slots <- ClusterCases[k].slots,
    Requests <- ClusterCases[k].requests, MaxRedirects <- ClusterCases[k].redirects, MaxReconnects <- 1,
    Seeds <- <<"x", "y">>, MaxMoves <- ClusterCases[k].moves, MaxCommands <- ClusterCases[k].commands,
    MaxFaults <- ClusterCases[k].faults

---------------------------------------------------------------------------
(* Decompression.  The history: windows of one and two bytes, a buffer     *)
(* that is used again, a dictionary.  The readers: frames of every kind of *)
(* block, whole and cut.  The host: every coding alone and in chains, in   *)
(* pieces; bodies that are whole, cut, too long or followed by another,    *)
(* and then a second body; and a frame with a checksum, in pieces.         *)

B(n) == [at |-> "byte", n |-> n]
Bytes(s) == [i \in 1 .. Len(s) |-> B(s[i])]
Raw(data, last) == [kind |-> "Raw", data |-> Bytes(data), last |-> last]
Rle(n, size, last) == [kind |-> "RLE", byte |-> B(n), size |-> size, last |-> last]
Compressed(lits, seqs, last) == [kind |-> "Compressed", lits |-> Bytes(lits), seqs |-> seqs, last |-> last]
Sequence(ll, of, ml) == [ll |-> ll, of |-> of, ml |-> ml]
Frame(window, dict, summed, blocks) == [window |-> window, dict |-> dict, summed |-> summed, blocks |-> blocks]
Literal == Frame(1, "none", FALSE, <<Compressed(<<1, 2, 3>>, <<>>, FALSE), Rle(4, 2, TRUE)>>)
Matched == Frame(2, "none", TRUE, <<Raw(<<1, 2>>, FALSE),
    Compressed(<<3, 4, 5>>, <<Sequence(1, 4, 2), Sequence(1, 1, 3), Sequence(0, 1, 1)>>, FALSE), Rle(6, 2, TRUE)>>)
WithDict == Frame(3, "d", FALSE, <<Compressed(<<1, 2>>, <<Sequence(1, 1, 3), Sequence(0, 3, 2)>>, FALSE), Raw(<<7>>, TRUE)>>)
Wide == Frame(4, "none", FALSE, <<Raw(<<7>>, TRUE)>>)
Provided == [d |-> [content |-> Bytes(<<8, 9>>), offsets |-> <<2, 3, 1>>]]

Coder == INSTANCE Decompression WITH
    HeaderLength <- 1, MaxHeader <- 2, BlockHeaderLength <- 1, SumLength <- 2, Packed <- 2, Dictionaries <- Provided, MaxWindow <- 3,
    NoDict <- "none", StageBytes <- 5, Bodies <- {}, MaxOffset <- 0, MaxLength <- 0, MaxWhole <- 30,
    Junk <- 0, Chunk <- 2, decoder <- conn, input <- up, output <- down, step <- server, body <- told

Text == Bytes(<<1, 2, 3>>)
Alone == {<<"identity">>, <<"gzip">>, <<"deflate">>, <<"br">>, <<"zstd">>, <<"zstd-rs">>}
Chained == {<<"gzip", "zstd-rs">>, <<"zstd-rs", "deflate">>, <<"br", "identity", "zstd">>}
Framed == Alone \ {<<"identity">>}
Encoded(names) == Coder!CodedBy(names, Text)
Cut(s) == SubSeq(s, 1, Len(s) - 1)
HostBody(names, encoded, plain, limit, whole, round) ==
    [names |-> names, encoded |-> encoded, plain |-> plain, limit |-> limit, whole |-> whole, round |-> round,
     arrivals |-> {1, 2, Len(encoded)}, spaces |-> {1, 2}]
HostBodies ==
    {HostBody(names, Cut(Encoded(names)), Text, 9, FALSE, 1) : names \in Framed \cup Chained}
    \cup {HostBody(names, Encoded(names), Text, IF names \in Alone THEN 3 ELSE 9, TRUE, 2) : names \in Alone \cup Chained}
    \cup {HostBody(names, Encoded(names), Text, 2, FALSE, 2) : names \in Alone}
    \cup {HostBody(names, Encoded(names) \o Encoded(names), Text \o Text, 6, names[1] \notin {"br", "deflate"}, 2) : names \in Framed}
    \cup {HostBody(<<"zstd-rs">>, Coder!Frames(<<Literal, WithDict>>), Coder!MeantBy(<<Literal, WithDict>>), 20, TRUE, 1)}
FrameBody(encoded, frames, whole) == [encoded |-> encoded, plain |-> Coder!MeantBy(frames), whole |-> whole]
HistoryBody(window, reused, dict) == [window |-> window, reused |-> reused, dict |-> dict]

DecodeCases ==
    [decode |-> HostBodies,
     decode_split |-> {HostBody(<<"zstd-rs">>, Coder!Frames(<<Matched>>), Coder!MeantBy(<<Matched>>), 20, TRUE, 1)},
     decode_readers |-> {FrameBody(Coder!Frames(<<Matched, WithDict>>), <<Matched, WithDict>>, TRUE),
                         FrameBody(Coder!Frames(<<Literal>>) \o Coder!Skippable(2) \o Coder!Frames(<<Matched>>), <<Literal, Matched>>, TRUE),
                         FrameBody(Cut(Coder!Frames(<<Literal, Matched>>)), <<Literal, Matched>>, FALSE),
                         FrameBody(Cut(Coder!Frames(<<WithDict>>)), <<WithDict>>, FALSE),
                         FrameBody(Coder!Frames(<<Wide, Literal>>), <<Wide, Literal>>, TRUE),
                         FrameBody(Coder!Frames(<<Literal, Wide>>), <<Literal, Wide>>, FALSE)},
     decode_stage |-> {HostBody(names, Encoded(names), Text, 9, TRUE, 1) : names \in {<<"zstd-rs", "deflate">>, <<"zstd-rs", "gzip">>}},
     decode_history |-> {HistoryBody(1, FALSE, <<>>), HistoryBody(2, TRUE, <<>>), HistoryBody(2, FALSE, <<101, 102>>)}]
Decode(k) == INSTANCE Decompression WITH
    HeaderLength <- 1, MaxHeader <- 2, BlockHeaderLength <- 1, SumLength <- 2, Packed <- 2, Dictionaries <- Provided, MaxWindow <- 3,
    NoDict <- "none", StageBytes <- (IF k = "decode_stage" THEN 3 ELSE 5), Bodies <- DecodeCases[k], MaxOffset <- 4, MaxLength <- 2,
    MaxWhole <- (IF k = "decode_history" THEN 5 ELSE 30), Junk <- (IF k = "decode_history" THEN 0 ELSE B(0)), Chunk <- 2,
    decoder <- conn, input <- up, output <- down, step <- server, body <- told

---------------------------------------------------------------------------
H2Parts == Parts \cap DOMAIN H2Cases
RedisParts == Parts \cap DOMAIN RedisCases
PgParts == Parts \cap DOMAIN PgCases
MyParts == Parts \cap DOMAIN MyCases
SmtpParts == Parts \cap DOMAIN SmtpCases
H1Parts == Parts \cap DOMAIN H1Cases
McParts == Parts \cap DOMAIN McCases
MongoParts == Parts \cap DOMAIN MongoCases
SessionParts == Parts \cap {"session", "session_routers", "session_pool"}
CursorParts == Parts \cap {"cursor", "cursor_limit"}
StreamParts == Parts \cap {"stream", "stream_old"}
SocketParts == Parts \cap DOMAIN SocketCases
TlsParts == Parts \cap DOMAIN TlsCases
ClusterParts == Parts \cap (DOMAIN ClusterCases \ {"sentinel"})
HostParts == Parts \cap {"decode", "decode_split", "decode_stage"}
ClientParts == Parts \cap DOMAIN ClientCases
PoolParts == Parts \cap {"sql", "mongo"}

\* The variables of the other parts have no value of interest.
NoPoolVars ==
    /\ policy = 0 /\ entries = 0 /\ waiters = 0 /\ callers = 0 /\ driving = 0 /\ unpolled = 0
    /\ progressed = 0 /\ woken = 0 /\ timer = 0 /\ failure = 0 /\ ended = 0 /\ now = 0
NoH2Vars == link = 0 /\ todo = 0 /\ over = 0
NoRedisVars == replies = 0 /\ next = 0 /\ losses = 0 /\ published = 0
NoWireVars == conn = 0 /\ up = 0 /\ down = 0 /\ server = 0 /\ told = 0 /\ truth = 0

Init ==
    /\ part \in Parts
    /\ \/ part = "sql" /\ SqlAsync!PoolInit /\ NoWireVars
       \/ part = "mongo" /\ MongoAsync!PoolInit /\ NoWireVars
       \/ \E k \in H2Parts : part = k /\ H2(k)!Http2Init /\ up = 0 /\ down = 0 /\ server = 0 /\ told = 0 /\ truth = 0
       \/ \E k \in RedisParts : part = k /\ Redis(k)!RedisInit /\ told = 0 /\ truth = 0
       \/ \E k \in PgParts : part = k /\ Pg(k)!PgInit
       \/ \E k \in MyParts : part = k /\ My(k)!MyInit
       \/ \E k \in SmtpParts : part = k /\ Smtp(k)!SmtpInit
       \/ \E k \in H1Parts : part = k /\ H1(k)!Http1Init
       \/ part = "http_pool" /\ HttpPooled!PoolInit /\ up = 0 /\ down = 0
       \/ \E k \in ClientParts : part = k /\ Client(k)!ClientInit
       \/ part = "http_server" /\ Web!ServerInit
       \/ \E k \in McParts : part = k /\ Mc(k)!MongoInit
       \/ \E k \in MongoParts : part = k /\ Mongo(k)!ClientInit
       \/ \E k \in SessionParts : part = k /\ MongoOps(k)!SessionInit
       \/ \E k \in CursorParts : part = k /\ MongoOps(k)!CursorInit
       \/ \E k \in StreamParts : part = k /\ MongoOps(k)!WatchInit
       \/ part = "bulk" /\ MongoOps("bulk")!BulkInit
       \/ \E k \in SocketParts : part = k /\ Socket(k)!SocketInit
       \/ \E k \in TlsParts : part = k /\ Tls(k)!TlsInit
       \/ \E k \in ClusterParts : part = k /\ Cluster(k)!ClusterInit /\ up = 0 /\ down = 0
       \/ part = "sentinel" /\ Cluster("sentinel")!SentinelInit /\ up = 0 /\ down = 0
       \/ \E k \in HostParts : part = k /\ Decode(k)!HostInit /\ truth = 0
       \/ part = "decode_readers" /\ Decode("decode_readers")!ReadersInit /\ truth = 0
       \/ part = "decode_history" /\ Decode("decode_history")!HistoryInit /\ truth = 0
    /\ IF part \in PoolParts THEN TRUE ELSE NoPoolVars
    /\ IF part \in H2Parts THEN TRUE ELSE NoH2Vars
    /\ IF part \in RedisParts THEN TRUE ELSE NoRedisVars

Next ==
    /\ \/ part = "sql" /\ SqlAsync!PoolNext /\ UNCHANGED wireVars
       \/ part = "mongo" /\ MongoAsync!PoolNext /\ UNCHANGED wireVars
       \/ \E k \in H2Parts : part = k /\ H2(k)!Http2Next /\ UNCHANGED <<up, down, server, told, truth>>
       \/ \E k \in RedisParts : part = k /\ Redis(k)!RedisNext /\ UNCHANGED <<told, truth>>
       \/ \E k \in PgParts : part = k /\ Pg(k)!PgNext
       \/ \E k \in MyParts : part = k /\ My(k)!MyNext
       \/ \E k \in SmtpParts : part = k /\ Smtp(k)!SmtpNext
       \/ \E k \in H1Parts : part = k /\ H1(k)!Http1Next
       \/ part = "http_pool" /\ HttpPooled!PoolNext /\ UNCHANGED <<up, down>>
       \/ \E k \in ClientParts : part = k /\ Client(k)!ClientNext
       \/ part = "http_server" /\ Web!ServerNext
       \/ \E k \in McParts : part = k /\ Mc(k)!MongoNext
       \/ \E k \in MongoParts : part = k /\ Mongo(k)!ClientNext
       \/ \E k \in SessionParts : part = k /\ MongoOps(k)!SessionNext
       \/ \E k \in CursorParts : part = k /\ MongoOps(k)!CursorNext
       \/ \E k \in StreamParts : part = k /\ MongoOps(k)!WatchNext
       \/ part = "bulk" /\ MongoOps("bulk")!BulkNext
       \/ \E k \in SocketParts : part = k /\ Socket(k)!SocketNext
       \/ \E k \in TlsParts : part = k /\ Tls(k)!TlsNext
       \/ \E k \in ClusterParts : part = k /\ Cluster(k)!ClusterNext /\ UNCHANGED <<up, down>>
       \/ part = "sentinel" /\ Cluster("sentinel")!SentinelNext /\ UNCHANGED <<up, down>>
       \/ \E k \in HostParts : part = k /\ Decode(k)!HostNext /\ UNCHANGED truth
       \/ part = "decode_readers" /\ Decode("decode_readers")!ReadersNext /\ UNCHANGED truth
       \/ part = "decode_history" /\ Decode("decode_history")!HistoryNext /\ UNCHANGED truth
    /\ UNCHANGED part
    /\ IF part \in PoolParts THEN TRUE ELSE UNCHANGED poolVars
    /\ IF part \in H2Parts THEN TRUE ELSE UNCHANGED h2Vars
    /\ IF part \in RedisParts THEN TRUE ELSE UNCHANGED redisVars

Spec == Init /\ [][Next]_vars

---------------------------------------------------------------------------
\* Of the SQL and the MongoDB pool: every lease is held by one caller, on its
\* way to one, or given back, and there are never more connections than the
\* maximum.  The HTTP pool counts the users of each connection, times out just
\* the idle ones, and its client pools only connections that are clean.  The
\* MongoDB client counts the commands under way on each server, a session uses
\* no number twice, and a cursor that is given up is killed at the server.  No
\* flow-control credit of HTTP/2 is lost or made up.
LeasesAreAccounted ==
    /\ part = "sql" => SqlAsync!LeasesAreAccounted /\ Cardinality(DOMAIN entries) <= MaxConnections
    /\ part = "mongo" => MongoAsync!LeasesAreAccounted /\ Len(policy.entries) <= MaxConnections
    /\ part = "http_pool" => HttpPooled!PoolCounts /\ HttpPooled!IdleIsTimed /\ HttpPooled!PoolTimeoutIsExact
    /\ \A k \in ClientParts : part = k => Client(k)!TablesAgree /\ Client(k)!PooledIsClean /\ Client(k)!NeverWaits
    /\ \A k \in MongoParts : part = k => Mongo(k)!LoadIsBounded
    /\ \A k \in SessionParts : part = k => MongoOps(k)!NumbersAreSpent
    /\ \A k \in CursorParts : part = k => MongoOps(k)!CursorsAreKilled
    /\ \A k \in H2Parts : part = k => H2(k)!CreditIsConserved

\* Nothing that merely crosses fails an endpoint: the SQL policy refuses no
\* report of the scheduler, which would end the pool; frames under way when an
\* HTTP/2 stream ends, or settings change, fail no connection; no message of a
\* correct HTTP/1, PostgreSQL or MySQL peer is taken for a protocol error; and
\* no task of the HTTP server misses a stop.
RacesAreTolerated ==
    /\ part = "sql" => SqlAsync!ReportsAreAccepted
    /\ \A k \in H2Parts : part = k => H2(k)!InFlightIsTolerated
    /\ \A k \in PgParts : part = k => Pg(k)!PgTolerates
    /\ \A k \in MyParts : part = k => My(k)!MyTolerates
    /\ \A k \in H1Parts : part = k => H1(k)!Http1Tolerates
    /\ part = "http_server" => Web!StopIsHeard /\ Web!StoppedIsWoken

\* The host is told once how its request ended: each end of an HTTP/2 stream,
\* each HTTP/1 request, each accepted Redis, PostgreSQL and MySQL command, each
\* mail; and it gets the body of one response, however often it is redirected.
ToldOnce ==
    /\ \A k \in H2Parts : part = k => H2(k)!EndsAreToldOnce
    /\ \A k \in RedisParts : part = k => Redis(k)!OneReplyEach
    /\ \A k \in PgParts : part = k => Pg(k)!PgToldOnce
    /\ \A k \in MyParts : part = k => My(k)!MyToldOnce
    /\ \A k \in SmtpParts : part = k => Smtp(k)!SmtpToldOnce
    /\ \A k \in H1Parts : part = k => H1(k)!Http1ToldOnce
    /\ \A k \in ClientParts : part = k => Client(k)!OneBody
    /\ \A k \in McParts : part = k => Mc(k)!SettledOnce

\* What the host is given is what its peer sent for it.  An answer belongs to
\* the command it is given for; a retried MongoDB write is applied once, and a
\* commit that is repeated is repeated with majority; rows, events, messages,
\* records and plaintext come in the order of the sender, each once; bulk batches
\* hold the models in order; a Redis cluster runs a command where its slot is.
AnswersMatch ==
    /\ \A k \in RedisParts : part = k => Redis(k)!RepliesMatch
    /\ \A k \in PgParts : part = k => Pg(k)!PgAnswersMatch
    /\ \A k \in MyParts : part = k => My(k)!MyAnswersMatch
    /\ \A k \in SmtpParts : part = k => Smtp(k)!SmtpAnswersMatch
    /\ \A k \in H1Parts : part = k => H1(k)!Http1AnswersMatch
    /\ \A k \in McParts : part = k => Mc(k)!RepliesMatch
    /\ \A k \in MongoParts : part = k => Mongo(k)!WrittenOnce
    /\ \A k \in SessionParts : part = k => MongoOps(k)!RetriedCommitIsMajority
    /\ \A k \in CursorParts : part = k => MongoOps(k)!RowsInOrder
    /\ \A k \in StreamParts : part = k => MongoOps(k)!EventsInOrder
    /\ part = "bulk" => MongoOps("bulk")!BatchesAreExact
    /\ \A k \in SocketParts : part = k => Socket(k)!MessagesMatch
    /\ \A k \in TlsParts : part = k => Tls(k)!RecordsInOrder /\ Tls(k)!PlaintextInOrder
    /\ \A k \in ClusterParts : part = k => Cluster(k)!RunsWhereItBelongs
    /\ part = "sentinel" => Cluster("sentinel")!SeedsInTurn

\* When all is quiet the two ends of a connection agree on the state that
\* outlives commands: what is subscribed at the Redis server, the transaction
\* and the named statements of a SQL session, the mail transaction, the
\* boundary of HTTP/1 messages.  A redirected request keeps its credentials only
\* at the origin they are for, and an HTTP server has joined all its services.
\* A MongoDB client knows one primary, its pools are those of its servers, a
\* connection it reuses is clean, and it is not told that a transaction ended
\* otherwise than it did.  Both ends of a WebSocket agree on the subprotocol and
\* on the close; a Redis client's slot map names nodes that owned their slots,
\* and Sentinel discovery ends at a master.
EndsAgree ==
    /\ \A k \in RedisParts : part = k => Redis(k)!SubscriptionsAgree
    /\ \A k \in PgParts : part = k => Pg(k)!PgEndsAgree
    /\ \A k \in MyParts : part = k => My(k)!MyStatementsAgree /\ My(k)!MyReusableIsClean
    /\ \A k \in SmtpParts : part = k => Smtp(k)!SmtpEndsAgree
    /\ \A k \in H1Parts : part = k => H1(k)!Http1EndsAgree
    /\ \A k \in ClientParts : part = k => Client(k)!CredentialsStay
    /\ part = "http_server" => Web!JoinsAll /\ Web!InFlightFinishes
    /\ \A k \in McParts : part = k => Mc(k)!ReusableIsClean
    /\ \A k \in MongoParts : part = k => Mongo(k)!OnePrimary /\ Mongo(k)!PoolsFollowServers
    /\ \A k \in SessionParts : part = k => MongoOps(k)!OutcomesHold
    /\ \A k \in SocketParts : part = k => Socket(k)!ProtocolsAgree /\ Socket(k)!CloseIsMutual
    /\ \A k \in ClusterParts : part = k => Cluster(k)!MapKnowsOwners
    /\ part = "sentinel" => Cluster("sentinel")!DiscoveredIsMaster

\* A compressed body, in whatever pieces it arrives, is decoded to what it means;
\* what is cut, damaged, too long or followed by something else is not accepted,
\* and the decoder asks for input only when it can do nothing without.  Below it
\* the Zstandard readers return what their frames mean, from a ring that keeps
\* the window and the dictionary whatever moves in it.
BodiesAreDecoded ==
    /\ \A k \in HostParts : part = k => Decode(k)!BodyIsDecoded /\ Decode(k)!ReasonIsTrue
    /\ part = "decode_readers" => Decode("decode_readers")!ReadersReturnContent
    /\ part = "decode_history" => Decode("decode_history")!HistoryIsKept

\* A call of the streaming decoder consumes no more than it was given: "Retain
\* input after `consumed'" has a meaning.
ConsumesTheGiven == \A k \in HostParts : part = k => Decode(k)!ConsumesTheGiven
=============================================================================
