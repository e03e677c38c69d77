# libdelphi: models and proofs

TLA+ modules that model libdelphi, a C++ library of Delphi-style classes: an epoll
event loop with TCP, HTTP and WebSocket servers and clients on top, a Postgres
connection pool, threads, and a stock of strings, collections and file formats.
TLC checks the models on small instances, TLAPS proves the main safety properties for
all instances. `PROJECT.json` lists the components, the runs, the source lines each
definition stands for, and the hazards the properties are aimed at.

## Parts of the library

| Component | State | Operations | What is hard |
| --- | --- | --- | --- |
| Event loop (`CEPoll`, `CPollEventHandlers`, `CPollEventHandler`, `CPollStack`) | list of handlers, each with socket, event type, binding; the kernel's interest list | `Wait`, `PackEventHandlers`, `CheckTimeOut`, `Start`, `Stop` | raw pointers held for a batch, callbacks that stop other handlers, reuse of socket numbers, swallowed `epoll_ctl` errors |
| Connections (`CPollConnection`, `CTCPConnection`) | lock count, time-out, auto-free, IO handler, gracefully-closed flag | `Lock`, `Unlock`, `Disconnect`, `Close`, `UpdateTimeOut` | a connection that outlives its handler, nested locks, callbacks inside a disconnect |
| Asynchronous server and client (`CTCPAsyncServer`, `CAsyncClient`, `CTCPAsyncClient`) | activity level, listening socket | `SetActiveLevel`, `DoAccept`, `ConnectStart`, `DoConnect`, `DoRead`, `DoWrite` | exceptions between two steps of setting a connection up |
| Postgres pool (`CPQConnectPoll`, `CPQServer`, `CPQConnection`, `CPQQuery`) | connections by status, queries, the queue of waiting queries, a maintenance timer | `CPQPollQuery::Start`, `GetReadyConnection`, `NewConnection`, `DoRead`, `DoWrite`, `DoTimer`, `CheckQueue`, `CheckNotify` | libpq changes sockets under the loop, starts from inside callbacks, queries lost on failure, the pool's limits |
| Work queue (`CQueue`, `CQueueCollection`, `CQueueHandler`) | a list of items per key | `AddToQueue`, `RemoveFromQueue`, `DeleteHandler` | handlers deleted while locked, a progress counter beside the list |
| Threads (`CThread`), `CheckSynchronize` | suspended, terminated, finished; the list of methods to run on the main thread | `Suspend`, `Resume`, `Terminate`, `WaitFor`, `Synchronize` | unlocked flags, lost wake-ups |
| Thread-per-connection server (`CTCPServer`, `CListenerThread`, `CPeerThread`, `CSocketThread`) | thread list, per-thread stop mode | `Start`, `Stop`, `Cleanup` | stop racing with start, a pool of threads |
| Connection buffers | input, output and write buffers | `ReadLn`, `ReadFromStack`, `WriteBuffer`, `FlushOutputBuffer` | partial reads and writes, disconnect while buffered |
| WebSocket (`CWebSocket`, `CWebSocketConnection`, `CWebSocketParser`) | frame being parsed, fragments, reply | `ParseInput`, `SendWebSocket`, `SendWebSocketPing` | frames split over reads, control frames between fragments, pushes while a frame is parsed |
| WebSocket message protocol (`CSessionManager`, `CSession`, `CMessageHandler`) | sessions, their connections, the calls they wait for | `Add`, `SwitchConnection`, `FindMessageById` | a session that moves to another connection while callbacks delete it |
| HTTP (`CHTTPRequestParser`, `CHTTPReplyParser`, server, client, proxy) | parser state, connection status, the proxy's type | `Consume`, `ParseInput`, `SendReply`, `DoRequest`, `SOCKS5` | incremental parsing, keep-alive, a dialogue whose replies are told by their length |
| SMTP client (`CSMTPClient`, `CSMTPConnection`, `CSMTPReplyParser`) | messages, the current one and its recipient, command and reply | `SendMail`, `SendNext`, `DoCommand`, `DoTO`, ... | order of commands and replies, a new connection for every message |
| CURL wrapper (`CCURLClient`) | transfers of libcurl, a handler for each of its sockets, one timer | `Perform`, `UpdateTimer`, `DoTimer`, `DoEvent`, `MultiInfo` | a timer freed or stopped while a transfer waits for it |
| Collections, streams, strings, JSON, ini files, Base64, variants, system utilities | containers and documents | pure operations | index arithmetic, parsers |
| Application, processes, signals; SQLite; OAuth2; messages | process tables, handles | system calls in sequence | little beyond the calls themselves |

The parts meet in the event loop. A server or client owns a list of handlers
(`CPollEventHandlers`), possibly shared (`ExternalEventHandlers`); the kernel's interest
list holds raw pointers to them. A handler and its connection point at each other.
`Wait` calls the owner's `DoAccept`, `DoConnect`, `DoRead`, `DoWrite`, and these call the
application (`OnConnected`, `OnExecute`, `OnDisconnected`, `OnException`), which may lock,
unlock and disconnect any connection and start new ones. Only the pack at the end of a pass
and `SetActiveLevel` destroy handlers. The Postgres pool and the HTTP, SMTP and libcurl clients are
users of the same loop.

## Modules

| Module | Models |
| --- | --- |
| `EventPoll` | the event loop, connections, the asynchronous server and client |
| `EventPollProofs` | its theorems |
| `PQConnectPoll` | the Postgres connection pool: connections over libpq, queries, the queue, the timer, on the event loop |
| `PQConnectPollProofs` | its invariants, proved |
| `QueryService` | what the pool promises of a query: the abstract specification it implements |
| `QueryServiceProofs` | the proof that it does |
| `HTTPParser` | the incremental parsers of requests and replies, and the serializers: operators only |
| `HTTPExchange` | a client and a server over one connection, reads and writes cut anywhere; extends `HTTPParser` |
| `HTTPProxy`, `HTTPProxyProofs` | the client of an HTTP proxy or a SOCKS5 server; its theorems |
| `TCPServer` | the server with a thread for each connection, `CThread` and the list of threads |
| `TCPServerProofs` | its theorems |
| `ListLemmas` | what the list operations of the community modules do at every length, induction and recursion on numbers; shared by the proof modules other than `EventPollProofs` |
| `WebSocketFrame` | a frame, its bytes, and the parser that goes on with the next read: operators only |
| `WebSocket` | a WebSocket connection of the server; extends `WebSocketFrame` |
| `Sessions` | sessions and calls over WebSocket connections |
| `SMTPClient` | the SMTP client and its command handlers |
| `CURLClient` | the client that runs libcurl's transfers on the event loop |
| `ChannelProofs` | the theorems of these three |
| `ListOps` | the array of pointers under `CList` and `TList`: operators only |
| `ListSequence` | what a list promises: the abstract specification it implements |
| `Lists` | `CList` and `TList` |
| `Collections` | `CCollection`, `CCollectionItem`, `CQueue`; extends `Lists` |
| `Streams` | `CMemoryStream`, `CString` as buffer, text and stream |
| `StringList` | `CStrings`, `CStringList` |
| `IniFile` | `CMemIniFile`; extends `StringList` |
| `JSONText`, `JSONDocument` | the text of JSON documents and its parser; a document and its operations |
| `Base64` | the encodings of `Base64.cpp` |
| `Dates` | `CDateTime`: encoding, decoding, text |
| `DocumentProofs` | the theorems of `Lists`, `Collections` and `Base64` |
| `MCEventPoll`, `MCPQConnectPoll`, `MCHTTPExchange`, `MCTCPServer` | instances for TLC |
| `MCChannels` | instances of `WebSocket`, `SMTPClient`, `Sessions`, `HTTPProxy`, `CURLClient` |
| `MCDocuments` | instances of `Collections`, `Streams`, `IniFile`, `JSONDocument`, `Base64`, `Dates` |

`MCChannels` and `MCDocuments` put modules side by side that share no state: a variable `part` says which one a
behaviour is of, and the others stand still.

### EventPoll

State and code:

| Variable | Code |
| --- | --- |
| `handler` | `CPollEventHandler`: `m_EventType`, `m_Socket`, `m_pBinding`; an id is *unborn*, then live, then *freed* |
| `conn` | `CPollConnection` and `CTCPConnection`: `m_pEventHandler`, `m_pIOHandler` with its socket, `m_ClosedGracefully`, `m_Lock`, `m_AutoFree`, `m_TimeOut` |
| `epoll` | the kernel's interest list, `data.ptr` by socket number |
| `level`, `listenFd` | `CAsyncServer::m_ActiveLevel` and the listening socket |
| `lost` | sockets left open without an owner when `Connect` throws in `ConnectStart` |
| `pc`, `batch`, `cb`, `toPack` | where the thread is in `Wait`: the events not dispatched yet, the callback in progress, the handlers the pack has still to visit |

One action is one handler of the code up to the point where the application takes over, and
from there to the next such point: `DispatchAccept` is `DoAccept` up to `OnConnected`,
`CallbackReturns` or `AcceptThrows` the rest of it. `DispatchConnect`, `DispatchRead` and
`DispatchWrite` are `DoConnect`, `DoRead` and `DoWrite`; `ReadEof`, `ReadReset` and
`WriteFails` are what the peer does to them. `PackKeeps`, `PackDeletes` and
`PackTimesOut` are one turn of `PackEventHandlers`. Inside a callback, and between two calls
of `Wait`, the application may lock and unlock (`AppLock`, `AppUnlock`), disconnect any
connection (`AppDisconnect`) and start clients (`ConnectStart` and its variants, by outcome
of the connect). `OnDisconnected` runs in the middle of a method, so the helpers that call it
(`DisconnectSocket`, `Disconnect`, `Reset`) yield the set of records it may leave.

Time is kept to what the code can tell apart. A time-out is `zero` (never set), `fresh` (set
in this pass), `stale` (set in an earlier pass: it may be due) or `infinite`. The parameter
`PollTimeOut` decides whether a fresh time-out can be due already.

What the model leaves out or fixes:

- ids are not reused, so that a use of a destroyed object shows; socket numbers are reused;
- a step that follows a pointer to a destroyed handler ends in `pc = "undefined"`. The proofs
  show where that is possible: only for a connection that was locked when its handler was
  destroyed (`AppDisconnectOrphan`, `ClearEndHeld`);
- the pack visits handlers in any order (the code: last to first);
- which of its events a socket reports is chosen at dispatch; edge triggering, which can only
  suppress events, is not modelled;
- `OnDisconnected` locks or unlocks its own connection at most; anything else the application
  does happens in the other callbacks;
- `SetActiveLevel` is called between two calls of `Wait`, never from a callback;
- an asynchronous client keeps `AutoFree` false (its default), so `FreeClient` does nothing;
- every pass has a new timestamp, later than the one before (`SetTimeStamp` skips equal ones);
- `epoll_wait` interrupted by a signal changes nothing (a stutter);
- a connection deleted because `AfterAccept` threw is created and deleted in one step, and
  `OnConnected` of a client whose connect succeeds at once is one step as well;
- timers and user events (`etTimer`, `etEvent`: see `PQConnectPoll` and `CURLClient`), TLS and the data read and written.

### PQConnectPoll

| Variable | Code |
| --- | --- |
| `handler`, `list`, `epoll` | the handlers (type, socket, binding), the order of `m_pEventHandlers`, the kernel's interest list |
| `conn`, `pool` | the `CPQPollConnection` objects (`m_ConnectionStatus`, `m_Socket`, `m_PollingStatus`, `m_pEventHandler`, `m_AntiFreeze`) with their `PGconn`; the order of `m_ConnectManager` |
| `work` | `m_WorkQuery` of each connection |
| `queue`, `fate` | `m_Queue`; what the application has been told of each query |
| `active`, `timed` | `m_Active`; whether `m_TimerInterval` has been set |
| `calls` | the calls of `CPQPollQuery::Start` and `CPQConnectPoll::Start` in progress, the innermost first |
| `pc`, `batch`, `cur`, `at` | where the thread is in `Wait`: events left, the event in progress, the index of a loop |
| `faults` | how much has gone wrong in libpq, the network and the server |

`CPQPollQuery::Start` is not one step. `GetReadyConnection` walks the connections and may close,
reset or reconnect several, then create one; each call into libpq has several outcomes; and
`OnException`, `OnConnectException`, `OnPollExecuted` and `OnNotify` hand control to the
application, which may start other queries there. So `Start` is a frame on the stack
`calls`, and one action is one turn of its loop or one libpq call: `ScanPasses`, `ScanCloses` (a
connection frozen for ten seconds), `ScanResets` and `ScanReconnects` (`ResetStart`), `ScanEnds`
(no connection is ready), `ConnectStart` and its failures, `PollInCall` (`ConnectPoll`, `ResetPoll`),
`QueryStart` and `QueryStartThrows`, `Park` (`AddToQueue`), `StartFails`. `ReadPolls` to `Fault`
are the branches of `DoRead` up to and after its callbacks, `DispatchWrite` to `WriteIgnored`
those of `DoWrite`, `DispatchTimer` and `Shrink*` are `DoTimer` and `PackConnections`,
`PackDeletes` the end of the pass. `CheckSocket`, `Disconnect`, `Delete`, `Destroy` and
`NewEventHandler` are functions from the objects to the objects, so that the methods compose as
they do in the code.

libpq is outside: `Polled` gives what one call of `PQconnectPoll` may do: need another poll, connect,
fail, or move to another socket, which may get the number just closed.

What the model leaves out or assumes:

- objects are reused once they are destroyed, and a pointer left behind becomes `DANGLING`;
  following one ends in `pc = "undefined"` (`FollowsDangling`). Two sequences of failures do reach it,
  which is why `NothingDangles` is stated without failures: a connection frozen for ten seconds is
  closed but keeps its handler and gets a second one when it is reset; and a connection deleted by its
  second handler leaves the first one's binding;
- a query counts as answered when `OnPollExecuted` is told, with whatever result;
- `PQflush` sends a query whole or fails; results come all at once;
- the application starts queries between two passes, in `OnPollExecuted`, `OnNotify`,
  `OnConnectException` and, with `Retries`, in `OnException`; it starts none in `OnSendQuery`,
  `OnConnected`, `OnStatus` or `OnPQError`, and does not lock connections of the pool;
- the connections named in `Listening` are given to `LISTEN` when they are connected;
- with `AnyFd` the rest of the program opens and closes files, so that a new socket may get any
  free number; without it, one fixed choice;
- `full`: a connection was served while its socket was not writable, so that the kernel owes it
  a writable edge (`EPOLLET`);
- handlers and socket numbers running out is no step: the bounds leave room, or the instance stops.

`Stage` maps the state to `QueryService`: told of the outcome, on a connection, in the queue or in a
`Start` in progress, or in none of these: lost.

### HTTPParser and HTTPExchange

`HTTPParser` has no state of its own. A parser is a record: what a connection keeps from one read
to the next (`Memory`: state, lengths, message) and what `CHTTPContext` and `CHTTPReplyContext` hold only
during a read (the rest of the buffer, a half-read escape, a half-read chunk size). `ConsumeRequest` and
`ConsumeReply` are the two `Consume` functions, `ParseRequest` and `ParseReply` the loops around
them, with the results 1, 0 and -1 of the code. The states that only compare one byte are tables
(`RequestSteps`, `ReplySteps`); the others are `RequestLine`, `HeaderStep`, `FormStep`, `ContentStep`, `StatusStep`
and `ChunkStep`. `RequestBytes` and `ReplyBytes` are `ToBuffers` after `Prepare` and `InitReply`.
A byte is a string; a word such as `"Length"` is one byte that stands for letters the parsers treat alike.
Two headers are kept for each kind of message, those that the framing depends on: Host, Date, Server and the
others are left out, and so are cookies, multipart forms and the path of the URI as a location.

`HTTPExchange` has two processes, `"client"` and `"server"`, and a socket between them:

| Variable | Code |
| --- | --- |
| `conn[s]` | the connection of a side: `m_ConnectionStatus`, the parser's memory, `m_OutputBuffer` (`out`), `m_ClosedGracefully` (`graceful`), `m_CloseConnection` (`close`), whether the IO handler is still there (`open`); `full`: the kernel owes it a writable edge |
| `wire[s]` | bytes sent to a side and not read by it, at most `capacity` of them |
| `pc[s]` | waiting, or between `DoRead` and `DoWrite` of one event |
| `asked`, `served`, `replied`, `answered` | history: requests of the client's application, messages given to `OnExecute` on each side, replies sent |
| `forgot[s]` | history: a read of this side ended where the parser loses its place |

| Action | Code |
| --- | --- |
| `ServerReadPart`, `ServerExecutes`, `ServerDefers`, `ServerRejects`, `ServerReadsEnd` | `CHTTPServer::DoRead` by the result of the parser; in `OnExecute` the application answers at once (`ServerExecutes`, with `SendReply` now or later) or not yet (`ServerDefers`) |
| `ServerWrites`, `ServerTimesOut` | `CHTTPServer::DoWrite`, `DoTimeOut` |
| `ServerReplies` | `SendReply` by the application, outside of an event |
| `ClientRequests` | `SendRequest` by the application, outside of an event |
| `ClientReadPart`, `ClientExecutes`, `ClientRejects`, `ClientReadsEnd`, `ClientWrites` | `CHTTPClient::DoRead`, `DoWrite` |

Each read takes any non-empty part of what was sent, so that every message is cut in every way;
`ReadAsync` reads to the end of what has arrived. A write takes what the socket has room for. A peer that
resets the connection, SSL, `SendFileReply`, command handlers and the switch to WebSocket are not modelled; proxies are in `HTTPProxy`. The
client asks for one thing at a time: it sends no request before it has the reply to the last, and not from inside
`OnExecute`.

`LosesPlace` names the reads after which the parsers cannot go on: inside an escape or a chunk's
size (the context is new in each read), at the end of a chunk's content, inside the last bytes of a form. What a
parser makes of the bytes after such a read is noise, and the passing run does not follow it
(`FollowLost = FALSE`); `http_chunked` does. `ClientRejects` needs such noise: a server of this library
sends nothing else that a client of it rejects.

### HTTPProxy

| Variable | Code |
| --- | --- |
| `proxy` | `CHTTPProxy`: `m_ProxyType` (`type`; `kind` is what the application gave it), `m_Active`, `m_UsedSSL`, whether the request is for https |
| `tunnel`, `tunnelPc` | the `CHTTPClientConnection` in use; waiting, or between `DoRead` and `DoWrite` |
| `downstream`, `upstream` | what the client has yet to read, and what the server has, each piece with whether it was sent over TLS |
| `relay` | the proxy or SOCKS5 server, external, with the target behind it |
| `traffic`, `dials` | history: requests, what the server kept for itself, what the target got, its replies, the answers given to the application, and what has led the dialogue astray |

`ProxyDials` is `DoConnectStart` and `DoConnect`, `ProxyReads` is `DoRead` with `SOCKS5`, `DoHandshake` and `SetUsedSSL`,
`ProxyWrites` and `ProxyWritesSOCKS5` are `DoWrite`, `ProxyTimesOut` is `DoTimeOut`. Every message is two or three pieces that
a read or a write may cut. A write that finds the socket full (`room = 0`) sets `m_ClosedGracefully`: `CHTTPClient::DoWrite` then deletes the connection
at once, and so does the next write of the SOCKS5 dialogue. An event of its own for a write has room; the one that follows a read in
the same event may not (`HasRoom`). What `DoRead` throws while it negotiates is not caught before the application's own
handler around `Wait`.

What the model leaves out: `OnRequest` builds the same request each time; the SOCKS5 server answers one method
and one address; the server connection for whose sake the proxy exists (`m_pConnection`) and what the
application does with it. A reply to the application is the end of the connection.

### TCPServer

One process for each listener, each peer and the main thread, each with a `pc`.

| Variable | Code |
| --- | --- |
| `suspended`, `terminated` | `CThread::m_bSuspended`; `m_bTerminated` with `CSocketThread::m_Stopped` |
| `threads`, `lock` | `CTCPServer::m_Threads` and its lock |
| `conn`, `closing` | `CTCPServerConnection` of each peer: IO handler, flags; where a thread is in `DisconnectSocket` |
| `socket`, `pending`, `items` | the listening sockets; the peer a listener is starting; who is inside `CCollection::InsertItem` or `RemoveItem` of the connections, a list without a lock |
| `told`, `timedOut` | history: what the application was told of a connection; `TerminateAllThreads` gave up |
| `undefined` | two threads freed one object, or changed the list of connections together: nothing is said of what follows |

A step ends where another thread can see the difference. `Listen` to `Start` are
`CListenerThread::Execute` with `CThreadMgrDefault::GetThread`; `BeforeRun` to `FreeConnection` are
`CSocketThread::Execute` and `CPeerThread`; `CreateListener` to `WaitThreads` are
`CTCPServer::SetActive`, `TerminateListenerThreads` and `TerminateAllThreads`, `Destroy` the destructor. `Suspend` and
`Resume` are signals: `Resume` before the thread has begun to wait is lost unless the flag is seen. `AcceptInterrupted` and
`AcceptFails` end the listener, as in the code. `ClientCloses` is the peer. What the model leaves out: priorities, exit codes,
`Synchronize`, a second activation of the same server (it uses deleted listeners: see below), and the thread pool, of which the
library has only the interface.

`SetActive(true)` goes through the bindings one by one (`CreateListener`, `ResumeListener`). At each of them it may throw
(`ActivationFails`): no socket, an address in use, no thread. `m_Active` is set behind the loop, so the listeners of the bindings before stay
as they are, `SetActive(false)` and the destructor do nothing, and after the destructor (`"torn"`) they use a server
that is gone (`undefined`).

### WebSocketFrame and WebSocket

`Layout` is RFC 6455's frame; `SaveToStream` and `LoadFromStream` are the code's. A byte is a tuple that begins with
what it is in a frame; a byte of data carries the key bytes it was xored with, so that the wrong key shows.

| Variable | Code |
| --- | --- |
| `conn` | `CWebSocketConnection`: `m_WSRequest`, `m_WSReply` (state, header, payload, position), `m_OutputBuffer`, status, flags |
| `toUs`, `sent`, `peer` | what the peer has sent, and whether it masks and is inside a fragmented message |
| `taken` | what the socket took, and how much it takes before the peer reads |
| `got`, `told` | history: messages given to `OnExecute`, frames the server has queued |
| `torn` | history: the parser has lost its place (`Tears`, `Clear`) |

`ServerReads` is `DoRead` of one event: any non-empty part of what has arrived, parsed frame by frame
(`ParseStream`), with the application's answer to a message (`Executes`) and the library's to control frames (`Handles`);
`ServerWrites` is the `DoWrite` after it or of an event of its own. `AppSends` is `SendWebSocket` or `SendWebSocketPing` outside
of an event.

`Wait` decides on `DoWrite` by the event's mask, taken before `DoRead` (`Sockets.cpp:4541`). If the answer written inside `DoRead` fills the socket, the
`DoWrite` that follows meets EAGAIN, `WriteBufferAsync` sets `m_ClosedGracefully` (1763), and the connection is disconnected
with the frame cut. `ServerReads` therefore looks at the room before it reads, and `ServerWrites` has this end.

What is left of the truth when `torn`: a read that ends between the fragments of a message with a control frame, or inside
a control frame, is answered from, or overwrites, the message being put together; a push or a reply that is written at once
calls `Clear`, which forgets a frame that is being parsed. A read that ends inside the header, the extended length or the key makes
`LoadFromStream` throw and the connection is closed. The properties hold up to such an event, and name it. `FramesExact`
leaves out masked frames without payload, whose key `SaveToStream` does not write.

### Sessions

| Variable | Code |
| --- | --- |
| `links` | `CHTTPServerConnection`: connected, closed, freed; `Object()`, its session |
| `sessions` | the items of `CSessionManager`: `m_pConnection`, update count, handlers (`CMessageManager`) |
| `calls`, `wired` | every call by its `UniqueId`, and the calls on their way to a peer |
| `misled`, `wild` | history: the handler of another call ran; a freed object was touched |

The application is external and follows the examples of the headers: it looks the session up by who opens the connection, or adds one
(`Opens`); deletes the session of a connection that breaks unless the session is being updated (`Breaks`). `Calls` is
`CMessageManager::Add` with the request on its way, `Answered` the answer, looked up with `FindMessageById`, whose handler the application runs
and deletes (the library never does). The application keeps to what the
library needs: it never calls `SwitchConnection(nullptr)` and never makes two sessions on one connection, which leave
a dangling `m_pConnection`.

### SMTPClient

| Variable | Code |
| --- | --- |
| `messages`, `client` | `m_Messages` with recipients and `Submitted`; `m_Active`, `m_Index`, `m_ToIndex`, `m_bStartTls`, the port's TLS |
| `smtp`, `smtpPc` | the `CSMTPConnection` in use: status, command with the code of its reply, output, TLS; the event loop |
| `toClient`, `toServer`, `server` | the bytes of replies and of commands on their way, the external server |
| `outcome`, `replies` | history: what was concluded by `Done` and `Fail`, what the server accepted, credentials sent in the clear, the events that lose sight of a message |

`Consume` and `Parse` are the reply parser, made anew for each read; `DoCONNECT` to `DoQUIT` the command handlers, `Handled`
the choice of one and what its exception does; `SendNext`, `ConnectStart` the way from one message to the next.
`ClientReads`, `ClientWrites`, `ClientTimesOut` are events of the loop; `AddsMessage` and `SendsMail` calls of the application. The
server answers a command with any code its specification allows for it, in one line or two. What the model leaves out: the
text of the mail, and so its lines that begin with a dot, which `CSMTPClient` does not double.

### CURLClient

| Variable | Code |
| --- | --- |
| `fetches` | `CCurlAsyncFetch`: what its transfer waits for, by libcurl, and how often the application was told its end |
| `polled`, `assigned` | the handlers of the loop; the handler libcurl keeps for a socket (`curl_multi_assign`) |
| `asked` | libcurl has asked to be called in time |
| `curl` | `m_pTimer`, `m_StillRunning` |
| `curlPc`, `due` | waiting, in a batch, or inside `MultiInfo`, for a timer or an event; what is left of the batch |
| `astray` | history: what the client has not recovered from; a destroyed object was used |

libcurl is external: `SocketAction` is one call of `curl_multi_socket_action`, after which a transfer waits for a socket
or for time, or has finished; `TellSockets` and `TellTimer` are the callbacks it makes on the way (`SocketCallBack`,
`UpdateTimer`). What libcurl says of the sockets in one call goes by what has become of each: it is kept (`Kept`), given up and removed
(`GivenUp`), or taken and added (`Taken`), at any free places of the list, since the order in which libcurl calls back is its own. A handler is known by its place; a place is used again once its
handler is destroyed, as addresses are, and a pointer that was left behind is `DANGLER`. `AppPerforms` is `Perform`; `DoTimer`, `DoEvent` the loop's two events up to `MultiInfo`, and
`TimerFails`, `EventFails` the same when libcurl reports an error. `Concludes`, `ConcludeThrows` and `InfoEnds` are
`MultiInfo` message by message: the application's handler may start the next fetch, or throw. `Packs` is `PackEventHandlers`,
which deletes the timer with a handler that still has it. What the model leaves out: options and buffers of a request (`CCurlApi`) and
its blocking calls; `Perform` from inside `OnWrite`, which libcurl refuses; `Perform` of an empty POST, which throws and
never deletes the fetch; destruction of the client with transfers in progress.

### ListOps, ListSequence and Lists

A list is its cells, its capacity and its count; the cells behind the count hold `Junk`. `ListOps` has what both classes do to
cells (`SetCapacity`, `Expand`, `MoveMemory`, `QuickSort`); `Lists` has the operations of `CList` (`List...`) and of `TList`
(`T...`), whose cells hold addresses of copies in `heap`. Each `Call...` action is one call with its arguments, among them those that
raise an exception. `ListSequence` says what each of them does to a sequence: `ListIsSequence` is the refinement. What a sort or an
`Assign` leaves is a choice of items at indices that rise (`Choice`) or an order of the items (`Orders`), never a loop. The loops are in
`Lists` and `ListOps`: each is a function of the number of turns made (`DeleteItems`, `AddAll`, `Partition`), and `QuickSort` one of the number
of cells to sort, which is enough since both halves are shorter.

### Collections

`members`, `nextId` are `m_Items` and `m_NextId` of each collection; `items` the live items with `m_Collection`, `m_Id`,
`m_pQueue` and `m_pItems`; `asked` is the history of what was put in a queue. `InsertMember`, `RemoveMember`, `SetCollection`, `SetIndex` are the
methods by which item and collection find each other; `AddToQueue`, `InsertToQueue`, `RemoveFromQueue` those of `CQueue`. Left out:
`InsertToQueue` behind the end (it leaves an empty item) and `CQueueHandler`, whose one operation of interest, `UnloadQueue`, the
application writes.

### Streams and StringList

`buffer` is the object with its four numbers (capacity, size, length, position), `content` and `place` what the calls so far
amount to, `got` what the last read returned and should have. `RoundUp`, `Realloc`, `SetSize`, `WriteAt`, `ReadAt`, `SetLength`, `CStr` are the methods that
everything else is made of; the grain of 16 bytes is `Delta`. `lines` are `m_pList` of a `CStringList`, `told` the pairs the program has put there,
`objects` those that were not freed.

Left out, because the code goes wrong in one step and a run would only repeat it: `CString::SetChar` of a multiple of the
grain (no room is left for the NUL), `SetLength(0)` (does nothing), `LoadFromStream` of an empty file (keeps the text), `TrimLeft`
of spaces only (does not return), `TrimRight` (tests the first character), `Append` of a string to itself, `CStringList::Exchange` and `Move`, and
`InsertItem` before the end, whose `MoveMemory` has its arguments swapped.

### IniFile

`ini` is `m_Sections` with the hash of their names, each section with that of its keys, and `m_Modified`; `disk` the file; `answers` what the program
was told of each key; `saved` what the file stands for. The hashes are explicit, because they are stale after `WriteString` of a new key, `DeleteKey`,
`EraseSection` and `Clear`: only `AddSection` calls `Changed`. A lookup then gives the default, and a second `WriteString` adds a second
line for the key; `Fits` says where hash and list agree, and `IniAnswers` is about those states: what a stale hash answers is not
claimed. `IniSurvives` is about all of them. `LoadFromStream` reads at most `MaxBufSize` bytes (0xF000 in `Classes.hpp`) and drops the rest without a
word, so a configuration that was saved whole may come back cut: `Begins` says what is left of it. Left out: errors of
`UpdateFile`, which it swallows.

### JSONText and JSONDocument

A node is a value with its type, its data and the list it owns. `EncodeJsonString`, `DecodeJsonString`, `JsonToString` are the code's;
`Consume` is `CJSONParser::Consume`, one operator per state. `doc` is the document, `parser` the parser of a text that is being
read, character by character, with any character: whatever it accepts must be written so that it is read back the same. Every
operation on objects and arrays is an action. Left out: files and streams, numbers, `m_NullValue` shared by every read of a
missing member, the array's sort (it mis-sorts), `StringToJson` of the document's own text. A truncated text is accepted, as in the
code.

### Base64 and Dates

Both are algorithms as operators, walked over bounded inputs. `Base64Next` adds a byte to `plain` or a symbol to `coded`. `DateNext`
goes to the next day by the rules of the calendar, which are the reference; `today` is the date by these rules, `number` the
count of days. Every date is encoded, decoded, written and read, with each time of `Clocks` and each zone of `Offsets`. A
value is a day and the milliseconds in it, and a moment before 1899-12-30 the negative number whose fraction counts away from
zero, as in the code. Zones are read only after that day: before it, subtracting the offset gives a wrong moment.

## Runs

| Run | Instance | Shows |
| --- | --- | --- |
| `event_poll` | 3 handlers, 3 connections, 3 sockets, locks nested twice, batches of 2, the default poll time-out (`INFINITE`); symmetric | bindings, owners of sockets, locks; events reach the connection they were reported for, over disconnects and reuse of socket numbers within a batch; stopped handlers stay stopped, locked connections are not timed out |
| `event_poll_live` | 2 handlers, 2 connections, 2 sockets, one lock, fairness | stopped handlers are destroyed, disconnected connections freed |
| `pq_pool` | 2 connections, 3 handlers, 2 queries, 3 sockets, `SizeMin = SizeMax = 1`, one failure, starts from `OnException`; symmetric | the life of a query; that the pool implements `QueryService` |
| `pq_pool_listener` | one of 2 connections is a listener, `SizeMin = SizeMax = 0`, two failures; symmetric | connections, handlers and interest list agree |
| `pq_pool_live` | 2 connections, 4 handlers, no failures, fairness | every query of an active pool is answered; nothing dangles |
| `http_exchange` | 2 requests out of a query with an escape, a content, a form and an invalid one; replies without content or of 3 bytes, with a length or in chunks of 2; sockets of 9 or 64 bytes | messages arrive exactly, in order, and nothing of one reaches the next |
| `http_chunked` | one request, one reply in two chunks | a violation, see below |
| `tcp_server` | one or two bindings, an activation that may fail, 2 clients, the list looked at twice, fairness | the list of threads is safe to walk and the server ends |
| `thread_stops` | the same | a violation, see below |
| `documents` | see below | each container and each format keeps what it is given |
| `channels` | see below | the dialogues above a connection |
| `smtp_split` | one message, reads that cut replies | a violation, see below |

### The event loop

Why the bounds are enough. The hazards of a batch involve the connection that is served, another
one that its callback disconnects while an event of it is still in the batch, and a third created
meanwhile on the freed socket number: `event_poll` has these three, with three handlers and three
sockets. The third is a client, started from the callback; where a server listens on one of the sockets, it has two
connections. Two locks are the least that distinguishes a nested lock from a single one. The poll time-out is the constructor's, `INFINITE`; `event_poll_live` has a finite one, and the proofs are for any.
When the ids are used up the instance can stop; deadlock is therefore not checked.

- `BatchLive`: no pointer of the batch, the callback or the pack is to a destroyed handler;
- `NoStaleEvent`: an event reported for one connection never reaches another, not even one
  accepted later in the batch on the same socket number;
- `Registered`: the interest list and the active handlers agree, although errors of `epoll_ctl`
  are swallowed and removal is by socket number;
- `Bound`: handler and connection point at each other, and the connection is alive;
- `OneOwner`: no socket is closed by somebody who does not own it;
- `LockHolds`: a lock suspends time-out and auto-free until it is released;
- `StoppedStaysStopped`: a stopped handler is not started again;
- `LockedNotTimedOut`: the pack leaves a locked connection alone, unless its handler was stopped. What protects it is one
  field that `Lock` sets to `INFINITE` and every event, unlock and time-out in between must leave so; a time-out of -1 that were
  taken for a time is always due;
- `StoppedIsDestroyed`, `DisconnectedIsFreed`: what the loop gets done.

Liveness assumes weak fairness of the loop's own steps (dispatching, returning from callbacks,
packing, clearing) and of `Wait`. The first four are one thread's sequential code: callbacks
return, and nothing else can make the thread stop. Fairness of `WaitStep` says that the
application calls `Wait` in a loop and that `epoll_wait` returns after the time-out when there are no
events; it is assumed only where that time-out is finite. Nothing is assumed of peers or of
the application's calls. The leads-to properties except the `undefined` state and connections that
are locked or have outlived their handler: nobody frees those.

### The Postgres pool

For the pool, two connections are the one that fails or is reset and the one that
is taken meanwhile, two queries the outer and the inner of nested starts or the one that runs and the one
that waits, three handlers those of two connections and the timer (a fourth in `pq_pool_live`, so that there always is one for a
connection being made: a stopped handler is freed only by the pack). With `SizeMax = 1` the pool
creates two connections, since `GetReadyConnection` compares with `<=`. `MaxFaults` bounds what
libpq, the network and the server do wrong; two failures, in `pq_pool_listener`, are needed for a
second socket change of one connection. A handshake that takes more than ten seconds and a
connection still connecting after half an hour count as failures. The application may stop using the pool,
so deadlock is not checked.

- `PoolAgrees`: a query is queued once or on one connection, however starts nest, and the status a connection is chosen
  by agrees with whether it has a query (`OnePlace`, `ReadyIsIdle`);
- `LoopAgrees`: a connection that waits has work, connections and handlers agree, and the kernel has no pointer to a
  destroyed handler, over resets that change sockets behind the loop (`WaitHasWork`, `BackPointer`, `KernelLive`);
- `LostOnlyWithConnection`: a query whose outcome the application was not told is lost only
  with its connection, or when a query started from `OnException` got the connection that the
  failing `Start` was about to stop (`QueryStop` after `OnException`: a real loss);
- `ImplementsService`: at most one run and one outcome of a query, none lost before it ran;
- `NothingDangles`: without failures, a ready connection is watched
  between two passes and nothing refers to a destroyed connection;
- `Served`: every query that the pool holds is answered, unless the pool is deactivated.

`Served` assumes weak fairness of the thread's own steps and of `Wait`, as above, and for each connection
strong fairness of two things outside the program: that the kernel reports a
connection that it or the server owes something (`Reported`), and that then the handshake gets
done, the query is answered or the socket is writable (`Advances`). Strong, because the loop is at
`Wait` again and again and not all the time. A pool with `SizeMin = 0` is excluded: it may delete every connection
while queries wait, and then nothing takes them from the queue; so are the queries still on a
connection when the pool is deactivated.

### HTTP

Two requests are the least that shows what one leaves behind for the next. A socket
of 9 bytes takes no message whole, one of 64 takes every message: partial writes, a full socket and
reads of any length all happen. Chunks of 2 bytes cut the content of 3 into a full chunk, a partial one and
the last, empty one. Both sides may stop at any time, so deadlock is not checked.

- `ExchangeExact` (`RequestsExact`, `RepliesExact`): what `OnExecute` is given is what the other application sent, in that order,
  as long as no read has made a parser lose its place;
- `ConnectionAgrees`: when nothing is awaited, the server's parser is at its start (`StartsAfresh`). `Clear` is called on four paths
  (`SendReply` on the spot, also from the time-out, `DoWrite` after a whole or a partial write, `DoRead` on an error), and each must reach it;
- `Answered`: when nothing is left to read, write or answer, each request has its reply. It is an invariant over
  quiet states and needs no fairness. Excepted: the server closed the connection first, or a reply was to be sent later
  by `SendReply(false)` from outside of an event: nothing makes the socket report that it is writable then, and
  the reply waits for the next event;
- `ClosesWithReason`: a side closes only when it was told to or the other has closed, with one exception that
  the code has: `WriteBufferAsync` sets `m_ClosedGracefully` on EAGAIN, so that `DoWrite` right after a
  partial write of `DoRead` drops the connection with output left.

### The threaded server

One listener and two clients are the least in which the listener starts one peer while the main thread walks the list and
another peer leaves it; two bindings are the least in which an activation fails with a listener running, and two listeners serve at
once. `NumBindings = 2` has servers of both kinds: the first binding's thread may be the last, because the second fails. To keep the
instance small, only one client connects to a server whose second binding has been made (`MCNext`). `MaxTicks` is how often `TerminateAllThreads` looks at the list: 2 for the code's 19, enough for a peer
to go before, between and after. The server is activated and deactivated once. It stops when everything has ended, so deadlock
is not checked: that nothing hangs is what the liveness properties say.

- `ThreadsAgree`: every thread on the list has its connection whole, so that the walk of `TerminateAllThreads` follows only live objects
  (`ListedIsWhole`), and after the deactivation of a server that had become active no listener runs and every accepted connection was
  reported to its end, unless the wait gave up (`QuietWhenInactive`; after an activation that failed the code promises none of
  this, and listeners do go on);
- `Deactivates`: `SetActive(false)` returns, whatever the listener and the peers are doing;
- `PeersEnd`: the thread of a closed connection ends, whether its client or `SetActive(false)` closed the socket. It is about connections
  for which nobody calls `Disconnect`: an application's handler may, and `Run` does itself when the client resets. `Disconnect` frees the IO
  handler, `Connected()` is then true, and the thread goes on for ever (`"forever"`): `DisconnectedStops` says that it does not,
  and `thread_stops` finds it violated.

Both assume weak fairness of each thread, that is, of the system's scheduler and of what a thread waits for; not of clients.
Both hold until the behaviour is undefined: the list of connections has no lock, and `CloseSocket` resets the handle last, so two
threads may change the list, or free a binding, together.

### Documents

Each part is walked through every sequence of calls within its bounds.

- Lists: values 1 and 2, up to 3 items, both classes, another list of up to 2 for `Assign`. Three items are the least in which an item
  has a neighbour on both sides; capacities grow and shrink on the way. `ListIsSequence` is the refinement of `ListSequence`; `CopiesOwnedOnce`: each live copy of
  a `TList` is in one place of it, and nothing else is on the heap.
- Collections: 2 collections, 3 items, 2 keys, 2 pieces of work. `CollectionsAgree`: item and collection name each other, each once, ids are not
  given twice, and a queue answers with its work in the order it came.
- Streams: texts of 0 to 2 characters, a grain of 3, at most 3 bytes. The grain and the sizes around it (2, 3) are what rounding and the
  NUL depend on. `StreamHolds`: the object holds what was put into it, reads return it, nothing is written outside the buffer, `c_str()` is the text.
- String lists: 2 lines, names that differ in case or extend one another, values with separators, quotes and delimiters. `LinesKeep`: an
  ordered map, that survives being one text; no line has a freed object.
- Ini files: 2 sections, 2 keys, 5 rows, no file or one of three with comments, spaces and a key twice; `MaxBufSize` is 12 bytes, about two
  pairs with their section, so that files shorter and longer than it are loaded and saved. `IniKeeps`: what the program
  reads is what it wrote, where the hashes fit; what it saves and loads again says the same, always, up to `MaxBufSize`; of a longer file the
  beginning is read, and only the line that the limit cuts may say something else.
- JSON: texts and documents of up to 5 characters and values, 16 characters, one or more of each kind the code tells apart. `JsonSurvives`: what a program builds
  is written so that it is read back the same, and so is whatever the parser accepts.
- Base64: up to 5 bytes out of 5 and up to 5 symbols out of 6: whole groups and both partial ones. `Base64RoundTrip`: decoding undoes encoding, for
  both alphabets, padded or trimmed; what is accepted is the encoding of what it means, but for unused bits.
- Dates: whole years from the start of 1, 1899, 1900, 2000, 2399 and 9999, the ends of the calendar, the epoch, and the three kinds of
  century; three times of day, the last second and 24:00:00 among them; three zones. `DatesRoundTrip`: what is encoded, decoded, written and read is the same
  day and time.

### Channels

The parts may all come to a stop (the peers, the application), so deadlock is not checked.

- WebSocket: 2 frames of the peer out of 11, 2 of which break the protocol, 1 push, sockets of 5 or 40 bytes, masked with a key or not. `Small = 1` and
  `Medium = 2` stand for 125 and 65535: the three forms of a length occur with payloads of 1, 2 and 3. Two frames are a message and a control
  frame inside it, or two messages in one read. `ReceivedExact`: the application gets each message as it was sent, and a ping comes back as it was, until the parser
  loses its place; `FramesExact`: what the socket has taken, with what waits in the output buffer, is the queued frames in order, no byte lost or
  twice. It does not say that the peer gets them: see `ServerWrites`.
- SMTP: 2 messages of 0 to 2 recipients. Two messages are needed for what one dialogue leaves to the next. Reads do not cut replies
  (`Cuts = FALSE`; `smtp_split` has them cut). `DoneIsAccepted`: messages are concluded in order, once, and `Done` only if the server took it for every recipient,
  once; `AuthOverTls`: credentials go over TLS only; `NoneForgotten`: when nothing is left to do every message is concluded, except after the events it
  names, after which the code does forget: no connection, a greeting that is not 220, a reply without text, a failed handshake, no recipient, a time-out, a server
  that hangs up, a message added when the last was sent.
- Sessions: 3 connections, 2 owners, 3 sessions, 2 calls: an owner comes back twice while another is there. `SessionsAgree`: session and connection
  know each other and neither is gone; an answer runs the handler of its call, once, though the session has moved.
- Proxy: 2 connections of one proxy, both kinds, with and without TLS. `TunnelExact`: one request, to the target and to nobody else, over TLS if it asks for it; no
  answer that the target did not give; a dialogue goes on until it has ended: with the answer, a refusal, a side that closes, the time-out, or a write
  that found the socket full. It names three cases in which it fails: a read cut inside a reply of the
  SOCKS5 server (told by its length alone), the code 6, *TTL expired*, taken for a grant, and a second connection (`m_ProxyType` has stayed `ptHTTP`, and the
  SOCKS5 server gets the request).

- libcurl: 3 fetches over 2 sockets, so that one may end, one move to the other's socket and one start within a batch.
  `FetchesDriven`: whatever a transfer waits for makes the loop go on with it, each fetch is concluded at most once, and nothing
  destroyed is used. It excepts three things: libcurl fails; a handler throws in the timer's event (`DoTimer` stops the timer's handler, the pack
  deletes the timer, `m_pTimer` is left); and the last fetch ends in `DoEvent` and its handler starts the next, whose timer `DoEvent`
  then frees (`CURL.cpp:555`).

### Disagreements found

`CHTTPReplyParser::Parse` returns 1 *when a complete request has been parsed* (`HTTP.hpp`). A read that ends with
a chunk's content leaves a state in which the first byte of the next read returns 1: the application gets
the reply without its other chunks. `http_chunked` shows it (`ReplyComplete`).

`CSMTPReplyParser` says the same of its 1 (`SMTP.hpp`). It returns 1 at the end of any line that ends the read, also of one whose
code is followed by a hyphen: the next line is then the reply to the next command. `smtp_split` shows it (`CompleteReply`).

`CPeerThread::BeforeRun` has the comment *Stop this thread if we were disconnected* over the test of `Connected()` (`Sockets.cpp:3267`), and `Run` the same
test. `CheckForDisconnect` says of a connection without IO handler that it is not disconnected (1599), and `Disconnect` frees the IO handler: the
thread goes on to execute on a connection that is gone. `thread_stops` shows it (`DisconnectedStops`).

Observed while modelling, and not a run of its own:

- `CPollEventHandler::SetBinding` copies the poll time-out into the connection's time-out interval (`Sockets.cpp:4131`). Its default,
  `INFINITE`, is -1: one millisecond in the past, so the pass that served a connection disconnects it, unless it is locked (`LockedNotTimedOut`).
- `SetActive(true)` that throws at a later binding leaves the listeners of the earlier ones running, and `SetActive(false)` does not stop them
  (`Sockets.cpp:3575-3608`).
- A write to a full socket ends the connection if it follows another in the same event (`Sockets.cpp:1763`), in every protocol on top of it.
- `CStrings::LoadFromStream` cuts a file at `MaxBufSize`, and the next `UpdateFile` writes the file without the rest.
- `DoRead` and `DoWrite` of the pool assert that the handler has a connection (`Postgres.cpp:1570`). `DoTimer` may have deleted it earlier
  in the batch.
- `CPQPollQuery::Start` refuses queries when `Queue().Count()` is 0x0FFF (`Postgres.cpp:1087`): that counts keys, one for each pool, and is never
  reached.
- `CHTTPProxy::DoRead` throws in the middle of a batch: what is left of the batch is lost. `m_pProxyConnection` is never reset.
- `CThread`'s constructor overwrites `m_nThreadId`; a second activation of `CTCPServer` uses the listeners that the first deactivation deleted;
  `accept` interrupted by a signal ends the listener.
- `CMessage::Assign` does not copy `MsgId`; `m_UsedSSL` stays false after STARTTLS; a 421 after an accepted message makes it fail.
- `SendFile` asks for all `AByteCount` bytes again after a partial send; on EAGAIN it returns 0 and forgets how far it came
  (`Sockets.cpp`, `CTCPConnection::SendFile`).
- `CCURLClient` loses the timer of a fetch started when the last one ends: nothing calls libcurl again until something else does. An exception in
  `DoTimer` leaves `m_pTimer` pointing at a timer that the pack deletes.
- What the sections on strings, lists, ini files, JSON and dates above leave out because it goes wrong in one step.

## Proofs

| Theorem | For every | States |
| --- | --- | --- |
| `EventPollProofs.InvariantHolds`, `NoDestroyedHandler`, `InterestListAgrees`, `BindingsAgree`, `LocksHold`, `SocketsHaveOneOwner`, `EventsReachTheirConnection` | set of handlers, connections and sockets, time-out, `MaxLock`, `EventSize` | the invariants of the loop, all that `event_poll` checks |
| `EventPollProofs.StopIsFinal`, `LockedConnectionsStay` | the same | the two action properties of the loop |
| `TCPServerProofs.ThreadsAlwaysAgree` | number of bindings, set of peers, `MaxTicks`, activations that succeed or fail | `ThreadsAgree` |
| `PQConnectPollProofs.LoopAlwaysAgrees`, `AlwaysInOnePlace` | pool size, number of queries, handlers, sockets, failures | `LoopAgrees`; `OnePlace` |
| `PQConnectPollProofs.PoolAlwaysAgrees` | the same with `SizeMin > 0` | `PoolAgrees` |
| `PQConnectPollProofs.NeverDangles` | pool size (also 0), number of queries, connections and sockets, without failures, while `HandlersSuffice` | `NothingDangles` |
| `QueryServiceProofs.LostOnlySo`, `PoolImplementsService` | the same with `SizeMin > 0` | `LostOnlyWithConnection`; the refinement `ImplementsService` |
| `ChannelProofs.SessionsAlwaysAgree` | set of links and identities, number of sessions and calls | `SessionsAgree` |
| `ChannelProofs.TlsBeforeAuth`, `ConcludedInOrder` | set of recipients, number of messages, whatever the reply parser yields | `AuthOverTls`; each message is concluded once, in order |
| `ChannelProofs.FetchesAreDriven` | finite set of sockets, number of fetches | `FetchesDriven` |
| `HTTPProxyProofs.TunnelAlwaysExact` | number of connections | `TunnelExact` |
| `DocumentProofs.ListsAreSequences`, `CopiesAreOwnedOnce` | values, longest list, length of the other list of `Assign` | the refinement `ListIsSequence`; `CopiesOwnedOnce` |
| `DocumentProofs.CollectionsAlwaysAgree` | collections, items, keys, work, identifiers handed out, entries of a queue | `CollectionsAgree` |
| `DocumentProofs.Base64LosesNothing` | data and texts of any length, of any octets and letters | `Base64RoundTrip` |

Nothing is assumed but what the modules declare. `NIL`, `DANGLING`, `MAIN` and `NoLink` are no object
(`NilAssumption`, `DistinctAssumption`, `NameAssumption`, `NoLinkAssumption`; the second also keeps the pool's timer apart from its
connections, the third listeners apart from peers). Sockets of libcurl are numbers other than 0 and finitely many (`CurlSocketsAssumption`);
what is encoded are octets, what is decoded is of the 64 letters and the two more signs of the fills (`DataAssumption`). A time-out is an integer not below -1
(`TimeOutAssumption`); bounds and recipients are naturals (`BoundAssumption`, `CountAssumption`, `LimitAssumption`,
`RecipientAssumption`). Items of a list and of a collection are numbers other than the null pointer, which
names no queue and no collection; work is a number (`ListAssumption`, `CollAssumption`). The pool has a `SizeMin` not above `SizeMax`, and objects enough for both and for its listeners (`SizeAssumption`):
ids running out is not a failure the code has.

`SessionSpec`, `SMTPSpec`, `CurlSpec`, `ProxySpec`, `ListSpec`, `CollSpec` and `Base64Spec` are the behaviours of one part alone. The behaviours of `MCChannels` and
`MCDocuments` that have this `part` are among them: the others of their variables stand still.

### The event loop

None of the properties is inductive alone. Whether an event still finds its connection depends
on the handler's binding having stayed what it was (`Window`); that nothing else holds the
handler's socket depends on who owns which socket (`OneOwner`, `WatchedIsOpen`, `Listening`);
that bindings agree depends on objects being created bound and on freed ones holding nothing
(`Lifecycle`). `IndInv` is their conjunction.

The argument splits `IndInv` into a part about objects (`ObjInv`: handlers, connections,
interest list, owners of sockets) and a part about the loop (`LoopInv`: batch, callback, pack).
The actions change objects in seven ways only, one lemma each: a connection edited in place
(`Edited`), a handler stopped with its connection disconnected (`Stopped`), a connection
served (`Served`), a handler destroyed (`Destroyed`), a connection with its handler created
(`Connected`), a handler started without one (`Started`), a binding dissolved (`Rebound`).
Lemmas about the loop say what survives such a change (`LoopKept`, `Resumed`, `Visited`,
`LevelKept`). One lemma per group of actions (`ServerSteps` to `ClearSteps`) then cites both.

`StopIsFinal` and `LockedConnectionsStay` are about steps: each action either keeps the type of a stopped handler or destroys it
(`StoppedStep`), and the pack passes over a connection that is locked (`LockedStep`). The second rests on `LocksHold`, by which the
time-out of a locked connection is `INFINITE` whatever has happened to it since, and holds for every poll time-out.

### The threaded server

`ListedIsWhole` alone says nothing of what a thread that is on the list does next. `IndInv` (in `TCPServer`) says where
each thread may be when the listener has just created it (`Handed`), when it is on the list (`ListAgrees`: exactly the threads between
`AddThread` and their own removal, each once), and when it has left it (`Reported`: it told the application first); and how far the main
thread has come (`Walk`, `Joined`: the listeners behind its index are joined; `Places`: those before their turn do not exist, which is what the last
binding of an activation that failed goes by). A step of one thread disturbs only what is said of that
thread and of the list, so the proof has one lemma for each kind of thread (`PeerGoes` and its like), and the list is
changed by `Append` and `RemoveFirst` only (`ListLemmas`).

### The Postgres pool

`Inv` is what holds for every pool: objects point to each other as the destructors need it (`Wired`); a call may nest in a callback
only, and nobody else has a connection that a call is making (`Frames`); the connection of the event in progress is there, and no other
event of the batch has it (`Cursor`); a connection that waits has a query, and each query is in one place (`WaitHasWork`,
`Once`). `Wired` is preserved method by method (`CheckSocket`, `Disconnect`, `Delete`, `NewEventHandler`), as lemmas
from objects to objects (`Serves`, `Gentle`, `Softly`) that the actions then cite, since several of them compose the same methods.

`FullInv` adds two parts that hold only of a pool that keeps a connection. `Busy`: a connection with a query waits for its answer or is
on its way out: its call is failing, its event has not been finished, or the pack is about to free it (`Doomed`). `Told`: what the
application was told of a query fits where the query is. With `SizeMin = 0` they are false, and so is
`ReadyIsIdle`: `PackConnections` may shrink the pool to nothing, its `CPQConnectPoll::Start` then throws out of `Wait`, the pack of this pass
does not take place, and a connection marked for deletion with its query on it is found again by the next pass. TLC finds it
with three failures; `Inv` and `LoopAgrees` hold there too. Hence the hypothesis `SizeMin > 0` of `PoolAlwaysAgrees` and of the refinement.

`NothingDangles` is false with failures and needs another strengthening, `Quiet`, next to `Inv`. `Sound`: `m_Socket` is always the socket of
the `PGconn`, no connection without a handler is ready, the kernel watches each handler's socket for it, a handler that runs is the one
its connection knows, and no two connections have a socket in common. `Calm`: no call is in a state that only a failure leads to, and
a connection without a working `PGconn` is still being made by `NewConnection`. That no failure occurs does not mean that every connection is
made: the sockets may be used up (`Exhausted`), and then the failing connection is deleted in the middle of its own construction,
while a query started from `OnConnected` or a callback around it goes on. The proof shows that it has no handler then, so nothing is left behind.
The hypothesis `HandlersSuffice` is about the model's fixed set of handler objects: the code allocates them with `new`, and a socket is what
it runs out of first. In `pq_pool_live` it holds in every state.

The refinement classifies the steps. Seen from one query a step keeps it (`Kept`), submits it, takes it from the queue or its call to a
connection, refuses it, answers it, or loses it with its connection (`Submitted`, `Taken`, `Refused`, `Answered`, `Vanished`). The main lemma is that
each action moves at most one query (`ServiceStep`); nested starts and resets that stop several handlers are where it could fail. Each class
then is an action of `QueryService` under the mapping `Stage`, or a stutter; `Vanished` has the condition of `LostOnlyWithConnection` in it.

### Sessions

The strengthening is that sessions are numbered and never share an id (`Numbered`), that session and connection have each other,
both ways, with no update in progress between two events (`Paired`), and that each handler of a session is of a call made
for it and not answered, once (`Awaited`). The hard step is `SwitchConnection`, which exchanges two pointers on each side, one after the other: the proof
follows the intermediate states as records (`Holding`), so that the deletions and disconnections which the callbacks in the middle make
see what the code sees.

### The SMTP client

What the reply parser yields is a fold over the bytes of a read, and a property of it for every text would need an induction that is
out of reach. The invariant does not depend on it: `Good` lets a reply have any code and any text. `Secure` says that
`m_bStartTls` is true only of the connection in use, except before its first command has been answered, when it may still be that of the
last one, and that AUTH is only the command of a connection with TLS; `Ordered` that `m_Index` counts
the messages that have been concluded. So TLS before AUTH holds even where replies are cut and one is taken for another (`smtp_split`).

### The libcurl client

`FetchesDriven` speaks of the loop between two passes; `CurlInv` says what holds inside of one. `Sane` is about what the client keeps, as long as
nothing has gone astray: each socket a transfer waits for is known to libcurl by one handler, which watches it, no other handler
does, and the timer is armed whenever libcurl waits for time. `DueKnown`: the events left in the batch are of handlers that are still in the list, which
is what stopping a handler instead of destroying it is for. `NoneUnread`: outside of `MultiInfo` no message is unread. `CountTrue`: inside of
`MultiInfo`, an `m_StillRunning` of 0 means that no transfer waits but those that `Perform` has added since, of which `DoEvent` does not know (`"chained"`). The callbacks of one call
are taken in the order keep, give up, take, and each keeps `Sane` up to the sockets it is about, so that it
does not matter how often a socket changes hands in one batch.

### The proxy

`TunnelExact` speaks of what has arrived, which no step relates to what was sent. `Fine` does: the dialogue is one sequence, and what the
server has heard, what is on its way and what is still to be written are consecutive windows of it (`Part`), whose ends say how far reading,
sending and writing have come. `Talks` says so of the negotiation with the SOCKS5 server, `Asks` of the request and its reply, `Fails` of
a handshake that did not succeed. A partial read or write moves the end of a window, and lemmas on windows
(`PartsOfPart`, `PartsJoined`, `PartEnds`) do the rest. A dialogue that stops would have all its windows empty, which the ends forbid
unless it is over (`NeverIdle`). The three cases in which the code goes astray are excluded as in `TunnelExact` itself (`Led`).

### Base64

The invariant only says that what is encoded are octets and what is decoded are letters and fills; the theorem is about the algorithms. A group is one number
(`OfOctets`, `OfSextets`), of which a shift and a mask take a field (`Field`). The lemmas are, in this order: what a field of a group is (`SextetsOf`, `OctetsOf`); that the
group made of the fields is the group again; what each letter and each octet of a text of any length is, by its index, for the
three kinds of a last group; how many fills stand at the end of what `encode` has written, that a body does not end in one, and what `trim`
and `pad` leave of them. No induction is needed, as `encode` and `decode` are given pointwise.

### Lists

`ListIsSequence` speaks of items, the code of cells, counts and copies. `ListInv` is what makes the translation possible: the cells
0..capacity - 1 hold numbers and the count is not above the capacity (`Block`), a `TList` points at each of its copies once and at nothing else
(`Owning`, which is `CopiesOwnedOnce`), and a `CList` has only values and null pointers (`Items`). Then each operation has a lemma that says which
`Block` it leaves and what its contents are as a sequence: the moves of memory behind `Insert`, `Delete` and `Move`, the growth
of the capacity (`ExpandKeeps`), the copies made and released (`OwnsInserted` and its like). The theorem is one lemma for each
call (`...Step`), for the two classes.

A loop is a recursive function, of which TLA+ says nothing before it is known to exist. `Recursion` in `ListLemmas` is the existence of a
function whose value at n is made of those below n, for a type that may depend on n; it follows from `Inductive`, the induction principle
with a set in the place of a predicate, which well-foundedness gives without the library's induction theorems. `LoopIs` is its form for
loops. The invariants of the loops are `Left` (deletions from the last index down leave a choice of the items), `Grown` (`laOr`: the list so far is the old one
and the new items among those looked at), `Hoare` (the partition: keys left of i are not above the pivot, keys right of j not below it, and
a cell stops each scan). `QuickSort` is then by recursion on the number of cells (`SortsLess`): the halves of a partition have fewer
(`Fewer`), and sorting them sorts the whole.

### Collections

`CollInv` is a fact about the three state variables as one value (`Tidy`) and one about the queues (`Queues`). `Tidy`: the cells of a
collection are, each once, the items that name it (`Holds`), and an item's number is below the next and differs from those of the
others in its collection (`Numbered`). Numbers differ only because none is handed out twice, so the bound by `m_NextId` has to be part of
the invariant; an item that moves takes a new number, and the old one is gone with it. `Queues`: a key without work has no item, and a key
with work has one, which holds it in order (`Queued`).

Each method is a lemma from one state to the next (`InsertMemberTidies`, `RemoveMemberTidies`, `SetCollectionTidies`, `NewItemTidies`,
`DeleteItemTidies`, `SetIndexTidies`), which rests on what is proved of the list below it: `RemoveItem` looks at the last cell first and
otherwise searches, and either way one occurrence goes (`TakenOut`); `SetIndex` takes out and puts in (`InsertedMember`). `Clear` deletes from
the end, as many times as there were items: `ClearTurn` says that the last cell is still one of the collection, after
any number of turns. For the queues, a call touches one key: `Aside` says that the items of the other keys are what they were, and
`QueueFound` that the search by key stops at the one item there is. That the count of a queue is the number of keys with work is then a
bijection (`QueuesCounted`).

### What stays with TLC

- Liveness under fairness, and whatever needs ENABLED: `StoppedIsDestroyed`, `DisconnectedIsFreed`, `Served`, `Deactivates`, `PeersEnd`.
- What a recursive definition computes for every input, which would need an induction that the provers cannot instantiate:
  the parsers and serializers (`HTTPExchange`, `WebSocket`, `JSONDocument`, `IniFile`, `Dates`) and what is built on strings (`Streams`,
  `StringList`): their modules declare RECURSIVE operators. `DoneIsAccepted` and `NoneForgotten` of the SMTP client are about the codes that its parser yields.

## Plan

What is left, in order of importance:

1. What holds of `DoneIsAccepted` and `NoneForgotten` when a reply comes whole: the parser's result is then one of a few values,
   which could be a hypothesis of its own.
2. The part of `ExchangeExact` that does not depend on what the parser computes: the order of requests and replies.

## Not modelled

- `CCurlApi`: options and buffers of a request, handed to libcurl, and its blocking calls.
- `CPQServer` and `CPQClient`: a pool with command handlers of its own, over the same connections; the synchronous queries and `CPQResult`.
- Application, processes and signals: `fork`, daemonise and signal tables, one system call after the other.
- Main-thread synchronisation: the list behind `CThread::Synchronize` and `CheckSynchronize` is created nowhere, so `Synchronize` has
  nothing to wait for and no caller.
- `CQueueHandler` and `CQueueCollection`'s progress counter: the operation that changes them, `UnloadQueue`, is the application's.
- Synchronous TCP client, UDP, SQLite, OAuth2: blocking calls, no state between two of them but a handle.
- Socket stack and IO handlers: wrappers of system calls and OpenSSL. Timer and user-event handlers of the loop are modelled with
  the one user each has (`PQConnectPoll`, `CURLClient`), not for any user.
- Blocking buffers (`ReadLn`, `ReadFromStack`, `WriteBuffer`); cookies, multipart forms, sites, static files and authorisation of the HTTP server; the JSON of a
  WebSocket message; the text of a mail.
- Variants, pairs, templates, exceptions, conversions of numbers, file names and paths: values, with no state to go wrong between steps.
