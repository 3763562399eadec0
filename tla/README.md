# xsonrpc in TLA+

xsonrpc is a C++ library for remote procedure calls over HTTP, with JSON-RPC
and XML-RPC as its two message formats.  This directory holds a formal model of
the parts of it in which order, lifetime or arithmetic matter: TLA+ modules,
TLC configurations that model-check them on small instances, and theorems that
TLAPS proves for every value of the constants.

Paths such as `server.cpp` are short for `src/src/server.cpp`.

1. [The system](#1-the-system)
2. [The modules](#2-the-modules)
3. [The runs](#3-the-runs)
4. [Fairness](#4-fairness)
5. [The proofs](#5-the-proofs)
6. [What the model says about the code](#6-what-the-model-says-about-the-code)
7. [What is not modelled, and the plan](#7-what-is-not-modelled-and-the-plan)
8. [Running it](#8-running-it)

## 1. The system

### Components

| Component | Code | State | Operations |
|---|---|---|---|
| HTTP server | `server.cpp` | `myFormatHandlers`; one heap-allocated `ConnectionInfo` for each request in progress (buffer, handler, writer); the MHD daemon | constructor and destructor, `RegisterFormatHandler`, `Run`, `OnReadableFileDescriptor`; the callbacks `AccessHandler` and `OnRequestCompleted` |
| Dispatcher | `dispatcher.cpp`, `dispatcher.h` | `myMethods`, the registry of named `std::function`s, each with a hidden flag, signatures and a help text | `AddMethod`, `RemoveMethod`, `GetMethod`, `GetMethodNames`, `Invoke`, `SetHidden` |
| System methods | `xmlrpcsystemmethods.cpp` | `myCapabilities`, a reference to the dispatcher | constructor (binds `system.*`), destructor (removes them), `AddCapability`, `RemoveCapability`, `system.multicall` and the introspection methods |
| Faults | `fault.h` | a code and a string | constructors of `Fault` and its subclasses |
| Requests, responses | `request.cpp`, `response.cpp` | one message | `Write`, `ThrowIfFault` |
| Base64 | `util.cpp` | none (two pure functions) | `Base64Encode`, `Base64Decode` |
| JSON, XML formats | `json*.cpp`, `xml*.cpp` | a document being read or written | `GetRequest`, `GetResponse`, `Write*`, `CanHandleRequest` |
| Value | `value.cpp` | a type tag, and a union that holds the value or owns a heap cell | copy, move, `As*`, `Write` |
| Client | `client.cpp` | `myId`, a cURL handle | `Call` |
| Date and time | `util.cpp` | none | `FormatIso8601DateTime`, `ParseIso8601DateTime` |
| XML parser and printer | `3pp/tinyxml2/tinyxml2.cpp`, `.h` | the document's buffer, pools of nodes; an output buffer and a stack of open elements | `XMLDocument::Parse` with every `ParseDeep`, `StrPair::GetStr`; `XMLPrinter` as `XmlWriter` calls it |
| JSON parser and writer | `3pp/rapidjson/include/rapidjson/`: `reader.h`, `writer.h`, `document.h`, `encodings.h` | the stream, the reader's and the document's stacks; the writer's levels | `GenericReader::Parse` with a `GenericDocument`, `ParseNumber`; `Writer` as `JsonWriter` calls it |
| libmicrohttpd, libcurl | external | | |

### How they interact

The application owns a `Server`, registers one or more format handlers and
methods with it, and calls `OnReadableFileDescriptor` in a `poll` loop.  That
calls `MHD_run`, which parses HTTP and calls back:

    MHD --AccessHandler(headers)--> Server    picks a FormatHandler, new ConnectionInfo
    MHD --AccessHandler(piece)----> Server    appends to the Buffer, at most 16 KiB
    MHD --AccessHandler(empty)----> Server -> Reader -> Dispatcher.Invoke -> method
                                           -> Response.Write -> Writer
                                    Server -> MHD_queue_response (points into the Writer)
    MHD --OnRequestCompleted------> Server    delete ConnectionInfo

Everything runs in one thread, so each callback is one atomic step; but the
callbacks of different connections interleave in any order, and MHD keeps two
raw pointers between them: `*connectionCls`, and the response body, which was
created with `MHD_RESPMEM_PERSISTENT` and is therefore not copied.

A `Client` is synchronous.  `Call` numbers the request, writes it with the format
of its choice, hands it to `curl_easy_perform`, and reads what comes back:

    Client --Request(myId++)--> document --curl--> Server.HandleRequest
    Client <--Response(id)----- document <--curl-- Reader, Invoke, Writer
    Client: status != 200 or curl error -> std::runtime_error
            unreadable, or another id   -> InvalidRequestFault
            otherwise                   -> the value, or ThrowIfFault

A method may call back into the registry it was found in: `system.multicall`
runs a list of calls on the dispatcher, each of which may add or remove methods
the later calls name.

### What is hard

- **Lifetimes across callbacks.**  A `ConnectionInfo` is deleted in one callback
  and used by MHD until then; requests are refused, aborted and cut short by the
  shutdown of the server, and every one of these ends in `OnRequestCompleted`.
- **A protocol recognised by two values.**  `AccessHandler` tells headers, a
  piece and the end of a body apart only by `*connectionCls` and
  `*uploadDataSize`.
- **A limit tested piece by piece**, with the refusal sent in the middle of an
  upload, and the result of `MHD_queue_response` ignored.
- **Names bound and unbound as a side effect of object lifetimes**, where a
  constructor can fail half way and a destructor decides what to undo from a
  capability the application can change in between.
- **Errors that cross three representations**: an exception in a method, a code in
  a `Response`, an exception again in the caller.
- **Types that are guessed.**  JSON has one kind of string and two of numbers;
  `JsonReader` decides from the contents what was a date, a binary or a 64-bit
  integer.  XML takes characters away from texts and then refuses what is left.
- **Transfers that fail half way**, or are repeated by libcurl: the caller learns
  of neither, and the request may still be served later.
- **A size computed apart from the loop that fills it** (both Base64 functions).
- **Memory owned by hand.**  A `Value` has a union of pointers, and copies that can
  run out of memory half way, moves that leave `NIL` behind, and `Reset`.
- **Text decoded in place.**  `tinyxml2` keeps names and texts as places in one
  buffer, ends them with a NUL when somebody asks for them, and replaces references
  inside them, while the parser still reads the same buffer.
- **Errors that unwind a recursive parser**, and must leave no node behind in the
  memory pools and no value on a stack.
- **Numbers at the limit of a type.**  `ParseNumber` moves its digits from an
  `unsigned` to a `uint64_t` to a `double` at the digit that would not fit, and its
  exponent has limits of its own.

`PROJECT.json` lists these as hazards, each with its line and the properties
that cover it.

### What makes each component correct

- *Server*: no `ConnectionInfo` is leaked, freed twice or used after it was
  freed; a response is computed from exactly the bytes sent on its connection for
  its request, by the first handler that accepts it; memory is bounded; each
  request gets at most one reply, and a body that has arrived gets one.
- *Dispatcher and system methods*: no registered method outlives the object it is
  bound to; objects do not take each other's names away; `system.multicall` is the
  same as its calls made one by one.
- *Faults*: the code a method chose is the code the caller sees, in the class of
  exception of its range.
- *Formats and values*: what a peer reads can be read with the same conversions as
  what was written, or the message is refused at once; passing a value on does
  not go on changing it.
- *Client*: a remote call has the outcome of a local one or fails with a
  `runtime_error`; its answer is the one to its own request; calls are not
  reordered.
- *Value*: every heap cell has one owner; a program cannot tell that there are cells.
- *XML*: decoding a text in place stays inside it; no name or value is spoilt by
  reading another, or by the parser; a document that was printed is read as it was.
- *JSON*: the reader takes the texts of JSON and no others, whole numbers that fit are
  exact, and a document that was written is read as it was.
- *Parsers*: they come to an end, and an error leaves nothing behind.
- *Base64*: neither function writes past its buffer, on any input; decoding
  yields the bytes of the bits in the text; encoding then decoding is the
  identity.

## 2. The modules

| Module | Models | EXTENDS / INSTANCE |
|---|---|---|
| `Server` | `server.cpp` and what it relies on in MHD | |
| `RpcService` | what the server promises, with no buffers and no pointers | `Server` maps to it with `INSTANCE` |
| `Faults` | fault codes and their two crossings | |
| `Dispatcher` | the registry operations and `Invoke` | `Faults` |
| `SystemMethods` | the objects on one dispatcher, and `system.multicall` | `Dispatcher` |
| `Base64Encoder`, `Base64Decoder` | `util.cpp:114-197`, a step for each turn of a loop | |
| `Base64` | a binary value from `XmlWriter` to `XmlReader` | both of these |
| `Values` | `value.cpp`: values as records and their conversions | |
| `JsonFormat`, `XmlFormat` | the readers and writers of each format | `Values` |
| `Relay` | a value on its way from peer to peer | both formats |
| `Rpc` | `client.cpp` and the server's answers to it | `Faults`, `Values` |
| `RemoteCalls` | what a client promises, with no documents and no ids | `Rpc` maps to it with `INSTANCE` |
| `ValueTrees` | values as trees: sets of paths with the type of what is there | |
| `ValueHeap` | `value.cpp`: who owns the heap cells | `ValueTrees` |
| `ValueSemantics` | values as a program thinks of them, without cells | `ValueTrees`; `ValueHeap` maps to it with `INSTANCE` |
| `XmlChars` | the bytes and references of `tinyxml2`, and `PrintString` | |
| `XmlText` | `StrPair::GetStr` and `CollapseWhitespace`, a step for each turn of a loop | `XmlChars` |
| `XmlParser`, `XmlPrinter` | `XMLDocument::Parse`; `XMLPrinter` | `XmlChars` |
| `XmlDocuments` | a document that is printed or comes from elsewhere, is parsed, and is read | both of these |
| `XmlTrees` | the trees that were printed and that are read | `XmlDocuments` |
| `JsonChars` | bytes and strings of JSON, UTF-8 | |
| `JsonNumbers` | `ParseNumber`, a step for each turn of a loop | `JsonChars` |
| `JsonParser` | `GenericReader::Parse` and the stack of the document | `JsonNumbers` |
| `JsonPrinter` | `Writer` | `JsonChars` |
| `JsonGrammar` | which texts are JSON, as ECMA-404 and RFC 4627 define it | `JsonChars` |
| `JsonDocuments` | a document that is written or comes from elsewhere, and is parsed | these three |
| `MCServer`, `MCSystemMethods`, `MCBase64`, `MCRelay`, `MCRpc`, `MCValueHeap`, `MCXml`, `MCJson` | constants for TLC | |
| `ServerProofs`, `SystemMethodsProofs`, `Base64Proofs`, `RpcProofs`, `ValueHeapProofs`, `XmlTextProofs`, `XmlParserProofs`, `JsonProofs` | proofs | |

In every module a definition introduced by `\* Variant:` is a deliberately
broken form of the definition after it, used to confirm that a property can
fail; no specification uses it.

### Server

The heap is explicit because lifetimes are what can go wrong.  `live` is the set
of addresses that hold a `ConnectionInfo`, `info` the contents of *every* address:
`delete` removes an address from `live` and leaves its contents, `new` takes any
address that is not live, so a stale pointer sees old contents first and another
request's later.

| Variable | Code |
|---|---|
| `running` | the `Server` object exists |
| `formatHandlers` | `myFormatHandlers` |
| `live`, `info` | the `ConnectionInfo` objects |
| `phase`, `request`, `connectionCls`, `reply` | MHD's record of each connection: its progress, what it parsed, the pointer it keeps for the application, the response queued (with a *pointer* to the `ConnectionInfo` whose writer it reads) |
| `body` | a history of what the client has sent, all of it, also what the server dropped |

| Action | Code |
|---|---|
| `Start`, `Stop` | the constructor and the destructor (`MHD_stop_daemon` completes every request) |
| `RegisterFormatHandler` | the same, at any time, also while bodies arrive |
| `Connect`, `EndUpload` | MHD and the client |
| `OnHeaders` | `AccessHandler` with `*connectionCls == NULL`: 405, 404, a new `ConnectionInfo`, or a 500 when an allocation (of a string or of the `ConnectionInfo`) or a handler throws, whether or not a handler would have matched |
| `OnUpload` | `AccessHandler` with a piece: appended, or dropped with a 400 |
| `OnUploadFails` | `Buffer.insert` throws |
| `OnUploadDone` | `AccessHandler` with an empty piece: `HandleRequest`, with a result, a fault, or an exception that becomes a 500 |
| `Complete`, `Abort` | `OnRequestCompleted` after the reply was sent, or when the client leaves |

What a document says is not modelled: a writer holds the *body it answers* and
whether that was a result or a fault.  That is what is needed to tell whether a
reply belongs to its request.  URL and content type are one value, a route,
and `CanHandleRequest` is a constant: each handler's set of routes.

`MidUploadReply` holds the answers `MHD_queue_response` may give to a response
queued between two pieces of a body: taken, refused, or either at any time.  This
depends on the version of libmicrohttpd, and `AccessHandler` ignores the result.

`RpcService` is the abstract specification.  A connection's request is `open`,
`ready` or `answered`; the answer is computed from `body` directly.  The
refinement mapping at the end of `Server` takes a reply to the document its
pointer leads to, so a dangling pointer or a mixed-up buffer is a step
`RpcService` does not have.

### Faults, Dispatcher, SystemMethods

`Faults` holds the codes as they are in `fault.h`.  `FaultCode` is the constructor
applications use, which replaces a reserved code by 0 (after an assertion that a
release build does not have); `InvokeCode` is the chain of handlers in
`Dispatcher::Invoke`; `ThrowIfFault` the switch in `response.cpp`.

`Dispatcher` keeps the registry as a function from names to an owner and a
hidden flag.  The owner is the application or the `XmlRpcSystemMethods` object
whose member function was bound: it is the `this` in the `std::function`.  What
an application method does is the application's business and a constant,
`Behaviour`: how many parameters it takes, which methods it removes and adds
when it runs, and what it throws.  `BehaviourAssumption` excludes a method that
removes itself, which would destroy the `std::function` being executed.

`SystemMethods` adds the objects.  `Construct` binds the names in the code's order
and stops at the first one that is taken: the object then does not exist, its
destructor does not run, and the names bound before stay.  `Destruct` removes by
name whatever is there, and the introspection methods only if the
`"introspect"` capability is present *then*.  `system.multicall` is one action for
each call (`BeginMulticall`, `CallNext`, `EndMulticall`): `batch` holds the list,
the elements so far, and, for the properties, the registry it started with.
Only one request is served at a time, so no other action interleaves with it;
what changes the registry under it are its own calls.

### Base64

The encoder's action is one turn of its loop: a line break if the line is full,
then a group of four characters; `EncodeTail` is the code after the loop.  The
decoder's are one character each.  Characters are their 6-bit values, or a
negative number for padding, CR, LF, NUL and anything else outside the
alphabet.  `Base64` joins the two by what lies between: `c_str()` cuts the string
at the first NUL, XML normalises CR LF to LF, and `XmlReader` faults on an element
without text.  The reference the decoder is compared with is
`WholeBytes(Alphabet(text))`, the whole bytes of the stream of bits that the characters of
the alphabet spell.

### Values, JsonFormat, XmlFormat, Relay

A value is a record of a type and the field the type uses.  A text is a sequence of
characters: NUL, LF, CR, a blank, letters, and symbols that each stand for a whole
date, since the reader of JSON asks only whether a text *is* one.  Integers have a
width (`Int32Max`, `Int64Max`).  A double `<<n, k>>` is *k* units in the last place (ULPs)
from the integer *n*.  A conversion `AsX(v)` is the set of results of
`Value::AsX`: empty when the code throws.

A document is a nested record in the place of a `rapidjson` or `tinyxml2` tree.
`WriteJson`, `WriteXml` and the message writers build one the way `JsonWriter` and
`XmlWriter` do, and the readers take it apart with the errors they have; `Invalid`
is an exception.  `XmlFormat` includes what `tinyxml2` does to text when it
parses a document (`Parsed`): line ends become LF, and a text of blanks only is
no text.  The length of a text is lost on the way in, at `CString`.

JSON does not keep a double.  `JsonReader` parses with the default flags
(`jsonreader.cpp:33`), and those read numbers at normal precision (`reader.h:963`), with an
error of up to 3 ULPs (`internals.md:221`).  Which double comes of the digits of which is
the constant `StrtodNormalPrecision`, any function that is off by no more than
`MaxUlps`.  XML prints seventeen digits and scans them exactly, which is the identity.

| `Relay` | Code |
|---|---|
| `original`, `value` | the first peer's `Value` and the last one's |
| `path` | the formats on the way so far |
| `wire` | the document being carried |
| `Write(format)` | `Value::Write` to a `JsonWriter` or an `XmlWriter` |
| `Read` | `JsonReader::GetValue`, `XmlReader::GetValue` |

### Rpc and RemoteCalls

| Variable | Code |
|---|---|
| `myId` | the same, of each `Client` |
| `exchange`, `made` | the HTTP transfers so far: the document sent, then the status and the document of the answer |
| `current`, `outcome` | the transfer `CallInternal` waits for, and what its last call returned or threw |
| `app` | what the server's methods change |
| `effects`, `abandoned` | histories: the exchanges in the order their methods were invoked, and those nobody waited for |

| Action | Code |
|---|---|
| `Call` | `CallInternal` up to `curl_easy_perform` |
| `Return` | the rest of it, when the transfer gave a status |
| `Lose` | the rest of it, when it gave an error |
| `Resend` | libcurl sends the request again because a kept connection died |
| `Serve`, `ServeRefused` | `Server::HandleRequest`, with a request its reader takes or does not |
| `ServeFails` | the answers without a document: 400, 404, and the 500 of an exception before or after the method was run |

An exchange whose client has given up stays, and can be served at any later time.
One server action stands for the whole life of a request in module `Server`,
which promises, as `RpcService`, just that: one answer, made from the
request's own bytes.

The formats and `Invoke` are operator parameters.  What `Rpc` needs of them is
stated as assumptions: an id arrives as it was sent and changes nothing else
(`RequestAssumption`, `ResponseAssumption`), and a refusal can be read and has a
null id (`RefusalAssumption`).  `MCRpc` instantiates them with `JsonFormat` and
`XmlFormat`, so TLC checks that the formats satisfy them.

`RemoteCalls` has *attempts* in the place of exchanges.  `AServe` gives an attempt
the `Outcome` of its call in the present state and applies its `Effect`; `AFail`
gives it a failure, with or without the effect.  `Rpc` defines the two as
`LocalOutcome` and `LocalEffect`: the method invoked in process on what the format
carries of the parameters, and what the format carries of the response.  The
mapping takes an answered exchange to what `Receive` makes of its answer, so any
answer that the id check would confuse is a step `RemoteCalls` does not have.

### ValueHeap and ValueSemantics

A program has a few variables and runs one statement at a time; a statement is one
step, or several where it can be seen half done.

| Variable | Code |
|---|---|
| `var` | each variable's type tag and pointer, or `Dead` before its constructor and after its destructor |
| `live`, `cell` | the cells that are allocated, and the `Value`s in those that hold a vector |
| `frames`, `target` | the vectors a copy constructor is filling, the innermost last, and the variable it constructs |
| `doomed` | cells whose `delete` is to run |
| `source` | the other side of a move assignment, between `Reset` and the taking over |

`Copy`, `CopyElement` and `CopyDone` are a deep copy; `CopyFails` is `new` throwing at
any point of it.  `Delete` destroys the elements of a cell and frees it.  `MoveAssign` is
`Reset`, then (`MoveAssignDone`) the taking over; a copy assignment is a copy and a move
assignment.  `ValueSemantics` has one variable, `held`, which takes the values
themselves.  A value is a tree, and a tree the set of its nodes: the path that leads to
each, a sequence of positions in arrays, with the type there (`ValueTrees`).  The mapping
at the end of `ValueHeap` reads it off the heap: `Contents`, a recursive function of
cells, is what is below the elements in a cell, and `Meaning(x)` the tree of a `Value`.

### XmlText, XmlParser, XmlPrinter

Characters are bytes.  In `XmlText` a text lies between two other parts of the buffer,
`Before` and `After`, and each action is one turn of the loop in `GetStr`: a line break,
a character reference, an entity, another character, the end.

A reference is taken apart as `GetCharacterRef` does it, from its semicolon back: its
digits are those behind the nearest `x` (or `#`), and whatever comes before that is taken
with it and dropped.  `&#x&#xE9;` is one reference, and becomes one character.

| `XmlText` | Code |
|---|---|
| `mem`, `first`, `flags` | `_charBuffer`, `_start` and `_flags` |
| `r`, `w` | `p` and `q`, the pointers that read and write |
| `stage` | where `GetStr` is |
| `body`, `plain` | histories: the text as it was parsed, and what was printed if it was |

| `XmlParser` | Code |
|---|---|
| `buf`, `p` | `_charBuffer`, and the pointer the parse functions pass on and return; 0 is the null pointer |
| `frames`, `at` | the calls of `XMLNode::ParseDeep` and what the innermost does next |
| `nodes` | the nodes that are allocated, with their kinds, names, values, attributes and children |
| `current`, `untracked` | each memory pool's `_currentAllocs` and `_nUntracked` |
| `error` | `_errorID` |

Names and values are *places* in `buf`.  `GetStr` there writes only the NUL at their
end, which is what can spoil a neighbour; what else it does inside them is `XmlText`.
`Identify`, `ParseDeep` of each kind of node, `ParseAttributes` and the return to the
caller are actions; so is every way an error unwinds, with the destructors that give
nodes back to their pools.  `Read` is somebody asking for any of the names and values of
the finished tree, in any order.

`XmlPrinter` writes what `XmlWriter` can: one declaration, then elements, texts and ends.
`XmlDocuments` joins the two, and `XmlTrees` compares the tree that is read with the one
that was printed.

### JsonNumbers, JsonParser, JsonPrinter, JsonGrammar

`JsonNumbers` keeps the local variables of `ParseNumber` under their names, `phase`
for the place in the function, and three histories that the properties need: `digits`
(all digits before the exponent, as one number), `places` (how many come after the
point) and `skipped` (10 to the number of those a full `double` did not take).  A
`double` is exact: which digits it takes is modelled, their rounding is not.

| `JsonParser` | Code |
|---|---|
| `at`, `frames` | what the reader does next, and the calls of `ParseObject` and `ParseArray` with the values they have counted |
| `values` | the document's stack: `EndObject` and `EndArray` take off it as many as were counted |
| `chars` | the reader's own stack, on which a string is put together |

`JsonGrammar` is written from the grammars and not from the code, with cuts in the place
of a stream: an escape of four digits may stand for half of a surrogate pair, alone.
ECMA-404 takes any value for a text, and RFC 4627 arrays and objects only; it lets a parser
take more.  This is the reference that `AcceptsJson` compares the reader with, and where the
two differ `AcceptsJson` says so: see section 6.
`JsonFormat` and `XmlFormat` above go on taking documents as trees: what these modules
check of the texts is what allows that.

## 3. The runs

| Run | Module, cfg | Checks |
|---|---|---|
| `server` | `MCServer`, `Server.cfg` | `TypeOK` `InfoOwnership` `ReplyReadable` `BodyIntact` `FirstHandlerServes` `ReplyFinal` |
| `server_service` | `MCServer`, `ServerService.cfg` | `OversizeRefused` `ImplementsService` |
| `system_methods` | `MCSystemMethods`, `SystemMethods.cfg` | `TypeOK` `NoDanglingMethod` `LiveObjectServes` `MulticallEquivalent` |
| `relay` | `MCRelay`, `Relay.cfg` | `JsonKeepsConversions` `XmlKeepsOrRefuses` `Settles` |
| `rpc` | `MCRpc`, `Rpc.cfg` | `TypeOK` `LateIfAbandoned` `ImplementsRemoteCalls` |
| `base64` | `MCBase64`, `Base64.cfg` | `TypeOK` `EncodedSizeShort` `RoundTrip` `DecodeFits` `DecodeMatchesBits` |
| `value_heap` | `MCValueHeap`, `ValueHeap.cfg` | `OwnedOnce` `ImplementsValueSemantics` |
| `xml` | `MCXml`, `Xml.cfg` | `ParserTypeOK` `StaysInside` `PrintedTextSurvives` `Unspoilt` `NothingLost` `RoundTrip` `Terminates` |
| `json` | `MCJson`, `Json.cfg` | `NumberTypeOK` `NumberExact` `PlacesKept` `ExponentInTable` `StackSound` `RoundTrip` `AcceptsJson` `Terminates` |
| `base64_size` | `MCBase64`, `Base64Size.cfg` | `EncodedSizeExact`, violated: see section 6 |
| `xml_declaration` | `MCXml`, `XmlDeclaration.cfg` | `DeclarationFirst`, violated: see section 6 |
| `json_exponent` | `MCJson`, `JsonExponent.cfg` | `ExponentFits`, violated: see section 6 |

**Server.**  Two connections, two addresses, two handlers that accept one route
in common, the methods POST and GET, pieces of one and of two bytes, a limit of
two bytes (16 KiB in the code) and bodies of up to four.  Interference
between requests is pairwise, so two connections are what it takes; two addresses
are as many as can be live at once, so a freed one is reused by the other
connection at once.  With a limit of two a body can be below it, at it (in one
piece or in two), or above it in its first, second or third piece, and the limit
can be overstepped by one byte.  The MHD of the run `server` takes or refuses each
reply mid-upload as it likes, so a piece that is too large is also dropped and a smaller
one taken after it.  `MaxHandlers` and `MaxUpload` are the only bounds on behaviours.
`OversizeRefused` is checked where MHD takes replies, since it speaks of nothing
else.  Symmetry on connections and addresses is used where no liveness is checked.

**Refinement and liveness** are checked together, without symmetry, with one
registered handler.  The mapping is only claimed when MHD takes a reply
mid-upload: otherwise the code drops the piece that is too large, goes on, and
may answer a request with a hole in its body.

**System methods.**  Two scopes, chosen at the start.  In *lives* two objects share one
dispatcher, so that the second's construction fails because of the first, or its
destruction removes the first's names, or follows it; the application also uses one
`system.*` name itself, so that construction can fail half way and an object can lose
the name it bound, and hides any name.  In *batches* there is one object and every
registry the application makes with names of its own, and lists of up to three calls
out of eleven: among them a method that removes one and adds another, two that throw,
the three introspection methods, a nested multicall, an unknown name (what has been
removed), and one of each malformed element.  Three calls let one change the registry,
a second depend on it, and a third follow the second's failure.

**Relay.**  Every text of up to three characters out of six (a letter, NUL, LF, CR,
a blank, a date), alone and after a letter, as a string and as a binary; every
integer of 3 and of 4 bits, so that both sides of the 32-bit limits are met; arrays
and structs of up to two of ten leaves chosen for what a format changes in them,
with six names that XML keeps, merges or empties.  Nothing in the readers looks
further than one character back, and a container treats each of its elements
alone except for names that become equal, so two elements suffice.  Of the five doubles
one is read back as the next and that as one two units away, so a value moves at two
peers, the second time by more than the first; the others stay.  Four hops
(`MaxHops`) hold every path on which a value changes, is refused, or settles,
with one hop more to see that it stays.

**Rpc.**  One client for each format and calls that count, count and throw, return an
empty binary (which XML cannot carry), or take one as a parameter.  `MaxId = 0`
makes the second id of a client overflow.  `Int32Max = 40000` is large enough for
the fault codes of the code.  Two transfers are enough to abandon one and wait
for the other, of the same client or of the other one.

**Base64.**  With lines of 8 characters (76 in the code) 10 bytes reach a
second line, all three remainders, and the short case (7 and 8 bytes).  The
two byte values differ in every position of the bits that is shifted.  Behaviours that
start as *foreign* run the decoder alone, which
gets *every* text of up to six characters over three values and one character
outside the alphabet, whether or not an encoder could have written it.
`base64_size` uses the code's 76.

**Values.**  Three variables, four cells and arrays of up to two elements: enough for an
array in an array with a string beside it, a copy that fails at its second element and
at either depth, and a third variable to be disturbed.  There is no bound on the number of
statements.

**XML.**  Two scopes.  *Texts* are all sequences of up to three of twelve pieces (entities,
references in both bases, one whose code overflows an `unsigned int`, one cut short, a
lone `&`, line breaks, blanks) under four sets of flags, and every text of up to four
characters out of seven as `PrintString` writes it.  A reference takes one piece, so
three are one on each side of another, or one that ends another: `&#`, `x` and `&#xE9;` are
a single reference.  The weights of the digits of a reference wrap at
`UnsignedRange`, 2^24 here and 2^32 in the code, so that seven digits reach it.
*Documents* are all sequences of up to three of thirteen pieces of markup, most of them
wrong, and every document of up to four elements that the printer makes: siblings,
elements in elements, and texts before, between and after them.  The markup is chosen so
that the parser meets what it asks for, something else, and the end.

**JSON.**  The integers are narrow: an `int32_t` ends at 1000, an `int64_t` at 5000, the
fast path of a fraction at 90, a `double` takes three digits and a table goes to 12, so
that each limit, with its last digit, is crossed by numbers of four and five digits.  Texts
are all sequences of up to four pieces of markup, of a number or of a string, and every
integer of up to five digits out of 0, 1, 5 and 9; a piece is what takes several
characters to matter (the whole first half of a surrogate pair, `E+13`).  The writer
begins a value or a name while it has written no more than seven bytes.  The
`WidthAssumption` that `JsonProofs` rests on holds of the code's own widths too.

**Deadlock.**  The runs of `Base64`, `xml` and `json` have `CHECK_DEADLOCK FALSE` because
a function that has returned takes no further step; `relay` because a refused value goes
nowhere and a path has an end; `rpc` because the transfers are used up.  The runs of the
server, the system methods and the values check for deadlock.

## 4. Fairness

In the server only `OnUploadDone` is fair, weakly and for each connection.  The body has
arrived; the daemon's descriptor is readable; the application's loop
(`examples/testserver.cpp:102-104`) calls `MHD_run`, which serves every connection
that is ready.  Nothing else is: a client may stop sending at any time, stay
connected for ever, or never come, and the server is started without a connection
timeout (`server.cpp:47-56`).  A remote call has no liveness property at all: the
client sets no timeout either (`client.cpp:61-69`), and waits as long as the server
keeps the connection open.  So the
liveness of `RpcService`, which `ImplementsService` carries over, starts from a body
that is complete, and allows for a client that leaves and a server that is destroyed.

`XMLDocument::Parse` and `GenericReader::Parse` are function calls that run to their end
in one thread: once begun, the parser's own steps (`ParseOn`) are weakly fair.  What the
printer writes next, and whether anybody parses or reads a document, is not.

## 5. The proofs

| Theorem | Says |
|---|---|
| `ServerProofs!SpecTypeOK` | `Spec => []TypeOK` |
| `ServerProofs!SpecInfoOwnership`, `SpecReplyReadable`, `SpecBodyIntact`, `SpecOversizeRefused`, `SpecFirstHandlerServes`, `SpecReplyFinal` | each safety property of `Server` |
| `ServerProofs!SpecBufferBounded` | no buffer exceeds the limit; follows from the same invariant, and no run states it |
| `ServerProofs!SpecImplements` | every step of `Server` is one of `RpcService` or none, if MHD takes replies mid-upload |
| `SystemMethodsProofs!SpecTypeOK`, `SpecNoDanglingMethod`, `SpecLiveObjectServes` | three of the invariants of `SystemMethods`; the last under `Apart`, see below |
| `SystemMethodsProofs!SpecMulticallEquivalent` | a batch is its calls made one at a time |
| `SystemMethodsProofs!ThrowIfFaultKeepsCode` | every 32-bit code survives `ThrowIfFault`, and the class of the exception tells its range |
| `RpcProofs!SpecTypeOK`, `SpecLateIfAbandoned` | the two invariants of `Rpc` |
| `RpcProofs!SpecImplementsRemoteCalls` | `Rpc` implements `RemoteCalls` |
| `Base64Proofs!EncoderStaysInBounds`, `WriterStaysInBounds`, `DecodeStaysInBounds`, `SpecStaysInBounds` | types and bounds of both functions, alone and joined, and `EncodedSizeShort` |
| `Base64Proofs!DecodesWholeBytes` | the decoder writes the whole bytes of the bits in any text |
| `Base64Proofs!SpecRoundTrip` | what is encoded is decoded again |
| `ValueHeapProofs!SpecOwnedOnce` | every cell has one owner |
| `ValueHeapProofs!SpecImplementsValueSemantics` | `ValueHeap` implements `ValueSemantics`: copies are deep and equal, and no statement is seen through a variable it does not name |
| `XmlTextProofs!TextStaysInside` | decoding a text in place stays inside it |
| `XmlTextProofs!TextTyped` | what is decoded is bytes, whatever a reference counts: the `TypeOK` of `XmlText`, which no run states |
| `XmlTextProofs!PrintedTextsSurvive` | a text that was printed is decoded to what it was, with its line ends made LF |
| `XmlParserProofs!ParserTyped`, `NothingSpoilt`, `NoNodeLost` | the types of the parser and the printer; no name or value is spoilt; no node is lost, whichever way an error unwinds |
| `JsonProofs!SpecNumberTypeOK`, `SpecNumberExact`, `SpecExponentInTable` | no counter of `ParseNumber` overflows, integers that fit are exact, and the exponent is one of the table's |
| `JsonProofs!SpecPlacesKept` | a digit of a fraction is left out only by a double that is full, and the exponent counts exactly those that were taken |
| `JsonProofs!SpecStackSound` | the values on the document's stack are the ones the open arrays and objects have counted |
| `JsonProofs!SpecRoundTrip` | a document the Writer wrote is accepted, and what is read from it is what was written |

They hold for any sets of connections, addresses, handlers, routes and pieces and any
limit; any names, objects, application methods and batches; any clients, calls, number
of transfers and formats that carry ids; any line length that is a multiple of four, any
input and any text; any variables, cells and lengths of arrays; any XML text in any
buffer, under any flags, and any document, well formed or not; any widths of the
integers, any text of a number and any JSON text; and any document the Writer can write,
with any names, strings and integers.

They rest on the `ASSUME`s of the modules, which TLC evaluates in the runs: that `NULL`
is none of the other values and pieces are not empty; that `App` is no object, method
behaviours are of their types and the `system.*` names are names; that a line is a whole
number of groups and bytes are bytes; that formats carry ids unchanged and apart from the
rest; that a text to be decoded has no NUL and something comes after it
(`TextAssumption`), and that documents and names are sequences of bytes
(`DocumentsAssumption`); that the widths are ordered as in C++ and a text is shorter than
an `int` counts (`WidthAssumption`, `TextsAssumption`); that names are strings of bytes,
and a value is null, a bool, an integer of a width the reader has, or a string
(`WrittenValuesAssumption`: what `Value::Write` gives a `JsonWriter`, doubles apart).  Only the assumption about formats
stands for an induction over documents that is out of reach here: it is checked on the
instances.  Two theorems have a hypothesis of their own, written in their statement:
`SpecImplements` takes an MHD that takes replies mid-upload, and `SpecLiveObjectServes`
takes `Apart`.

**Server.**  The invariants are not inductive.  They speak of what
`connectionCls[c]` points to, and a step of connection *d* writes through
`connectionCls[d]`; it is `InfoOwnership` that makes these different addresses.
And whether there is a pointer at all must agree with MHD's phase.  So
`Inv == TypeOK /\ InfoOwnership /\ \A c \in Conns : ConnectionInv(c)`, where
`ConnectionInv` says: no pointer between requests, one while a body arrives, no
reply before the phase `replying`, nothing open when the server is not running,
and, of the `ConnectionInfo` pointed to, that it is live, bounded, complete and
in the hands of the first handler.  The lemma `Frame` shows that a step which
leaves connection *c* and its `ConnectionInfo` alone keeps `ConnectionInv(c)`;
`NewOwnership` and `EndOwnership` show that `new` and `OnRequestCompleted` keep
ownership; each action then needs an argument about its own connection only.

`SpecImplements` is the safety part of `ImplementsService`.  A step of connection *c*
is shown to be the step of the service it should be, or none, on *c* itself; `Unseen(e)`
says that the service's view of another connection stays as it was, and `OthersUnseen`
gets it from `InfoOwnership`: no other connection points to the `ConnectionInfo` that
changed.  `ReplyFinal` needs the same separation for the `Writer` a queued reply reads.

**System methods.**  `NoDanglingMethod` needs `OwnedNames`: an object owns only
names its own constructor binds.  Otherwise a destructor that removes "its" names
might leave one behind.  Whatever the application's methods do to the registry,
bindings of objects can only disappear (`Derived`, `RunDerived`, `ServeDerived`),
so the calls of a batch cannot create a dangling one.

`LiveObjectServes` does not hold for every application.  Two objects can be alive at once
only if the application has removed what every constructor binds, `system.multicall`
*and* `system.getCapabilities`; then the destructor of one takes the names of the other.
`Apart` excludes that, and methods that remove names the application does not own.
Under it at most one object is alive (`OneAlive`), and a step that serves a call keeps
every name with its owner (`Kept`, `ServeKept`).

`MulticallEquivalent` compares a batch with the recursive function `one`, a client that
makes the same calls one at a time from the registry the batch began with.  `Abreast`
says that after *n* calls the registry is the one of step *n* and the elements are the
responses so far (`One` is the function for the whole list, so that a step of the batch
moves along it).  The case to be careful with is an element that is malformed or a
nested multicall: both refuse it and go on, with other fault codes.

**Rpc.**  The refinement needs to know what is in a document that is on its way.
`ExchangeInv` says that a request is `WriteRequest` of the exchange's own call and
id; the lemmas `ServedOutcome` and `RefusedOutcome` then show, from the
assumptions on formats, that `Receive` makes the local outcome of the answer, for
every id, also one that has overflowed or that another exchange has too.
`CurrentInv` says that a client waits for the last exchange of its own, and
`WaitingInv` that a request still on its way is waited for or has been abandoned:
together they make `LateIfAbandoned` inductive.  `RemoteNext` maps each
action to one of `RemoteCalls`.

**Base64.**  The decoder's invariant is `BitsAccounted`: eight bits for each byte
written plus those pending are no more than six for each character read.  The
encoder's is `Progress(k, c)`: after *k* groups and *c* line breaks
`4k + wrap = (c + 1) * LineLength`, and a line is broken only when another group
follows.  `SizeAtEnd` and `FullLines` then compare the length written with the size
computed in advance, and find the one case in which they differ.

`DecodesWholeBytes` follows the text one character at a time: `Spells(t, a, c)` says how
many characters `c[p]` of its alphabet string *a* are among the first *p* of the text, and
`Grouped` that what the decoder has written and what it holds are the bytes and the rest
of so many of them.  `SpecRoundTrip` needs to know what the
encoder wrote, not only how much: `Encodes` says that the letters so far, without the line
breaks, spell the bytes so far group by group (`SpeltSo`; `Restored` is the arithmetic of
one group).  `FirstNul` finds the end of the C
string, also when the string is two characters short.

**Values.**  `OwnedOnce` speaks of slots of four kinds.  The invariant says the same with
one predicate for each kind (`VarHolds`, `ElementHolds`, `FrameHolds`, `DoomedHolds`), so
that a step is described by what each kind holds after it; `HeldOnlyLive`, `HeldOnce` and
`AllHeld` then follow one by one.  Two facts are added without which a step would drop a
cell: the variable that a copy or a move assignment is about to fill owns nothing
(`TargetEmpty`), and a vector under construction is never longer than the one it copies
nor is it copied itself (`Lengths`).  A move passes a cell on (`TakeOverInv`), a new cell is
nobody's (`NewCell`), `Reset` and `Delete` hand cells to `doomed`.

`SpecImplementsValueSemantics` rests on the same ownership.  `Contents` is defined by
recursion from cell to cell, and is a function only as long as no cell is, however deep,
in itself; so its invariant, `SInv`, adds `Ranked`: cells have ranks, and an element is in a
cell of a lower rank than the one it is in.  That there is only one such function
(`OneContents`) is an argument about a cell of least rank.  A step changes one cell at
most, one that no element is in because its owner is a variable, a frame or `doomed`, and
then every other cell holds what it did (`OneCellChanges`); what a step does to `Held`
follows from what it does to `var`.  A cell that a copy fills gets the rank of the cell it
copies, since it will hold the same.  `Copying` says how far that has come: each element
that is there is equal to the one it was copied from, what a frame copies is the next
element of the frame around it, and the outermost copies something that is inside a
variable (`Seen`), so the finished copy is a value `ValueSemantics` may copy.  That all a
program can reach is inside a variable (`ReachableSeen`) is an argument about a cell of greatest
rank.  Only the end of a copy is a step of `ValueSemantics`; one that fails is none.

**XML texts.**  `StaysInside` compares the two pointers with each other and with the text,
but the loops stop at a NUL, so the invariant has to say where there is one: `Ended`, at
the end of the text while it is decoded, and not behind the reading pointer after that.
That a reference never makes more bytes than it takes (`ReferenceShrinks`) is a case for
each length its bytes have: the `x` or `#` it is scanned back to is found (`FindBackLast`),
there is at least one digit behind it if it makes any but a NUL, and what it drops before
that only makes it longer.
`BufferOK` says that the buffer is a sequence of unchanged length; with it a write is an
update of one place.  That what is written is a byte (`TextTyped`) is a matter of what a
reference counts: each digit's share wraps as an `unsigned int` does, the sum does not, and
`Utf8Length` has a length only for those sums whose first byte has room for the rest.

`PrintedTextSurvives` speaks of the end, so its invariant, `Faithful`, has to say where the
decoder is in terms of the text that was printed: for some *n* the first *n* characters of
the printed text have been read (`r` is where `Written(t, n)`, their escapes, ends),
`Wanted(t, n)`, the same characters with their line ends made LF, has been written, what
comes after is still as it was printed, and *n* is not between a CR and its LF.  Each turn
of the loop then reads one character, or such a pair, whatever it was printed as: the references
differ in their second and third characters (`Told`), and a character that is not
escaped begins none.

**XML parser.**  `NothingLost` counts what is *reachable* in a tree that changes.  `IsTree`
has it as facts about addresses: nodes are numbered in the order in which they are
created, the nodes of the open calls form a path, and what is below a node that is not
yet linked is all that came after it.  So what `InsertEndChild` links and what a destructor
gives back is an interval of addresses, and the count of each pool is the number of the
nodes of its kinds, less the one being parsed (`BeingParsed`).  `Pushes`, `Pops`, `Opens`,
`Inserts` and `Deletes` are the ways a step changes the tree, and each action is one of them.

`Unspoilt` rests on `Laid`: the places in use lie apart, each has room for the NUL behind
its end, and all are behind the parser's pointer.  Then a NUL written for one place falls
neither on a character of another nor on one that is still to be read.  A place may end
*at* the pointer only where the parser is past what stands there: at the tag after a text
and after the name of an element (`Borders`).

**JSON numbers.**  The invariant has a conjunct for each thing the function keeps:
`TypeInv` the widths, `DigitsInv` which variable holds the digits in which phase,
`ExponentInv` the exponent.  A digit is taken into an `int` or a `uint64_t` only below a
tenth of the limit, or at it with a last digit that fits (`NoWrap`), and the sign is
applied at the end to a number whose negation fits (`NegatedExact`).  A `double` holds a
prefix of the digits, and `skipped` says how many times ten the rest is.
`PlacesInv` relates `significandDigit`, which is counted through three loops in three
types and not at all in a fourth, to what it should count: a value for which it is *n* is at
least 10^(*n* - 1), unless both are zero (`Filled`).  An integer that has more than one
digit does not begin with a zero, and a fraction's zeros only count after another digit;
`DoubleDigit` leaves the counter behind, and that is on the safe side.  `PowerOfTen` is a
recursive function and not `^`, of which the provers know nothing.

**JSON documents.**  The stack of the document has no marks between arrays: only the
counts on the calls' stack say where one ends.  `Base(calls, named, n)` is the place where
the *n*-th open array or object begins if each holds what it has counted (`Holds`: twice
as many for an object, and a name that waits for its value); `StackSound` itself says that
its placeholder is there, and names where names belong, and is nearly inductive: `StackInv`
adds that a name is only read inside an object.  A step touches the innermost only,
and `StillPlaced` keeps the others.

`RoundTrip` compares the end of the reader with the end of the Writer, which is done
before the reader begins; what the reader has at some place of the text must be compared
with what the Writer had when it had written just that much, a state that is gone.  The
invariant, `RoundTripInv`, says that it existed: there is a `History`, a sequence of
states of the Writer that begins with the blank one and ends with the present one, each
one operation after the one before and each with a text that the last one begins with
(`Begins`).  The reader is always in step with it (`Sync`): it is past all that was
written in one of these states (`AfterSync`), or between one and the next (`ReadingSync`):
at a value or a name that comes next (`ValueSync`, `KeySync`), *m* characters into its
string (`StringSync`), or *q* digits into its number (`NumberSync`).  In each of these the
stack of the document is what had been written by then (`Stack`), and the calls of the
reader have counted what the levels of the Writer have (`Matched`).

So a step of the reader is one of few things.  After a value, the next byte is the
comma, colon or end that the next operation of the Writer put there, and which one it put
follows from the count of its level, which is the reader's too.  In a string, the next
bytes are the escape of the next character, whatever its form (`EscapeIs`), and the quote
is reached after the last one only (`QuotedPart`).  In a number, the value so far is the
number without its last digits (`LeadingIs`, `DecimalIs`), which fits whenever the whole
does, so that neither a wider type's limit nor the double is met; the sign is put back at
the end (`NegatedExact`).  Documents from elsewhere are no part of it: there `out` is
empty.

**Induction over data.**  The theorems that recursion needs are proved here by least
elements: the set of lengths for which a statement fails has a least one, or a set of
lengths that has 0 and with each its successor has all (`UpTo`).  That is enough for
recursive *functions* (`Without`, `one`, `Base`, `Contents`, `PowerOfTen`, `Decimal`,
`Number`, line breaks, nodes below a node) and for `FlattenSeq`, which is one.  It is not
for `RECURSIVE` operators and folds.

**Only model-checked**: the liveness of `ImplementsService`, and `Terminates`; and, because
they need recursive operators on values and trees of every depth, `JsonKeepsConversions`,
`XmlKeepsOrRefuses`, `Settles`, `AcceptsJson` (whose grammar is recursive) and the
`RoundTrip` of XML documents.  Liveness under fairness is out of reach of the provers used
here.

## 6. What the model says about the code

**A defect: `Base64Encode` can be two characters short.**  The size of the string
counts a line break after every full line that another character follows, but the
tail of one or two bytes is written without testing whether the line is full.
For inputs of 57k+1 or 57k+2 bytes, k > 0, the string has two characters more than
are written.  A debug build stops at `assert(str.size() == out)` (`util.cpp:155`);
a release build returns a string that ends in two NULs, after a line of 80
characters.  Run `base64_size` shows it for 58 bytes; `EncoderStaysInBounds`
proves that this is the only case.  `RoundTrip` shows that a binary value in an
XML document survives it, because `c_str()` cuts the NULs off.

**A comment that the code does not keep.**  "A declaration can only be the first child of a
document" (`tinyxml2.cpp:896`), and what follows tests it with `NoChildren()` of the
*document*.  The root element is linked into the document only when it has been parsed,
so a declaration inside it, as its first child or later, finds the document empty and is
accepted.  Run `xml_declaration` shows `<a><?d?></a>`.

**JSON that is not read.**  "RapidJSON should be fully RFC4627/ECMA-404 compliance"
(`features.md:22`), but a string with an escape of a high surrogate that no low one follows
(`"\ud834"`) is refused, which the grammars of both allow.  A lone low one is taken.
`AcceptsJson` has this, with the numbers too large for a `double`, which both leave to the
implementation, as its only exceptions: a text is accepted exactly if it is one of the
grammar and has no lone high surrogate.  `HasLoneHighSurrogate` is a condition on the text
and knows nothing of the reader.

**A comment that is out of date.**  "the parse fail can put objects in the pools that are
dead and inaccessible" (`tinyxml2.cpp:1931-1932`) is why the pools are cleared after an error.  `NothingLost` shows, and `NoNodeLost` proves for every document, that
this does not happen: every node in the pools is in the tree or in the hands of
a call when an error is found, and the destructors give it back as the error unwinds.

**An `int` that overflows.**  The exponent of a JSON number stops being read at a limit
that keeps the exponent in an `int` ("Issue #313: prevent overflow exponent",
`reader.h:931`), but `p = exp + expFrac` (`reader.h:959`) adds the number of places after
the point, which is negative too.  Such a number, zero as a `double`, is undefined
behaviour: run `json_exponent`.  The model keeps the sum as a whole number, so what
`SpecExponentInTable` says holds of the code where the sum is an `int`.

**Observations**, visible in the model and with no statement in the repository
that they contradict:

- An empty binary value cannot be read back from XML: `XmlReader` faults on an
  element without text (`RoundTrip` states the exception).
- XML cannot carry every value the library writes.  A struct with an empty or blank
  name is refused as well.  When such a value is the result of a call, the method
  has run and the client gets an `InvalidRequestFault`, which it also gets when the
  server refused the request (`ImplementsRemoteCalls` gives both that outcome).
- JSON changes types (a 64-bit integer that fits becomes a 32-bit one, a binary a
  string), but the conversions of the original go on working, except for a string
  that spells a date: it arrives as a date, and `AsString` on it throws
  (`JsonKeepsConversions`).  A double stays one, but may be some ULPs off, and more so
  after each peer.
- XML ends a text at its first NUL, turns CR into LF and blanks into nothing, and two
  names of a struct can become one.
- After JSON and then XML a value is never refused again and no longer changes, but for
  its doubles, which the next peer that speaks JSON may move (`Settles`); after XML and then
  JSON it still may, so a value can be accepted by both and yet be altered by a
  second XML peer.
- The order of the id check and `ThrowIfFault` in `client.cpp:109-114` makes no
  difference between two peers of this library: the only answer with a null id is
  the refusal, and both give an `InvalidRequestFault`.
- A call that ended in a `runtime_error` may take effect later, after the next call
  of the same client (`LateIfAbandoned` says that no other call does).
- `NoDanglingMethod` states the two cases in which a method outlives its object: a
  constructor that threw half way leaves the names before the one that was
  taken, and an object whose `"introspect"` capability was removed leaves the
  introspection methods when it is destroyed.
- If MHD refuses a response mid-upload, a request above the limit is not refused:
  the piece that crosses the limit is dropped and the rest is parsed.
- `Stop` may happen while a reply is queued: in `testserver.cpp` the loop ends in
  the same call that runs `exit`, so its reply may not be sent.
- `tinyxml2` ends a document without an error at an end tag that ends nothing
  (`</a>` beside the root), and takes `</a/>` for an empty element.
- In a text, `&#;` becomes a NUL, at which whoever reads it as a C string stops, and `&#`
  at its end loses its `&`.  The `&` of an entity that is not known is skipped in both
  pointers and not copied (`tinyxml2.cpp:259-263`): `&foo;` stays as it is only if nothing
  before it was shortened, and `&amp;&foo;` becomes `&afoo;`.
- The code of a character reference is computed in an `unsigned int` that wraps, so a
  number too large can be a character.
- A reference may have others inside it: `&#x&#xE9;` is one for U+00E9 and `&#&#65;` one for
  `A`, and `&#xx;` is a NUL.
- A number too large for a `double` is refused if its exponent is too large or if it is
  nearly too large when another digit comes; `10e308` is read as an infinity.
- A struct with the same name twice keeps both members in the document, and `JsonReader`
  takes the first.

## 7. What is not modelled, and the plan

| Part | Status |
|---|---|
| `Request::Write`, `Response::Write`, `Value::Write` | the document they produce is modelled; the nesting of the `Start*`/`End*` calls is left to the printers, which are driven with every nesting that is one |
| documents the library does not write | parsed as texts by `XmlParser` and `JsonParser`, but not read as requests: foreign element names, several ids and notifications do not occur between two peers of the library |
| doubles, digits of dates | the digits are left out: how far `StrtodNormalPrecision` is off is a parameter, `Grisu2` and `snprintf` are taken to print enough of them, and doubles beside an infinity or a NaN do not occur; a date is one symbol, without `strftime` and `strptime` |
| `tinyxml2`: queries, editing, files, other printing modes | not called by the library, as are its comments and CDATA in the printer |
| `rapidjson`: in-situ and iterative parsing, schema, pointer, pretty writer, other encodings, allocators | not called by the library |
| help texts and signatures | not kept: nothing depends on them |
| capabilities other than `introspect` | only reported by the code |
| examples, tests, build files, `catch` | no behaviour of the library |

Written so far, most important first: `Server` with `RpcService`; `Faults`,
`Dispatcher`, `SystemMethods`; Base64; the formats with `Relay`; `Rpc` with
`RemoteCalls`; `ValueHeap` with `ValueSemantics`; the parsers and printers of both
formats, with `XmlDocuments` and `JsonDocuments`.  To come, in this order:

1. `WriterNesting`: the writers' stacks under every sequence of calls that
   `Request::Write`, `Response::Write` and `Value::Write` make.
2. Requests of foreign clients: notifications, ids of other types, malformed
   documents, and the dispatcher behind them.
3. `Rpc` over `RpcService`: an exchange as a connection, so that the server's
   refusals have their causes.

## 8. Running it

    tlc -workers 2 -config Server.cfg MCServer      # one run; see section 3
    tlapm ServerProofs.tla                          # one module of proofs

The runs take from a few seconds to two minutes each; the proofs some minutes a module.
The proofs use the SMT solver Z3, Zenon and, for temporal steps, LS4.
