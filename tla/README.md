# A formal model of dboost

dboost puts CORBA-style remote objects on top of libdbus: an IDL compiler back
end generates proxies and adaptors, and a small library (`include/`, `src/`)
serves objects on a D-Bus connection. These modules model what that code does
when objects, processes and messages interact: which object a call reaches,
what becomes of a call when somebody times out, throws or dies, how the two
event loops keep up with libdbus, which values survive the trip, and what the IDL compiler makes of an IDL file.
TLC checks small instances; TLAPS proves the invariants and the action properties for
instances of every size.

## 1. The system

Components, the state they keep, what they do, and what makes them correct.

| Component | State | Operations | Talks to | Must hold |
|---|---|---|---|---|
| `dboost::server` (`src/server.cpp`) | `m_adaptors`: interface -> adaptor*; its bus name | constructor/destructor (request and release the name), `register_adaptor`, `unregister_adaptor`, `register_object`, `unregister_object`, `set_dispatcher`, `message_func`, `run` | libdbus's object tree and watch callbacks; generated adaptors | no dangling adaptor; the tree agrees with the adaptors |
| generated adaptor (`templates.py`, `adapter.py`) | `m_objects`: path -> object*; static vtbl | constructor/destructor, `add_object`, `remove_object`, `handle_message`, `call_<operation>` | `server`, the user's objects | the call reaches the right object; one reply |
| generated proxy (`templates.py`, `proxy.py`) | none between calls | each operation: send, block, unpack or throw | bus, remote adaptor | its answer is the answer to this very call; it ends |
| serializer (`include/serializer.h`) | an iterator in a message | `operator&` in both directions, type collection | proxies and adaptors | what is extracted is what was appended |
| `poll_dispatcher` | `pollfds[]`, `watches[]`, `max_i` | `add_watch`, `remove_watch`, `watch_toggled`, `run`, `fd_handler` | libdbus watches, `poll` | one slot per watch; nothing waits unnoticed |
| `boost_dispatcher` | `m_descriptors`, the watches' data, waits under way | `add_watch`, `remove_watch`, `watch_toggled`, `resubscribe`, `handle_read`, `handle_write` | libdbus watches, asio | exactly one wait; nothing waits unnoticed |
| `dbus_ptr`, `dbus_traits` | a pointer, a share in a count | adopt, copy, assign, `reset`, `swap`, destroy | libdbus reference counts | nothing is freed that somebody holds |
| `create_connection`, bus name | the process's shared connection | `dbus_bus_get`, request/release name | bus daemon | a server is reached by its name unless somebody stands in the way |
| exceptions (`exception.h`) | none | check and throw | everything | - |
| IDL back end (`cxxbackend/*.py`) | per run: interfaces, structs, includes, pragmas, operations collected from the AST; the output directory, shared by all runs | four `run` functions, one visitor per generated file | omniidl, make | runs do not spoil each other's output; proxy and adaptor agree; what is supported compiles; a visitor prints what the IDL file says |
| `cppbackend.py` | the same for one header | the former back end, not used by the build | omniidl | its successor says what it said |
| echo service (`desiredimpl/00-dbus/server.c`) | pending calls with the messages they will answer, `already_quit` | one handler per member, the reply callback, the loop | bus daemon, clients, itself | every call gets its own answer, in bounds and in the end |
| prototypes (`desiredimpl/01` to `05`) | hand-written proxies and adaptors | the models for what is generated now | libdbus | - |
| tests (`test/`) | timer, observer and database servants, IDL files | examples | proxies, adaptors | - |

How they interact. A process has one thread and one connection, shared by all
its servers (`dbus_bus_get`). A method call arrives on the connection; a
dispatcher (or `server::run`, libdbus's own loop) sees the descriptor ready,
lets libdbus read, and dispatches. libdbus looks the path up in its object
tree and calls `server::message_func` with the server as user data; the server
looks the interface up in `m_adaptors`; the adaptor looks the path up in
`m_objects` and the member in its vtbl, deserialises, calls the object, and
sends a reply. The servant may itself use proxies, which block the thread
without dispatching.

What is hard here: the tables are changed by constructors and destructors in
any order; a call crosses two processes, either of which may time out, throw or
die half-way; a blocked thread does not dispatch, so calls in a circle wait for
each other; several servers and processes ask for one bus name; a watch belongs to libdbus and is changed from inside the code that
the watch's own event started; a message read but not dispatched makes no
descriptor ready; a visitor of the IDL compiler hands results to itself through
attributes that other visits overwrite. `PROJECT.json` lists these hazards line by line with the
properties that cover them.

## 2. Modules

| Module | Models | Composed with |
|---|---|---|
| `Server` | servers, object tree, `m_adaptors`, `m_objects`; `Answer` says what a call gets | |
| `Service` | servers with their bus names, rivals in other processes, the bus daemon's queues | extends `Server`; `ServerProofs` |
| `Rpc` | calls between processes: proxy, bus, inbox, adaptor, servant | refines `RpcAbstract`; `RpcProofs` |
| `RpcAbstract` | what a proxy promises about one call | |
| `Connection` | what both dispatchers share: libdbus's watches, the message queue and the socket | |
| `PollDispatcher` | `poll_dispatcher` | extends `Connection`; `DispatcherProofs` |
| `BoostDispatcher` | `boost_dispatcher` | extends `Connection`; `DispatcherProofs` |
| `Serializer` | arguments into a message and out of it | `SerializerProofs` |
| `DbusPtr` | handles and libdbus's reference counts | `DbusPtrProofs` |
| `IdlBackend` | the runs of the IDL back end over a directory of IDL files | `IdlProofs` |
| `IdlVisitors` | the walk of every visitor, of both back ends, over the declarations of one file | `VisitorProofs` |
| `EchoService` | the asynchronous C service, its clients and the daemon | `EchoProofs` |
| `MC*` | the finite instances for TLC; `EchoService` and `DbusPtr` need only their `.cfg` | |

### Server and Service

`Server` has one action per public operation: `CreateServer`/`DestroyServer`,
`Construct`/`Destroy` of an adaptor (they call
`register_adaptor`/`unregister_adaptor`), `add_object` and `remove_object`.
None of these operations blocks and one thread runs them all,
so each is one atomic step. `DBOOST_CHECK` turns libdbus's refusal of a path in
use into an exception thrown before anything has changed; the model has no step
there. The table entries of dead adaptors stay visible in `m_objects` so that the
properties can speak of what they left behind; `contested` is a history
variable. `message_func` and `handle_message` change no table: they are the state
function `Answer`, whose values are the ways a call can end, including "dead"
(a freed server is entered) and "silent" (HANDLED without a reply).
Assumption: a server outlives its adaptors, because an adaptor holds a
`server&` and every `main` declares them in that order.

`Service` adds the names. The daemon has a queue of connections for each, and
the first owns it. `server::server` asks without flags and takes any answer but
-1 for success, so it may find itself waiting (`Serve`); `server::~server` gives
the name back (`Retire`). All servers of a process share its connection, so two
of one name ask for it once and the first destructor gives it away. Rivals in
other processes ask and give up at any time. `Call` composes the two: who owns
the name, and then what the tables answer.

### Rpc and RpcAbstract

Processes (`Peers`) have a mode (`main` before the name is requested, `named`,
`run`, `dead`), an inbox, a servant and a proxy call they are blocked in. Calls
are numbered by serial. `Invoke` is a proxy up to the blocking send,
or `InvokeUnwritable`, if libdbus refuses to make the message;
`Receive`/`ReceiveMisread`/`ReceiveError`/`Timeout` is the rest of it; the
`Dispatch*` actions are the ways through `handle_message`; `Finish*` is the
servant's return, its declared exception, or any other exception. Which types and
values are refused or cannot be read is in `Serializer`; here it is a property of the
call (`request`). `Fail` is how a proxy leaves by an exception of its own: an
operation with a `raises` clause is declared `throw(...)`, so that any exception not in
the list, dboost's own included, ends the process. What the code does in the bad
cases is in the model:

- a member that the vtbl lacks is HANDLED and never answered;
- arguments are deserialised before the `try`, so a mismatch throws into C code
  and ends the process;
- the results of a reply are deserialised by the proxy (`serializer.h:125` throws at
  another type), and the arguments of a call serialised: both throw out of the
  operation, and a `throw(...)` list makes `std::terminate` of that (`Fail`);
- an undeclared exception, or results that cannot be serialised, become a null
  message; a libdbus built to abort at failed checks (`Strict`) ends the process,
  another one sends nothing;
- a declared exception whose `what()` libdbus does not take as an error's text makes
  `DBOOST_CHECK` throw inside the catch clause, into C code (`FinishUnsent`);
- on an error that is not declared, the proxy hands the null reply to
  `dbus_message_get_error_name`; a `Strict` libdbus ends the process, otherwise
  `std::string(nullptr)` throws `std::logic_error`, which terminates the process
  when the operation has a `throw()` list;
- the bus daemon answers for processes that have no name or have died.

`RpcAbstract` states the promise: a call is made or refused at once, runs at most
once, an answer comes only from that run, every caller stops waiting. `ImplementsAbstract` is the refinement,
with a call's progress and what its caller has seen as the mapping.

The names of processes are in `Service`; `Rpc` keeps of them only whether a
process has taken its own yet.

### PollDispatcher and BoostDispatcher

Each has the dispatcher's own state, and extends `Connection`, as much of libdbus
as drives it: two
watches on one descriptor, of which the writable one is disabled unless output
is pending; the callbacks; the message queue; the socket; disconnection, which
removes and frees the watches and ends the process when the `Disconnected`
message is dispatched (`create_connection` leaves `exit_on_disconnect` set).
libdbus sets the callbacks by adding its watches to the new owner before it
removes them from the old one, newest first, which `set_dispatcher` and
`SetDispatcher` follow. `poll_dispatcher`'s arrays are uninitialised: `Init`
chooses what they hold from `Junk`. The callbacks of `PollDispatcher` are
functions on a table value because libdbus calls several in one step.
`BoostDispatcher` stops (`pc = "failed"`) where the code's `assert(d)` fails or
`remove_watch` deletes a member of a map. There is no action for `handle_write`:
`OnlyStaticWatches` shows that nothing ever waits for the writable watch.

### Serializer

Types stand in a table (`Type`), in the order in which C++ declares them: a type is
its position, and a struct or a vector names the types it is made of, which come
before it. What the templates do with a type they do by way of its parts, so each
of these is a function of types. A message is a sequence of
typed items. `Written` and `Collected` are the two ways the code computes a type
(what is appended, and what `type_collector` says an array's elements are),
`Read*` follow the iterator: a basic value advances it, a struct or vector is
read through an iterator of its own and does not advance the parent's, and the
loop over an array advances once more after every element. The checks that
libdbus makes on the elements of an array and on strings (on in default builds) are
external; where they are made not fatal, the append fails and `DBOOST_CHECK` throws.

Two basic types do not pass as they are. A `std::string` is appended by its `c_str()`
and assigned from a `const char*`, so what gets through of it ends at the first NUL
(`CStr`, `Sent`), and libdbus refuses it if it is not UTF-8 (`NotUtf8`). A `bool` is passed
to libdbus by its address, where libdbus takes or puts the four bytes of a
`dbus_bool_t`. Whether the bytes beside it make a boolean that libdbus accepts, and
what becomes of what they hold, depends on the compiler, so both are open:
`WriteNext` may abort at any `bool`, and `ReadBool` may leave any values in what was read
so far, or end the process (a little-endian build: the bool's own byte is the
one that counts). Only hand-written code gets there: the back end's name for
IDL's boolean is no C++ type (`IdlBackend`).

### DbusPtr

A handle exists (`None` if not), is null or points to the connection or a
message. The constructor from a pointer takes a reference although every pointer
that libdbus returns here comes with one (`Adopt`: two references, one handle).
The constructor meant for copies takes a `dbus_ptr*`, so `Construct` copies
implicitly, without a reference, and the parameter's destructor gives one back.
`count` is libdbus's, `lib` what its own tables and queues hold, `adopted` and
`copied` are history. Whether a local result is returned in place is the
build's choice (`named`), except where a function has one return only, which
every compiler the project supports constructs in place. The model stops at the
first freed object that somebody still holds (`Alive`): what follows is
undefined, or libdbus ends the process.

### IdlBackend

An IDL file is a record of pragmas, includes and modules with interfaces and
operations; its run opens (and so empties) the outputs in the order header,
adaptors, proxies, serializers, and fills each when its visitor has walked the
tree, or cuts it where the visitor raises. Runs of several files overlap, as
under `make -j`. The order of interfaces within a kind is a Python set's, hence
any. A run splits the pragmas that stand before the first declaration of its tree,
which are an included file's if the `#include` comes first (`heads`). Text is
abstracted to who wrote it and whether it is whole. What it says
is in the operators after `Spec`: which classes a source defines (`DeclaredClasses`,
`SourceClasses`), the method table (`Vtbl`), whether members are defined once
(`ModulesDiffer`: a reopened module prints its namespace again, with the same definitions in it), the order of arguments and
results on both sides, what a C++ compiler would refuse. An operation's types are
sorted by what the generated code makes of them: those whose name in `ttsMap` is no
C++ name (`NotCxx`: `boolean`, `any`, `wchar`), those without an id in `type_traits.h` or
without a `serialize()` (`Unserialised`: `char`, `float`, `long long`, `long double`,
enums, unions, structs that an interface declares), interfaces, the misspelt wide string,
and the rest (`Carried`, where `int64_t` is `long`). Of the other declarations of a
module an IDL file only says whether C++ takes what the header has of them (`compiles`). `Usable`
puts all this together, `Supported` says the same in terms of the IDL.

### IdlVisitors

What the texts say. A file is the sequence of its declarations, each with the
one it is in and the types it is made of. `IsFile` says which sequences are files:
declarations nest, what is named comes before and can be named (`CanBeNamed`: it is no
module and no value), a module is in modules only, operations are in interfaces
and members in structs or exceptions, an inline type comes right before the
declaration that has it. Scoped names are different, but for modules opened again and
for forward declarations, and what is directly in a scope is not called as the scope is
(`WellNamed`). omniidl rejects the rest. One thing is assumed that omniidl does not
check: no declaration has a name that the templates use themselves (`Words`: `std`, and
the class of an adaptor or a proxy, `<interface>_` and a suffix, in the model
`class_name`). A walk is a stack of tasks: visit a
declaration, visit a type (which leaves a C++ name in `__result_type`), take it
from there, print the line, close a brace. The order of the tasks is the code's:
an inline struct is declared before the member's type is visited. `Class` says
of each of the seven visitors which declarations it has a method for and which
basic types it knows; what it has no method for it passes over without a word,
which leaves a stale `__result_type` behind a type like `fixed`. `module_name` is
the attribute that nested modules overwrite and do not restore. A walk ends
whole or where an attribute is missing, a key unknown or a name not there; after
a raise no walk of a later kind begins, as in `IdlBackend`.

A line is its declaration, the braces it is in, and the names it has: of its types, of
what it raises or derives from, and, in adaptors and proxies, of the interface. An
adaptor's source prints common members in each module, which name the interface with
and without the module (`CommonNames`); those of a proxy name only its own
class. Exceptions have the base `std::runtime_error` in cxxbackend's header only
(`Derives`). A proxy's source raises at an operation with a comment that begins
with `@@` and is not two words (`CommentRaises`).

`Found` is C++'s lookup: the innermost open scope that declares the first part of the
name. What is not a type or namespace (constants, members, attributes, operations,
enumerators) hides a name that stands alone and is passed over before `::` (`Stops`). Two
things are not looked through: the members that a class has from its bases, and a
typedef before `::`. A lookup in which neither can have a part is `Direct`, and only
of such lookups `NamesResolve` speaks; a name found in a base class is either the same
declaration or one that hides it, and which of the two depends on what the base itself
prints.

### EchoService

One action per member, guarded as `path_message_func` is, plus the callback of the
pending call, the daemon's routing (in order for each sender) and its
answers for a service that has gone. `handle_run_hello_from_self` keeps the caller's
message, sends `HelloFromSelf` to the service's default name and returns;
`check_hello_from_self_reply` answers the caller. `ownName` says whether the service
runs under that name, which its first argument can change.

## 3. Runs

| Run | Instance | Shows |
|---|---|---|
| `server` | 3 servers (two of one name), 4 adaptors (two compete for one interface of one server, one is alone, one belongs to the second server), 2 paths, 1 object, 2 rival processes: 542 691 states up to the rivals' symmetry | the tables and the names, and who answers |
| `rpc` | 2 processes, one of them strict; two calls of all six kinds of request and a third that is in order: 218 051 states | calls: safety, every call ends, the refinement |
| `poll` | 6 slots, 3 registrations, 2 messages: 7 313 states | slots, snapshot, wakeups |
| `boost` | 4 messages: 389 states | waits, wakeups, and that no change of watches is survived |
| `boost_assert` | the same | `assert(d)` at boost_dispatcher.cpp:75 fails |
| `serializer` | an integer, strings (one with a NUL, one not in UTF-8) and a bool; all lists and structs of up to two members from five kinds, the lists of the tests' IDL files, and a bool before, after and inside others; vectors up to 2: 9 702 states | what arrives |
| `serializer_vectors` | the same | the collected type of a vector in a vector is wrong |
| `echo` | 3 calls of any members, with right or wrong arguments, under either name: 33 918 states | every call is answered, with its own answer |
| `idl` | one interface with operations of every type and parameter; two modules; modules that are reopened; two files with and without includes, with and without a header that raises, and a malformed pragma before or after the include; the examples' IDL: 127 910 states | what comes out of the generator, and for which IDL |
| `visitors` | a declaration of every kind and type in every place from where a first struct can be named, and of every kind that hides its name there; types declared inline, two deep; modules before, after and around interfaces; included declarations; comments of both kinds: 30 749 states | what the visitors print, and where they stop |
| `ptr` | 2 variables, 3 users, 2 messages, 2 gets: 31 006 states | the law of the counts and who may be freed early |
| `ptr_main` | 1 variable, 2 users, 1 message, 1 get | the first destructor at the end of `main` frees the connection that two others hold |

Why the bounds are enough. `server`: a conflict needs two adaptors of one
interface, a bystander needs a third, a foreign path needs a second server; two
paths tell "this path" from "another"; two servers of one name can take it from
each other, and two rivals behind the owner tell the next from the one after.
One object is enough because no code compares objects. `rpc`: three calls allow an abandoned
call, its successor and a nested or crossing call, so that a late reply meets a
waiting proxy and inboxes hold two entries; with two processes all circles
are self-calls and crossings. The third call may only be
one in order: it is there to be the next, the nested or the crossing one, and what two
calls that go wrong have to do with each other is seen with two. `poll`: three registrations cover installing,
replacing and installing again, and the same dispatcher twice; 6 slots is what
they use, and PollAssumption excludes overrunning the arrays, which the code
does not check (100 slots, fifty registrations). `serializer`: the errors
depend on which kind follows which kind, and on whether a vector has more than
one element. `echo`: two self-calls under way
and a third call that overtakes them. `idl`: interference needs two files, an
accumulated table two modules; every type is in some operation in every
position. `visitors`: a stale result needs one declaration before the one
that reads it, or an inline one inside it; a name can be hidden by a scope
between the two places, of which there are at most two. `ptr`: a dispatcher, a server and a proxy beside two variables are
what the examples have at most, and two gets let the copies of one eat the
references of the other.

Where several invariants speak of the same tables, a run checks their conjunction,
which their module defines from named parts: `TablesRight` (server, poll), `CallsRight` (rpc),
`WaitsRight` (boost), `ArgumentsArrive` (serializer), `CallsTracked` and `AnswersRight` (echo),
`FailuresContained` (idl), `TextsFaithful` (visitors), `CountsKept` and `MessagesCounted` (ptr).

Deadlock checking is off everywhere: programs end, connections close, and the
bounds on calls and messages run out.

Fairness. `Rpc`: weak fairness of the end of each process's blocking call: the
timeout passed to libdbus is finite (`TIMEOUT_MS` or `@@operation_timeout`), and
the poll inside the blocking call returns when it is over. Nothing is assumed
about servants or about a process reaching `run`. `PollDispatcher`,
`BoostDispatcher`: weak fairness of the loop, a `while (1)` or `io_service::run`,
in a process that the kernel schedules; servants return because their own
calls time out. `EchoService`: the same of its loop, of the daemon's routing and
of its answers for a peer that has gone. `SocketServed` (`InputServed` of `BoostDispatcher`) excludes what ends the loop: a failed `poll`, a
closed connection, another dispatcher.

### What the runs say about the code

- *Object tables.* The blind overwrite in `register_adaptor` and the blind erase in
  `unregister_adaptor` never leave a dangling pointer, because whichever adaptor dies
  takes the shared entry with it. The price: after two adaptors of
  one interface have been alive together, a live one may be unreachable.
  Objects that an adaptor leaves behind keep their path, answer "unhandled",
  block the path for others, and lead into freed memory once the server is
  gone, and only then (`DeadServerOnlyByLeftovers`).
- *Bus names.* A server that reports no error may still be deaf, for exactly three
  reasons (`ServedByName`): another process asked for the name before it, a
  server of the same name in its own process has been destroyed, or another
  adaptor has rivalled the object's. Of two servers of one name in a process
  the first destructor takes the name from both. Nobody who owns a name loses it
  to another process, and nobody who waits is overtaken.
- *Calls.* A late reply is never taken for another call's, no servant runs twice
  for one call, and a callee keeps each caller's order even for calls that were
  given up. Circles of blocked processes end by timeout only. A caller that waits in vain waits for a
  swallowed call, and there are exactly two kinds (`WaitingAccounted`). A `raises` clause makes
  an operation dangerous: any exception not in it, be it that the answer came late or cannot
  be read or the call could not be sent, ends the calling process (`DeathHasCause`).
- *poll_dispatcher.* The search in `remove_watch` looks one slot too far, but
  never gets there, because it finds its watch earlier. The comparison in its last line is never true, so
  slots are never given back: `max_i` is twice the number of registrations.
  The snapshot of `run` is safe only because the process exits at disconnection.
  Messages that a blocking call queued before `run` wait for the next event on the
  descriptor; after the first event none does.
- *boost_dispatcher.* It works exactly as long as libdbus leaves the readable watch
  alone and never enables the writable one. Finding `boost_assert`.
- *Serializer.* Lists whose types are basic, with at most one container at the end and no
  bool, arrive if they are sent, up to the first NUL of each string; this includes all operations of
  the tests. Only a vector in a vector, a string that is not UTF-8 or a bool can end the call at a
  check of libdbus (`AbortHasCause`). A second struct or vector in a
  row is extracted from the first one's place, silently if the types agree;
  of a vector of basic elements every second one is lost. Finding
  `serializer_vectors`.
- *dbus_ptr.* What libdbus counts beyond the true references is the number of adopted
  pointers less the number of implicit copies, whatever the order (`Accounting`). Messages are
  therefore never freed early, and leak one reference each unless the compiler
  copies the result. One get pays for one copy too many: with a dispatcher
  and a server the connection lasts exactly until one of three handles goes. Finding `ptr_main`.
- *IDL back end.* A run writes hollow files for every interface that it sees in an included
  file, over or under those that the included file's own run writes. Without includes runs do not disturb each other. What can be used is a file without
  includes that declares one interface of its own name, without inheritance, attributes or operations
  of other than `Carried` types
  (`UsableIffSupported`): the interface inheritance example of `test/04` is outside.
- *Visitors.* Apart from `fixed` types, every declaration gets its own types'
  names, however deep inline types are nested: the declaration always visits its
  type last. A walk raises at the first sequence of a type that is not declared,
  at the first member of an exception, at a `TypeCode` (not in the former back
  end), in a proxy's source at a malformed `@@` comment, and nowhere else; what is before it is printed. Names
  are found except where something nearer has the name of their outermost
  module, where a sequence's element (printed without its scope) is declared
  elsewhere or something nearer, be it an operation, has its name, and where a module lies between an interface and its own module. The
  new header says what the old one said, with `std:wstring` corrected and exceptions that
  can be thrown as `std::runtime_error`; each of
  the two includes the standard headers that typedefs name, the old one also
  those that members of structs name and the new one those that operations do.
- *Echo service.* It answers each call once, wrong arguments twice. The
  self-calls are safe under its default name; under another one the first
  `RunHelloFromSelf` ends it.

## 4. Proofs

Each proof module extends the module it is about, finds an inductive invariant,
shows with one lemma per conjunct that each action keeps it, and derives the
properties of the runs from it. The only assumptions are the named ones about the
constants, which TLC evaluates in the runs.

`ServerProofs` proves `IInv == TypeOK /\ NoDanglingAdaptor /\ ObjectTreeExact /\
TablesConsistent` inductive, for any sets of servers, adaptors, paths, objects and
interfaces, from `ConstantsAssumption`. `ObjectTreeExact` needs itself (no path in two
maps) to survive `remove_object`; `NoDanglingAdaptor` alone does not say that a live
uncontested adaptor is registered, so what is said of the answers needs
`TablesConsistent`. The answers (`Reachable`, `DeadAdaptorSilent`,
`DeadServerOnlyByLeftovers`) follow from `IInv` in each state (`IInvAnswers`),
`PathChangedByOwner` from `IInv` and the step. The second half is about `Service`:
`ServiceSpec` implements `Spec` (`ServiceKeepsTables`), so all this holds of it too, and
with any number of names and rivals the queues are sequences without repetition in
which this process stands only for live servers (`NamesInductive`). `ServedByName`
joins the halves: without a rival in the queue this process is its head, and then
`Reachable` says what is called.

`RpcProofs` proves `CallsRight == TypeOK /\ AtMostOnce /\ Bookkeeping` inductive for any set
of processes and any `MaxCalls`, from `RpcAssumption`. `AtMostOnce` is not inductive:
it needs that a call in an inbox has not run (`InboxOrdered`), which needs
that serials grow along an inbox (no duplicates) and that unused serials have left no trace
(`FreshCalls`). `AnswerIsOwn` follows from `AnswersSourced`, and `ServedInOrder` from the last
part of `InboxOrdered`: all that waits is younger than all that ran. `WaitingAccounted` is
proved for every call, also those given up (`AllAccounted`), for only so is it inductive.
`CallsRefinePromise` is the safety part of the refinement to `RpcAbstract`: every step is a
step of the promise or leaves it alone; it needs that what a call's caller has seen
is determined as soon as the call is made (`MadeCallsSeen`). `DeathHasCause` is inductive
given `CallsRight`. All ways in which a proxy fails have one effect (`FailsAt`), of which the
refused call (`UnwritableEffect`) and the failed answer (`GivingUp`) are two cases.

`DispatcherProofs` proves for any `MAX_WATCHES` and any number of registrations that the slots of `poll_dispatcher`
are what the history of registrations makes them (the slots of the current
dispatcher are the last two written, all others hold what no search mistakes for a
watch of libdbus), that the bus and the watches agree, and what each phase of a
round still has to do. The second half is the same for `boost_dispatcher`, in two
parts, the bus and the watches.

`DbusPtrProofs` proves `TypeOK /\ Accounting /\ FewCopies /\ Placed` inductive for any
number of handles, messages and gets, from `PtrAssumption`. The heart is counting: when one handle
moves, the cardinalities of two sets of handles change by one (`HandleMoves`), and a
step that takes as many references as it fills places keeps the law (`Balance`).
`FewCopies` (a message is copied at most as often as adopted) and `Placed` (which
handle is for what) are needed because the law alone allows a message to be
copied twice. That no count falls below zero needs `Alive`: a handle on an object
that is not dangling has a reference to give. The other theorems are
arithmetic on the law.

`IdlProofs` proves for any directory of IDL files that an output of a run is pending, open or
written, and that what only one run generates holds only its text; hence that a
completed run's files are its own (`OutputsKept`) and what a failed run leaves
(`FailuresContained`). `UsableIffSupported` and `WireAgrees` compare what two visitors
make of one file. `Vtbl` is a fold over the modules of a file, as the list
`self.operations` grows from module to module: `VtblIs` gives what it has collected after the
`n`th, and the rest follows from which files an ended run leaves (`FilesAre`), from
whose header is found (`HeaderIsOwn`, `IncludesFoundIff`) and from which
members are both declared and defined (`MembersDeclaredIff`). `FailuresContained` needs no
more than that a run raises only in its own declarations and at pragmas of its head
(`BadPragma`). The assumption says of the IDL
what omniidl rejects otherwise: an interface has each operation once, and a module
that is opened twice does not declare an interface twice. The attempt to prove
`UsableIffSupported` for every directory corrected the model: it was false for a file that
opens a module twice, of which no run had an instance (`ModulesDiffer` was missing).

`SerializerProofs` proves the serializer right for every table of types, every list of
arguments and all values. The functions of types use only what they give for the parts
of a type, so each has the value its definition gives (`ReadDef` and its likes), and
three facts go from the parts to the type: reading it gives a value of it or raises
(`AllReadWell`), what has neither a vector in a vector nor a string that libdbus refuses can be written
(`AllWritable`), and what was written as this type is read back as it was or has a
cause not to be (`AllFaithful`). The loops over members and elements are
inductions of their own (`AllDone`, `ElementsDone`, with what holds after `n` of them:
`ListArrives`, `NextLooped`). What is compared is not what was passed but what gets
into the message of it (`Sent`, which gives values of the same type: `AllSent`). Over the steps of a message the invariant `IInv` carries that
what has been read so far is what was passed, and where the iterator stands
(`PrefixArrived`), unless a bool has been read on the way; `SupportedArrive` and `DifferenceHasCause` do not say where it stands and are
not inductive.

Induction over data. The library's induction rules take an operator as a
parameter, which no installed prover can instantiate, and RECURSIVE operators are
not supported. Both are avoided: recursion is by functions, and an induction is
over the members of a set (`Steps`, `TypeInduction`), which follows from the least-number
principle (`Least`), and that from `WFMin` and `NatLessThanWellFounded`.

`VisitorProofs` proves for any set of IDL files what the visitors print. A walk is known by its
stack, so the invariant is about the stack. Each task is done at a position of
the walk, between two declarations or between two types of one, and leads to
another (`Before`, `After`); `Leads` says that the tasks lead from the present position to the
end of the file and that no declaration which is this visitor's to print lies
between one task and the next. Then one statement about the present position is
enough (`At`, `Holds`): printed is what is printable before it, the open braces are those
around it, `module_name` is the last module's before it, the names taken are
those of the types before it, and `__result_type` is unset exactly if nothing has set it yet
(`Nameless`), which decides where a `fixed` type raises. A step replaces the first task by tasks
that lead from the same position to the same position (`Compose`); that they do is a matter of how
declarations lie in each other: what is in a declaration ends where this ends or
before (`EndNests`), contents follow each other without a gap (`Siblings`, `ChildCovers`), and so the
visits of the contents lead from the beginning to the end (`VisitsLead`). `TextsFaithful`
and `RaiseHasCause` are read off the invariant of a walk that has ended (`LinesFit`, `Ended`).

`NamesResolve` is about C++'s lookup, and `ShouldBeFound` says in terms of the file when it
finds what was meant. Which names are in a line follows from the invariant
(`LineFits`), and what each is meant for from where it comes from (`MeantIs`: a type, a
declaration named as such, the walk's own interface). The lookup finds the innermost
scope that declares the first part of a name (`Nearest`, `FoundAt`, `FoundFirst`); so for a
whole path it is the outermost one, unless something nearer is called the
same (`FoundWhole`), for a bare identifier it is the one around the
place (`FoundBare`), and an interface's name, with the last module before it, is found
if that module is its own (`FoundInterface`), and always in an adaptor's common members, which
are in that module (`CommonFound`). Values hide names of one part only; so two sets are
looked up in, those that stop the search and those that can be meant (`KnownStops`). All need `WellNamed`: were a scope's
name used directly in it, or two declarations called the same, lookup would find
another of the same path.

`PortKeepsHeader` compares two walks that do not run at the same time. What they share is the file;
so each walk's invariant has to say completely what its text is, and the
comparison is one of two descriptions. Two things had to be added for that. The name that a
`fixed` type gets is the one that the last other type has left, so `Left` says which type
that is (`Namer`; there is one only, `NamerOnce`), and `Holds` that `__result_type` has
its name. And a line is nothing but its declaration, place and names (`Listed`). Then two lines of
one declaration are the same but for wide strings and the base of exceptions (`LineModern`, from
`NameModern` for each kind of type and `ThrownModern`); both texts have the declarations in the order of the file, and
the new one those up to where it raises, which is not later than where the former does
(`CausesSame`, `PrintedSame`); and of two rising sequences, one of which has just the first members of
the other, it is how the other begins (`Begins`).

`EchoProofs` proves for any number of calls that a call is in one place: its message in
the inbox, the pending calls with one message under way that completes it, or the
replies. Every handler moves one call from one place to the next (`Handled`, and
`Forward` for the order of the places), so each invariant is shown once for a handler and
not once per member. `CallsTracked` is a statement about cardinalities; the proof
goes through the uniqueness of the completing message (`Once`) and its existence
(`UnderWay`). `AnswersInOrder` is not inductive: it needs `Order`, that the calls of one class are
in line in each place, that the inbox holds the youngest, and that an answerable
call that was not answered is still somewhere (`NoneLost`).

Most theorems state a property that a run of the same module checks. The others
state what a run's property contains or what follows from it: `Reachable`,
`DeadAdaptorSilent`, `AtMostOnce`, `FreedEarlyHasCause`, the inductive invariants, and
the two implementations `ServiceKeepsTables` and `CallsRefinePromise`.

Only model-checked is everything temporal (`EveryCallEnds`, `SocketServed`, `InputServed`,
`CallsAnswered`, the fairness of `RpcAbstract`, that is, `ImplementsAbstract` beyond
`CallsRefinePromise`): liveness is outside the proof system's reach. Every invariant that a run
checks, and every action property, is stated by a theorem.

## 5. Not modelled

- Exceptions (`exception.h`): they format messages; what a throw does to a call is in
  `Rpc`, what a failed check leaves undone in `Server`.
- The hand-written prototypes `desiredimpl/01` to `05`: earlier forms of what `templates.py`
  generates. The observer's proxy among them is one-way; the back end ignores
  `oneway`, and the example that needs it is not built.
- The test servants: a counter, a list of observers and a list of persons. Their
  IDL files are among the inputs of `idl` and their argument lists among those of
  `serializer`.
- The inheritance example: two IDL files without implementation. That derived
  interfaces cannot be used is in `UsableIffSupported`.
- The C client, one blocking call, stands in `EchoService` as `ClientCalls`.
- In the IDL back ends: the values of constants, sizes of arrays (`header.py` prints only the
  declarator's identifier, so that an array becomes one of its elements; an interface that
  uses one can be compiled, but does not mean what the IDL says), declarators after the first, modules
  in modules and names that C++ or the templates use (in `IdlBackend`), link errors, what C++ does
  with out parameters.
- What the bytes next to a `bool` hold and which of the parameters they belong to: any outcome is
  possible in `Serializer`.
- Out-of-memory failures of libdbus, messages that are not method calls or their replies.

`PROJECT.json` gives the reason for each component.

## 6. Order of work, and what is left

The order was `Server`, `Rpc`, `PollDispatcher`, `BoostDispatcher`, `Serializer`, `EchoService`,
`IdlBackend`, `DbusPtr`, `Service`, `IdlVisitors`; each module was proved about once TLC agreed.
Left, in order of worth: the one-way observer over `Rpc`, should it be
built; `Server`'s tables below `Rpc`'s `Dispatch*`, which would add to `Rpc` one
more way to be unhandled.
