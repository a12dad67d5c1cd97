# Verification of eko (libmu and the core library)

eko is a small Lisp. `libmu` is a C++ runtime: tagged objects, a mapped heap
with a mark-and-sweep collector, namespaces, streams, a reader, a printer, a
compiler from lists to functions, and an evaluator. `core` is a library written
in that Lisp which adds variable arguments, closures and macros. This directory
holds TLA+ models of the parts of it whose state outlives a single call, TLC
configurations that check them on small instances, and proofs for TLAPS.

Paths below are those of the repository.

## 1. Inventory

| Component | Code | State | Operations | Hard behaviour |
|---|---|---|---|---|
| execution context | `src/libmu/core/{context,eval}`, `env/env-frame.cc`, `mu/mu-exception.cc` | `ctx.dynamic`, `ctx.lexical`, `ctx.closures` | Funcall, return, lex-ref, lex-psh, lex-pop, with-ex, raise | a C++ throw skips the pops after a call; frames are addresses on the C++ stack |
| core closures | `src/core/{eval,lambda,functions}.l` | the captured frames of a function | closure, funcall-closure | re-entry, recursion, exceptions between push and pop |
| heap and collector | `src/libmu/core/heap`, `heap/heap-mapped`, `env/env-env.cc`, `core/env.cc` | barrier, headers, free lists, `env.namespaces` | Alloc, GcAlloc, heapinfo_iter, (gc) | marks that go to the objects' data and not to their headers; references the collector does not see; the last words of the heap; sizes in 16 bits |
| conses | `type/cons`, `mu/mu-cons.cc` | car and cdr in the heap | cons, car, cdr | the only objects that are reused; small ones are packed in a tag |
| namespaces and symbols | `type/{namespace,symbol}`, `core/nscache.h`, `mu/mu-{namespace,symbol}.cc`, `env/env-namespace.cc` | externs/interns lists, two hash-keyed caches, `interned_strings` | ns, env:ns, intern, find, symbol value | one symbol per name through every path; single binding; a cache that does not exist yet; equal hashes |
| runtime compiler | `core/compile` | the stack of lexical environments, the frame id counter | compile of lambdas and special forms | an error in the middle of a body; the width of the counter |
| core compiler | `src/core/{compile,macro,quasiquote}.l` | environment descriptors, macro table | compile, macroexpand, define | descriptors have to name frames that exist when the code runs |
| threads | `env/env-context.cc`, `core/context.h` | thread, mutex and condition variable of a context | bind, suspend, resume, join | a thread that waits for a resume nobody calls; two threads on one context |
| streams | `system/sys-stream.cc`, `type/stream`, `mu/mu-stream.cc` | position, one character of unread, open or closed | open, read, unread, write, close, get-string | end of file, use after close |
| reader | `core/{read,readtable}`, `mu/mu-reader.cc` | what it has consumed of a stream | read | end of file inside a form, nested comments, dotted lists |
| tags and fixnums | `core/type`, `type/fixnum`, `mu/mu-fixnum.cc`, floats | none | packing, arithmetic | edges of the 61 and 64 bit ranges, zero divisors |
| vectors and strings | `type/vector`, `mu/mu-vector.cc` | contents in the heap | make, ref, slice, to list | bounds, element types |
| library interface, repl | `libmu.cc`, `mu-runtime/repl.cc` | the environment | mu_eval, mu_with_exception, load | what is left after an exception |
| core and preface libraries | the other `.l` files | none of their own | lists, formats, repl | - |
| printer | `core/print`, `mu/mu-printer.cc` | none | print | - |
| operating system interface | `system/sys-*.cc` | none | mmap, clocks, sockets | - |

How they interact. Everything runs on the C++ stack of one thread, unless the
program asks for another with `env:bind`. `Env::Funcall` is the meeting point:
compiled code, with-ex, funcall-closure and the library interface all call
through it, and it is what pushes and pops the stacks of the context. The
compiler turns a symbol into a `lex-ref` with a frame id; at run time the id is
looked up in `ctx.lexical`. Every allocation goes through `Env::Alloc` to the
mapped heap, except that of conses, which first looks at the free list that
`(gc)` leaves. `(gc)` starts from the registered namespaces. The reader interns
symbols in namespaces and makes conses and strings. Exceptions are C++ throws
from anywhere to the innermost with-ex or to `mu_with_exception`.

What makes each component correct.

- *Context*: the control stack is exactly the live activations; a lex-ref
  reaches the innermost binding; every pop finds what its push left; no stack
  keeps the address of a frame that is gone, which exceptions break; a caught
  exception leaves the control stack as it was when with-ex was called.
- *Heap*: headers tile the heap; nothing is on a free list twice; a collection visits
  what it can reach and ends; what is in use is not handed out again (it is: section 9).
- *Namespaces*: a name has one symbol in a namespace, through the caches as
  through the lists; a binding once made stays; interning is idempotent.
- *Compiler*: after a compilation, finished or failed, the environment is what it
  was before; frame ids are distinct.
- *Threads*: a resume wakes what was suspended; a context has one thread. Neither
  can be asked of this code (section 10).
- *Streams and reader*: what is written and read back is the same object, and the
  reader stops at its end; part of a form is an error; a read that answers has moved on;
  every read ends.
- *Printer*: its text is one the reader takes for the object, or refuses.
- *Tags, conses, vectors*: how a value is represented - packed or not, in the word or in
  the heap, interned or shared - never shows in what is computed; equal immediate values
  are eq.

## 2. Plan

| # | Module | Models | Composes | State |
|---|---|---|---|---|
| 1 | `MuContext` | context stacks, closures' captured frames, exceptions | - | done |
| 2 | `MuContextProofs` | typing, ControlStack, PopsHaveFrames | 1 | done |
| 3 | `MuCollector` | what (gc) comes to, without its loops | - | done |
| 4 | `MuHeap` | allocation, reuse, (gc) | implements 3 | done |
| 5 | `MuHeapProofs` | typing, HeadersTile, FreeListsSound, MarksReachable, the safety part of the refinement | 4 | done |
| 6 | `SymbolTable` | what namespaces promise: places keep symbols, symbols keep values | - | done |
| 7 | `MuNamespace` | lists, caches, interning, the current namespace, definitions | implements 6 | done |
| 8 | `MuNamespaceProofs` | typing, CacheMatchesLists, the refinement, ReadsBack, DefinitionResolves | 7 | done |
| 9 | `MuStream` | streams as records, one operator per operation | - | done |
| 10 | `MuReader`, `MuWriteRead`, `MuPrinter` | the recursive reader; a program that reads what it wrote; the printer's text | 9 | done |
| 11 | `MuTag`, `MuValue`, `MuValueRefinement` | words, tags and packing; conses, fixnums, characters, strings, vectors; the mapping to 12 | implements 12 | done |
| 12 | `LispValues` | what the operations on values promise | - | done |
| 13 | `MuCompile` | lexical environments of nested lambdas, errors, frame ids | - | done |
| 14 | `MuCompileProofs` | typing, FrameIdsDistinct, LexicalsAreEnclosing, ResolvesInnermost | 13 | done |
| 15 | `MuContextOrderProofs` | InnermostBinding, NoStaleFrames, PopDeletesItsFrame | 1, 2 | done |
| 16 | `MuReaderProofs` | the reader's types, EofReported, ReadAdvances, DepthIsBalance; the program's types, and that it is one the reader's theorems are about | 10 | done |
| 17 | `MuTagProofs` | what goes into a word comes out of it: fixnums, characters, short texts, packed conses | 11 | done |
| 18 | `MuValueProofs` | typing, EqualWordsAreEq, what the reader makes of a number | 11, 17 | done |

A module for threads was planned and is not written; section 10 says why. So is a
module for core's compiler: the descriptors it leaves in a closure are lists it
rewrites, and what a call does with them is in `MuContext`.

What stays with TLC. Liveness (ReadReturns, and that a collection that has begun ends)
needs fairness and ENABLED, which the prover does not have. RoundTrip, NoPartialForm and
ImplementsLispValues say what recursive definitions (`Written`, `Decode`) compute for
objects of any depth, which is an induction over data; these definitions are RECURSIVE,
and the prover's SMT backend does not read a module that declares one. They are therefore
in modules of their own, `MuPrinter` and `MuValueRefinement`, and the modules they build
on (`MuWriteRead`, `MuTag`, `MuValue`) have none. Induction over numbers is within reach:
a property that fails for some number fails for a least one
(`IntervalInduction`, from the library's WFMin); the values of words, and the text of a
sequence of writes, are proved that way. Every other property of a passing run is proved.

## 3. The execution context (`MuContext`)

`Funcall` is C++ recursion, so the model's `control` is the C++ stack: one
record for every Funcall that has not returned. The address of a C++ frame is
its depth (two frames that are alive at one time have different addresses, and
an address is used again after a return, as on the real stack); the address of
a captured frame comes from `HeapAddrs` and may be used again after `delete`.

| Model | Code |
|---|---|
| `dynamic`, `lexical`, `closures` | `ctx.dynamic`, `ctx.lexical`, `ctx.closures` |
| `CallLambda`, `CallPlain`, `Return` | `Env::Funcall` for a lambda with required arguments; one without, or a native function; the pops after the body |
| `CallWith` and the phases of a "with" activation | `Mu::WithException`: thunk, handler |
| `MakeClosure` | `core::closure` with `env:fnv-lex` |
| `CallClosure`, `FramePush`, `FramePop` | `core::funcall-closure`: all lex-psh, the function, all lex-pop |
| `ReadsItsClosure`, `PopThroughDeadFrame` | the lex-ref by which `core::funcall-closure` finds, after the call, what to pop |
| `RaiseCaught`, `RaiseUncaught` | a throw to the innermost with-ex (`ctx.dynamic.resize`); to `mu_with_exception`, which returns to the client or leaves main |

What programs compute is left out: at any point where code runs, it may call
any function, return, raise, or make a closure. So the model has the behaviour of
every program within the bounds, and of more calling sequences than
one compiled program has.

One value decides what happens to the stacks. `core::funcall-closure` reads the list it
pops by a lex-ref of its own frame id (`src/core/eval.l:19`). If a closure call nested in
its own raised, and a with-ex in between caught that, the newest frame of this id is the
abandoned one of the nested call: a dead C++ frame whose arguments were freed. What
lex-pop is then given is undefined, and so is everything after it, so the model
has the step (`PopThroughDeadFrame`) and ends with it. Nothing below is claimed of what a program
does from there on. A lex-ref of any other function through an abandoned frame gives a
value that is undefined too, but values are not kept.

Runs.

- `context_calls` - no exceptions; one closure over two functions; recursion and
  re-entry to depth 5. All invariants, and the action property that `lex-pop`
  deletes the very frame it pops. Nothing deadlocks.
- `context_raise` - exceptions at any call, nested handlers, raises from
  handlers, uncaught ones to a client that goes on; depth 6, the control stack to 5
  entries, the others to 3.
  `ControlStack` and `PopsHaveFrames` still hold. `InnermostBinding` is stated
  for the functions no exception has cut short (their stack has no entries
  beyond the live ones); `NoStaleFrames` and `PopDeletesItsFrame` do not hold
  any more, because with-ex repairs `ctx.dynamic` only. The run stops where an exception has
  left main, where a closure call pops through a dead frame or a stack is at its bound, so
  deadlock is not checked.

The bounds are enough for a handler around a closure call that raises inside the
function, caught by a handler that calls the same closure again, and, just, for
that handler inside of another closure call, which then pops through a dead frame. Three entries
on a lexical stack are enough for abandoned entries below, live ones above.

Proved (`MuContextProofs`), for any lambdas, closures, addresses and bounds:

- `TypeCorrect`: Spec => []TypeOK.
- `ControlStackCorrect`: Spec => []ControlStack. Inductive with one conjunct
  more (`StackInv`): with-ex's mark is the length of `ctx.dynamic` its own frame
  included. Without it nothing says what `resize` leaves.
- `PopsNeverUnderflow`: Spec => []PopsHaveFrames. "Non-empty" is not inductive:
  two live activations could share one entry. The strengthening (`CountInv`)
  counts: each stack has at least as many entries as there are live holders of
  it, and every action changes the two numbers together. An exception lowers
  only the number of holders. As the model ends where a closure call reads what it pops through a
  dead frame, the theorem says nothing of pops after that.

Assumed: `ContextAssumption` (a closure captures a function once, and never
`core::funcall-closure`, which core's compiler does not compile; heap addresses are not
stack depths).

Proved (`MuContextOrderProofs`), from the same assumption:

- `InnermostIsBound`: Spec => []InnermostBinding, exceptions included.
- `NothingStale` and `PopDeletes`: Raising = FALSE => (Spec => []NoStaleFrames), and
  the same for PopDeletesItsFrame. The hypothesis is the one of `context_calls`, and it
  is needed: with exceptions both fail, because with-ex
  repairs `ctx.dynamic` only (`src/core/eval.l:8` has a note about it).

InnermostBinding speaks of the last entry of a stack. A pop uncovers the entry below,
of which it says nothing, so it is not inductive. The strengthening (`OrderInv`, which TLC checked
before it was proved) has the whole stack: as long as the stack of a lambda has no more
entries than live ones (`Uncut`), it lists exactly these, in the order in which they were made, and
so does each stack of captured frames. The proof first sorts steps by what they
do to one lambda's stack: nothing, one entry after all that are held, or the last one
given back (`Orderly`), or they are exceptions (`StepKinds`). An orderly step keeps the list and
repairs nothing that was cut short. An exception that leaves a stack `Uncut` has
forgotten no activation of it (`CutNothing`): by `CountInv` there was nothing to spare.
Without exceptions every stack stays `Uncut` (`UncutInv`), which gives the other two.

## 4. The heap and its collector (`MuHeap`, `MuCollector`)

An object is the word offset of its header. `header` has the three fields of
HeapInfo with the size in words modulo `SizeModulus` (the 16 bit byte count of
the code is 13 bits of words; the checked instances use 3). `links` is the set
of objects a payload refers to. `held` is what the program has in frames, C++ variables
and compiler tables; the collector does not look there, in the code or in the model.

What the marks are. `HeapInfoTag` and `Alloc` make a tag from the distance between the heap's
address and the payload, and `Mapped::Map(Tag)` subtracts one *byte* from that distance
(`heap/mapped.h:88`). The HeapInfo that `GcMark` and `IsGcMarked` work on is therefore the
payload and one byte, and the ref bits are the third byte of the object's first
word: its car, its name, its arity, its type. So no header is ever marked, the sweep
takes every object, whether an object looks marked depends on what is in it, and the mark
changes it. `first` has what this depends on: the first word refers to an object, or its third byte is zero
(`Blank`) or not (`Filled`).

- A text of one character, a small number and the keyword `:t` are `Blank`; longer texts
  (`mu`, `system`), `nil`, and the types `:char`, `:byte`, `:fixnum`, `:float` are `Filled`. The
  names of namespaces are taken to be of at most seven characters, so that they are in the word.
- A reference is Blank if bits 7 to 14 of the distance of its object, in words, are zero
  (`BlankReference`, with `Period` 2^15 and `Window` 2^7 in the program; the instances
  use 4 and 1).
- GcMark makes `Filled` of `Blank`. Of a reference it makes one to 2^7 words further down:
  what Cons::Gc visits then is not a tag of the program's, and the model ends
  (`MarkReference`, phase "astray"). Of the type `:t` of a vector it makes a keyword that is no type,
  and whoever asks for the type of that vector next fails an assertion (`TypeGone`,
  `UseTypeless`, `MarkTypeless`).

| Model | Code |
|---|---|
| `Alloc`, `HeapInfo`, `HeapExhausted` | `Mapped::Alloc`, `MakeHeapInfo`; the runtime_error no handler survives |
| `Reuse`, `GcAlloc`, `MakeCons` | `Heap::GcAlloc` and the Cons constructor |
| `MakeObject` | constructors of every other class |
| `SetExterns`, `SetValue`, `AddNamespace`, `Load`, `Release` | stores into namespaces and symbols, `env:ns`, accessors, end of a frame |
| `Gc`, `Clear`, `Marked`, `GcSweep` | (gc) and `Heap::Gc`, `Heap::GcSweep`, one object per step |
| `Mark`, `IsGcMarked`, `MarkReference`, `MarkTypeless` | `Env::Gc`, `Heap::GcMark`, `Heap::IsGcMarked`, one reference per step |
| `Init` | the Env constructor: the uninterned namespace is allocated and not registered |

`Mark` takes pending references in any order; the code goes depth first. What
GcMark is called for does not depend on it, and the property says so for all
orders. Objects whose class visits nothing (CHAR vectors, streams), or that look marked always
(vectors of type `:byte`), are `Untraced`.

`MuCollector` is what `(gc)` comes to, without loops: a collection begins, ends,
and has then freed every cons, whoever refers to it, unless the process ends in it; between
collections a program may reuse one free cons at a time and writes to no other.
`ImplementsCollector` states that MuHeap implements it, with the free list
hidden while the loops run.

Runs.

- `heap_gc` - conses, symbols, namespaces, vectors and strings in 18 words: after the two
  namespaces of the constructor, room for two or three objects. The program may
  call `(gc)` in any state, several times. TypeOK (nothing is written past the
  heap), HeadersTile, FreeListsSound.
- `heap_marks` - begins in a later state (`LetterInit`), where the program has registered a
  namespace with a name of one character and dropped it. The namespaces
  that exist from the beginning look marked, so that without such a namespace nothing
  is ever visited. 22 words: room for two objects that it leads to. MarksReachable, and the
  refinement with its liveness: a collection that has begun ends.
- `heap_reclaim` - a violation: a cons that only a frame reaches is put on the free list.
- `heap_unmarked` - a violation: so is one that a registered namespace reaches.
- `heap_oversize` - a violation: a string whose size does not fit the header breaks
  HeadersTile.

Deadlock is not checked in these runs: "heap exhausted" ends the process.

Fairness. `FairSpec` adds WF of `Collecting`, the steps of `(gc)`'s loops. They run
on one thread and wait for no lock, stream or other thread, so once enabled they
are taken. The program itself gets no fairness; it may stop anywhere.

Proved (`MuHeapProofs`), for any capacity, classes and payloads that satisfy
`HeapAssumption`:

- `HeapTypeCorrect`: Spec => []TypeOK; in particular the barrier stays within the
  heap, and references never leave it.
- `HeadersAlwaysTile`: ObjectsFit => (Spec => []HeadersTile). `ObjectsFit` says
  that each object and its header are smaller than the size field can count; it
  is a hypothesis of the theorem and not an assumption of the model, because the
  code does not enforce it and `heap_oversize` shows what happens then.
- `FreeListsAlwaysSound`: ObjectsFit => (Spec => []FreeListsSound). The
  strengthening (`SweepInv`) relates the sweep's cursor to the lists: while
  sweeping, what is listed lies below the cursor, so that no object is listed
  twice. It also says that no header is marked (`NoHeaderMarked`).
- `MarksAreReachable`: ObjectsFit => (Spec => []MarksReachable). The strengthening
  (`VisitInv`): what has been written to looks marked now; it, and what is pending and did not look
  marked, is what the namespaces reach; and what it refers to is written, pending, or
  looked marked from the beginning. With nothing pending what is written is closed, so it is all
  that is reachable.
- `LoopsAreOneCollection`: ObjectsFit => (Spec => Collector!Spec), the safety part of
  ImplementsCollector. It needs that the sweep has listed all conses
  below its cursor (`SweptInv`), which `NoHeaderMarked` gives; the steps of the loops are stutters
  but for the first and the last and those that end the process, and every step of the program is `Use`.

Only model-checked: the liveness part of ImplementsCollector, that a collection ends.

## 5. Namespaces and symbols (`MuNamespace`, `SymbolTable`)

| Model | Code |
|---|---|
| `lists` | `Layout.externs`, `Layout.interns` of a namespace object, newest first |
| `ns_cache` | `env.ns_cache`: a map from namespaces to two maps from hashes to symbols |
| `namespaces` | `env.namespaces`, a map from names to namespaces |
| `path` | a namespace, its import, the import of that, ... (fixed when it is made) |
| `symbol` | the symbol objects; a designator of NIL prints as an uninterned symbol |
| `read_ns` | the string in `core::reader-ns-stream` |
| `MakeNamespace`, `Register`, `InNamespace` | `(ns name import)`, `(env:ns ns)`, `core:in-namespace` |
| `Map`, `Answers` | `Namespace::Map` and `NSCache::find_in_*`; whether it returns at all |
| `Create`, `SetValue` | the two ends of `Namespace::Intern` |
| `InternSymbol`, `UninternedSymbol`, `ParseSymbol` | `mu:intern` and `mu::intern`; `(symbol name)`; `Symbol::ParseSymbol` |
| `ReadSymbol`, `DefSymbol` | `core::read-resolve-symbol`, `core::def-symbol` |
| `Die` | a lookup that does not return |

A name in the model is a string as `Vector::Heap` returns it for the characters,
so names are equal when the strings are the same object; that strings are
interned is part of `MuValue` (section 7).

Two ways to die are part of the model because the program can reach them: a
namespace has a cache only from `env:ns` on, and a lookup before that goes through
a null pointer (also on the walk along imports, when an import was never
registered); two names with one hash in one scope are a `runtime_error`. Every
action that looks something up is guarded by `Answers`, and `Die` is enabled when
some lookup would not return.

`SymbolTable` has one table from places (a namespace, a scope, a name) to symbols
and the value of each symbol. A place that has a symbol keeps it; a symbol that has
a value keeps it. There are no lists, caches, hashes, registrations or readers in
it. `ImplementsSymbolTable` states that MuNamespace implements it, the table being
read off the lists.

Run `namespaces`: two program-made namespaces that both have the name `pkg` (only
one of them can be registered; `in-namespace` with the other selects the registered
one), any import among them, three names of which two share a hash, two values and
two symbols. Every property relates at most two symbols, and two are enough for a
hash collision, an extern and an intern of one name, the same name in two
namespaces, and a definition that finds its name taken. Three symbols take longer
than a useful run. The two names with one hash are symmetric, and so are the two
values; no property of the run is a liveness property. Deadlock is not checked, as the
process may die.

- `CacheMatchesLists`: what lookups see is what `ns-syms` and the collector see.
- `ReadsBack`: printing a symbol with its namespace and reading the text gives the
  same symbol, even though the text names a namespace by a string that another
  namespace object may share. One case is excluded and is a fact about the code: a
  name that is both extern and intern in a namespace (`core:compile`,
  `core::compile`) prints as the extern for both symbols.
- `DefinitionResolves`: after a definition of a symbol that is extern where it lives,
  or uninterned, its name stands in the current namespace for the new value or the one it
  already had there. The second alternative is real: when the symbol has a
  namespace, `def-symbol` does not look whether the current namespace has a bound
  symbol of that name, and `Intern` silently keeps the old value; for an uninterned
  symbol it raises.
- `ImplementsSymbolTable`.

Proved (`MuNamespaceProofs`), for any names, hashes, namespaces, values and number of
symbols that satisfy `NamespaceAssumption` (hashes need not be distinct):

- `NamespaceTypeCorrect`: Spec => []TypeOK, in particular that exactly the registered
  namespaces and the uninterned one have caches and that the reader's name is
  registered.
- `CachesMatchLists`: Spec => []CacheMatchesLists. Inductive together with TypeOK.
  The proof restates it for one list (`Agree`): what is found is listed, what is
  listed is found under its own name. `Create` needs that no name with the new
  hash had a symbol there, which is what the failed lookup says; registration needs
  that a namespace without a cache has no symbols, which is what `Agree` says.
- `NamespacesImplementTable`: Spec => ImplementsSymbolTable. Every handler that
  interns is Create or SetValue (`Steps`); Create is the abstract Intern because
  the place was empty, SetValue is Bind or a stutter, an uninterned symbol is Make,
  everything about namespaces is a stutter.

- `PrintedReadsBack`: Spec => []ReadsBack. A consequence of the above: a namespace
  that is registered is the one its name finds, and caches hold what lists
  hold, one symbol for a name and a scope.
- `DefinitionsResolve`: Spec => DefinitionResolves, with one conjunct more (`PathInv`): the
  walk along imports begins at the namespace itself, so that what was interned there hides what
  an import has.

## 6. Streams, the reader and the printer (`MuStream`, `MuReader`, `MuWriteRead`, `MuPrinter`)

`MuStream` has no variables: a stream is a record (`text`, `pos`, `eof`, `fail`,
`closed`), an operation an operator from records to records. It says what this code
gets from the C++ library: a get at the end sets eofbit and failbit, a putback
clears eofbit and does nothing on a failed stream, a different character that is put
back overwrites the one that was read, a write to a string stream moves its read
position to the beginning, a closed stream answers nothing.

`MuReader` is Env::Read and what it calls, one character or one return at a
time. The reader is C++ recursion: `stack` has the callers that wait for an object
(a list, what follows a dot, a quote, the type or the elements of a vector), `pc` is
where the innermost function stands. An exception drops the stack. Three things end
the process (`pc = "dead"`): an assertion (the build defines no NDEBUG), a key
missing from one of the read tables (`}` is a syntax character for one table and not
for the other; a character the type map does not have), and `(. a)`, where
ListDot reads before its buffer.

| Model | Code |
|---|---|
| `SkipSpace`, `EnterComment`, `SkipComment`, `NoMore`, `Found` | `Env::ReadWSUntilEof` |
| `Dispatch`, `Sharp`, `BlockComment`, `ReadSharpChar` | `Env::Read` by syntax character, and after a sharp |
| `ReadAtom`, `EndAtom`, `AtomRead` | `read_atom`, `parse_number`, symbols and keywords |
| `ReadString`, `ReadEscape` | `Vector::ReadString` |
| `CloseList`, `NextElement`, `CloseDotted`, `ReturnTo...` | `Cons::Read` |
| `ReturnToVectorType`, `ListToVector` | `Vector::Read` |
| `Read`, `ReadChar`, `UnReadChar`, `CloseStream` | a client of the stream |
| `Written` | `Env::Print` with escapes, and the Write of each type |
| `Write`, `WriteSpace`, `OpenString`, `RdByte`, `CloseOut` | the program of `MuWriteRead` |

`MuWriteRead` is a program that writes objects, takes the text and reads it back. What
text an object has is its constant `Printed(_)`; the run gives it `MuPrinter`'s
`Written`, the recursive printer, and the theorems hold for whatever it is.

Some behaviours of the code that the models keep: an atom may contain dots and `}`
only ends the process where it is the first character of a form, after a sharp or in a
string; an opening quote that is the last character of a text fails an assertion
instead of raising an error; a parse error may leave the character it stumbled on in
the stream; a name with a colon inside belongs to a namespace that may not be there;
after the end, un-char would clear eofbit and leave failbit, so the client only puts
back characters it has read, and before it has met the end; `rd-byte` asserts that
its stream is one for output; the flush in the close of a string output stream goes
through an uninitialised pointer, so it may end the process.

Run `reader`: one input stream, opened either on what the program wrote or on one of
about 1 500 texts over the characters that matter: all texts of two, and two or three
more after an open list, a dot, a block comment and a vector. Ten objects cover each
kind the printer knows, empty and nested ones, and dotted tails; two of them, or one
and a space, are one text, of which the last character may be missing. A letter of
the instance may be a whole name (`nil`, `quote`, a vector type).

- `RoundTrip`: an object that is written with escapes and read from where its text
  begins is the same object, and the reader stops where the text ends; an object
  without a syntax is refused. Left out, as facts about the code: strings with `"` or
  `\` in them (the printer does not escape), and an atom that another atom follows
  without a space.
- `NoPartialForm`: a list, vector or string that has arrived only in part is an error.
- `DepthIsBalance`: the lists that wait are the parentheses that were consumed and not closed.
- `EofReported`, `ReadAdvances`: a loop that reads until `eofp` makes progress and ends. The
  reader itself puts nothing back at the end, which would clear eofbit; a program that does
  (`un-char` after the end) is not in the model, and there eofp is never true again.
- `ReadReturns`: every read comes to its end, whatever the text.

Proved (`MuReaderProofs`), for any characters, tables and texts that satisfy the
assumptions of `MuStream` and `MuReader` (letters and digits are neither white space nor
syntax characters, and NIL and 0x04 are in no table). These four are about
`ReaderSpec`: the reader, its client, and any program around it that may open
another stream on any text or end the process between two calls.

- `ReaderTypeCorrect`: ReaderSpec => []ReaderTypeOK. `ControlInv` relates places to
  callers: after an opening parenthesis or an element a list is waiting, after a
  dot's object the same list as a dotted one.
- `EndIsReported`: ReaderSpec => []EofReported. failbit comes with eofbit, and eofbit only where
  nothing is left (`StreamInv`). The key is `PutBackUndoes`: a character read ahead and put back leaves
  the very same stream, flags included, because there was a character.
  The program puts back only characters that it read, and none after the end (`UnReadChar`).
- `ReadersAdvance`: ReaderSpec => []ReadAdvances, by `ProgressInv`: only before the first
  character of a form may nothing have been consumed.
- `DepthAlwaysBalance`: ReaderSpec => []DepthIsBalance. Every step ends the call,
  or takes a parenthesis together with the frame for it, or takes none and
  leaves as many lists waiting (`EvenStep`); a vector's type and its
  elements are one list after the other, so its parenthesis counts once.

ControlInv, ProgressInv and BalanceInv were invariants of a run of `reader` before they
were proved.

Proved in the same module for the program, whatever text the printer gives an object
(`ProgramAssumption`: what is written and opened are texts of characters, and a space
between objects is not one of the objects):

- `ProgramReads`: Spec => ReaderSpec. Every action of the program opens another stream
  on a text of characters (`OpenString`), may end the process (`RdByte`, `CloseOut`), or
  leaves the reader alone.
- `ProgramTypeCorrect`: Spec => []TypeOK. While the output stream is open its text is
  the concatenation of what was written (`WriterInv`). The lemmas under it: writing a
  string of n characters one by one appends it (`StringWritten`), and the concatenation
  of one more text is the concatenation with that text behind it (`JoinedAppend`); both
  are inductions, on the characters and on the texts.
- `ProgramReadsWell`: so EofReported, ReadAdvances and DepthIsBalance hold of the program.

Only model-checked: RoundTrip and NoPartialForm (recursion over objects), ReadReturns
(liveness).

Fairness: weak fairness of `Reader`. It is one thread of control over a text that
does not grow while it is read, and waits for nothing. The client has none.
Deadlock is checked; `Dead` stutters, because the process has ended.

## 7. Values (`MuTag`, `MuValue`, `LispValues`, `MuValueRefinement`)

`MuTag` has the words of `core/type.h`: two tag bits, the class and length of a
direct object, a shifted address for an indirect one, and two half words for a
packed cons. A word is a number below 2^W; shifts, masks and the sign extension of the
code are operators on such numbers. `MuValue` is a program on these words:
it computes expressions, pushes the values of literals and calls as arguments of
later calls, and an error abandons all of them. A cons is packed when both
words fit, a string of at most DIRECT_STR_MAX characters is its own word, a longer one
is looked up in `interned` by its hash (and a second string with the same hash becomes
the first one), a slice shares the elements of its vector.

`LispValues` has none of that: numbers modulo a power of two, characters, symbols,
pairs, typed vectors. `ImplementsLispValues` (in `MuValueRefinement`) states that `MuValue` implements it,
under a mapping (`Decode`) that takes words apart. The variable `call` names the
last handler with its operands and whether it raised, so that each handler is compared
with its own counterpart and not with any other that would give the same value.
Logical operations are defined there bit by bit, division by its law.

What the two agree on, and a reader might not expect: the remainder of trunc and floor
satisfies `quotient * divisor + remainder = number` always, but is below the divisor
only for operands that are not negative; a byte vector takes negative fixnums and
truncates them; code-ch truncates to a byte; `(nthcdr 0 '(1 . 2))` is 1; two long
strings with one hash are the same string; list-sv looks a string up with the key its
constructor left, which is that of the empty text.

Runs.

- `values` - words of 20 bits (the packing of conses, the 15 bits of a fixnum and the
  three characters of a direct string all come from W, as 64 does in the program);
  4 steps with 2 waiting values; fixnums at the edges of half a word, of a fixnum and of
  what the reader takes; strings below and above the direct size, one whose word has its sign bit
  set, two with equal hashes and one with that of the empty text; lists that pack, that do not, of characters and mixed.
  `ImplementsLispValues`; `TypeOK` (a word refers to an object of its class, a slice
  stays inside of its vector); `EqualWordsAreEq` (equal immediate values are one word,
  whatever they were computed with - eq compares words; a short slice of a heap
  string is a reference and not eq to the direct string with its characters).
- `fixnum_range` - a violation: the reader takes numbers of 62 bits, and a fixnum has 59.

Four steps are a literal or two, a call, and a call on its result: the composition of
an operation that makes a representation with one that takes it apart. Deadlock is
not checked: the program has done its steps. The heap of this module is not collected;
`MuHeap` has the collector and no contents.

Proved about words (`MuTagProofs`), for any width of a word and of a character that
satisfy `TagAssumption`:

- `FixnumsWrap`: what Int64Of takes out of the word of a number is the number, wrapped
  to W - 5 bits with its sign.
- `CharactersReadBack`, `ShortTextsReadBack`: a character, and a string or keyword that
  is its own word, are what they were made of.
- `ConsesUnpack`: car and cdr of a packed cons are the two words it was made of.

`TagAssumption` says that half words exist, that a direct word has room for the three
characters of `nil`, and that the three bits of the length field count the longest direct
text. Words of 64 bits and bytes satisfy it with nothing to spare: the seven characters
of DIRECT_STR_MAX are the most that three bits count.

Proved about the program (`MuValueProofs`), for any literals, hash and bounds that
satisfy `ValueAssumption`:

- `WordsTypeCorrect`: Spec => []TypeOK.
- `EqualWords`: Spec => []EqualWordsAreEq.
- `ReadNumbersWrap`: Spec => ReadWrapsNumbers, an action property: the fixnum of a number
  the reader takes is that number wrapped to W - 5 bits. It is the exact form of what
  `fixnum_range` shows on one number.

The strengthening (`WordsInv`, an invariant of the run before it was proved) says which
words there are. A word that is no reference is one of the forms the constructors make
(`DirectWords`): a fixnum, a character, a short string, a short symbol. Any other is a
reference with the class of the object it refers to, or is packed from two half words
that are such words. The objects of the heap hold words of the heap, and a
vector has its elements in one of its type, so slices stay inside. The heap only grows,
so words stay words (`WordsStay`). EqualWordsAreEq alone would not be inductive: it says
nothing of the words inside of objects, which car, cdr and sv-ref bring back.

`ValueAssumption` bounds the instance and not the code: the atoms are numbers and
characters, and a behaviour makes no more objects than a word has addresses for (`Room`
uses it; in the program the heap is exhausted long before).

Only model-checked: ImplementsLispValues, because its mapping is recursive.

## 8. The compiler (`MuCompile`)

Compile::Form is recursive, and `control` is its C++ stack. A form is chosen while
the compiler looks at it, so the model compiles every form within the bounds. The
lambdas being compiled are `lexicals` (env.compiler's); functions that were made stay in
`functions` with the frame id and the parameters they got.

| Model | Code |
|---|---|
| `Constant`, `Symbol`, `CallSymbol`, `CallFunction`, `CallList`, `Called` | `Compile::Form` |
| `MapLexicalSymbol` | `map_lexical_symbol` |
| `NextForm`, `EndList`, `Branch`, `EndBody` | `compile_list` and the end of `def_lambda` |
| `Lambda`, `MakeLambda`, `Parses`, `Enter`, `Leave` | `def_lambda`, `parse_lambda` |
| `Quote`, `If`, `Tested`, `Chosen`, `EndIf` | `def_quote`, `def_conditional` |
| `Malformed`, `Raise` | the errors of all of these |
| `NextFrameId`, `alive` | `Compile::frameid`; the assertion of a keyword's constructor |

Run `compile`: two symbols, lambda lists of up to two elements, six forms, one
compilation that ends with an error and others after it, and frame ids that run out after
three (9 999 999 in the program). Three nested lambdas, shadowed and permuted
parameters, branches of conditionals inside them, and an error at any depth all fit.
Deadlock is not checked: the bound on forms stops the model.

- `LexicalsAreEnclosing`: the innermost entries of the lexical environment are the
  lambdas around the form being compiled, in order. An error leaves more below
  them (compile.cc:137 has no handler), never above.
- `ResolvesInnermost`: a symbol that a lambda around it binds becomes a reference to
  the innermost of these, at the offset of its parameter, whatever earlier errors have
  left; one that no lambda around it binds stays itself, unless an error has left a
  lambda that does: then it refers to a frame that no call will have.
- `FrameIdsDistinct`: no two lambdas get one frame id before the counter stops the
  process. (Ids are also taken by bind, and a clone of a function has its
  original's on purpose.)

Proved (`MuCompileProofs`), for any symbols and bounds that satisfy `CompileAssumption`:

- `CompilerTypeCorrect`: Spec => []TypeOK.
- `FrameIdsStayDistinct`: Spec => []FrameIdsDistinct. Inductive with one conjunct
  more: the counter is above every id it has given.
- `LexicalsStayEnclosing`: Spec => []LexicalsAreEnclosing.
- `SymbolsResolveInnermost`: Spec => ResolvesInnermost.

The proofs first sort the actions into four kinds (`Kinds`): those that make a
lambda, those that end one, errors, and all others. LexicalsAreEnclosing is
inductive as it stands, but says only where the lambdas around the form are. That
no other entry is between them (`EnclosingAreLexicals`) is proved with it, because a
lookup from the end of the list would stop at such an entry: this is what
ResolvesInnermost needs. The last hit then is the deepest lambda around the form
that binds the symbol, and what errors have left lies before all of these.

A parameter named `env:lex-ref` is excluded from `Symbols`: a symbol is replaced by a
form that starts with env:lex-ref and is compiled in its turn, so with such a
parameter the compiler recurses for ever.

## 9. Findings

1. No header is ever marked: `GcMark` and `IsGcMarked` work on the payload and one
   byte (`heap/mapped.h:88`, run `heap_unmarked`). Every collection puts all objects on
   the free lists, reachable or not, and changes the first words of those it visits.
2. `(gc)` does not visit what live frames or symbols of the uninterned namespace
   reach (`env/env-env.cc:118`, run `heap_reclaim`). The functions that would
   visit frames, GcFrame and GcContext, are never called. With headers unmarked,
   visiting more would not help.
3. `Mapped::Alloc` accepts objects larger than the 16 bits of the size field
   (`heap/heap-mapped.cc:108`, run `heap_oversize`), which `core/heap.h:36` says
   do not exist.
4. A number of 60 to 62 bits is read as another number, without an error
   (`core/read.cc:97` with `type/fixnum.h:58`, run `fixnum_range`);
   `doc/html/1-2runtime.html:501` calls a fixnum a 62 bit signed integer.

## 10. What is not modelled

- Threads. A thread that `env:bind` makes waits in Context::Suspend, and no code of the
  repository calls Context::Resume (the handlers of resume and suspend return their
  argument). The thread takes no step after that but for a spurious
  wakeup, and then it calls through a local of a function that has returned.
  There is no behaviour between threads to check.
- The core compiler (macros, quasiquote) and the libraries of core and preface: they
  rearrange lists and keep no state but what `MuNamespace` (def-symbol,
  in-namespace) and `MuContext` (closures) have.
- Floats, in tags, fixnum arithmetic, vectors, reader and printer.
- In the reader: signs, octal numerals, and the limits on the length of atoms and strings. In the
  printer: text without escapes.
- In streams: what the operating system does with files, sockets, and write errors.
- In the context: what a program does after a closure call has popped through a dead frame,
  and the values that lex-refs give through dead frames; `fnv-set` and `lex-set` (they change values inside frames, not
  stacks) and the list of captured contexts.
- In the heap: contents other than references and the third byte of the first word;
  what happens after GcMark has changed a reference; a first word that is a packed cons with a
  third byte of zero and refers to the heap through its cdr only, together with a
  reference in the second word; symbols and functions are not told apart by what their
  first word (a namespace, an arity) means, so the arity that is 2048 more after a visit only shows
  as `Filled`; names of namespaces of more than seven characters; `saveimg`, and the metrics counters.
- In the repl: the loading loop, a sequence of read, compile and eval, each of
  which has its own module.
- The wrappers of the operating system (`system/sys-*.cc` but for streams).
