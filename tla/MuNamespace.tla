---------------------------- MODULE MuNamespace ----------------------------
(***************************************************************************)
(* Namespaces and symbols.                                                 *)
(*                                                                         *)
(* A namespace is a heap object with two lists of symbols, its externs and *)
(* its interns, and an import.  Nobody searches the lists: Namespace::Map  *)
(* looks a name up in a cache on the side, keyed by the namespace and a    *)
(* hash of the name.  A namespace has a cache from its registration with   *)
(* env:ns on.  Symbols are bound once.                                     *)
(*                                                                         *)
(* On top of them core's reader keeps the NAME of a current namespace; an  *)
(* unqualified symbol is looked up among its externs and those of its      *)
(* imports, and def-symbol decides where a definition goes.                *)
(*                                                                         *)
(* A name stands for the string Vector::Heap returns for it.  Two ways to  *)
(* die are kept: a lookup in a namespace without a cache dereferences a    *)
(* null pointer, and two names with one hash are a runtime_error.          *)
(***************************************************************************)
EXTENDS Integers, Sequences, FiniteSets

CONSTANTS
    Names, Hash,        \* names of symbols and the hash of each
    Spaces, NameOf,     \* namespace objects, made or not, and their names
    Uninterned, Core,   \* the two of them that exist at the start
    NIL,
    Values, Unbound,
    MaxSymbols          \* bound: symbols made

ASSUME NamespaceAssumption ==
    /\ DOMAIN Hash = Names
    /\ DOMAIN NameOf = Spaces
    /\ Uninterned \in Spaces /\ Core \in Spaces /\ Uninterned # Core
    /\ NIL \notin Spaces
    /\ Unbound \notin Values
    /\ MaxSymbols \in Nat

VARIABLES
    path,        \* namespace -> itself, its import, the import of that...
    namespaces,  \* env.namespaces: name -> namespace
    ns_cache,    \* namespace -> scope -> hash -> symbol
    lists,       \* namespace -> scope -> symbols, the newest first
    symbol,      \* the symbols: namespace designator, name and value
    read_ns,     \* the name in core::reader-ns-stream
    running      \* FALSE once the process has died

vars == <<path, namespaces, ns_cache, lists, symbol, read_ns, running>>

registry == <<path, namespaces, read_ns>>

Scopes == {"extern", "intern"}
Empty == [scope \in Scopes |-> [h \in {} |-> NIL]]
Made == DOMAIN path

\* f with the value y at x, where it may have had none.
With(f, x, y) == [z \in DOMAIN f \cup {x} |-> IF z = x THEN y ELSE f[z]]

Init ==
    /\ path = [ns \in {Uninterned, Core} |-> <<ns>>]
    /\ namespaces = [q \in {NameOf[Core]} |-> Core]
    /\ ns_cache = [ns \in {Uninterned, Core} |-> Empty]
    /\ lists = [ns \in {Uninterned, Core} |-> [scope \in Scopes |-> <<>>]]
    /\ symbol = <<>>
    /\ read_ns = NameOf[Core]
    /\ running = TRUE

-----------------------------------------------------------------------------
(* Namespaces.                                                             *)

NsDesignator(nsd) == IF nsd = NIL THEN Uninterned ELSE nsd

\* What a program can pass for a namespace: nothing returns the uninterned one.
Designators == (Made \ {Uninterned}) \cup {NIL}

\* (ns name import).
MakeNamespace(ns, import) ==
    /\ running
    /\ ns \in Spaces \ Made
    /\ import \in Designators
    /\ path' = With(path, ns,
                    <<ns>> \o (IF import = NIL THEN <<>> ELSE path[import]))
    /\ lists' = With(lists, ns, [scope \in Scopes |-> <<>>])
    /\ UNCHANGED <<namespaces, ns_cache, symbol, read_ns, running>>

\* Mutant: registration replaces what is registered under the name.
EnvNamespaceReplacing(ns) ==
    /\ namespaces' = With(namespaces, NameOf[ns], ns)
    /\ ns_cache' = With(ns_cache, ns, Empty)

\* (env:ns ns): AddNamespace, unless the name is taken.
EnvNamespace(ns) ==
    IF NameOf[ns] \in DOMAIN namespaces
      THEN UNCHANGED <<namespaces, ns_cache>>
      ELSE /\ namespaces' = With(namespaces, NameOf[ns], ns)
           /\ ns_cache' = With(ns_cache, ns, Empty)

Register(ns) ==
    /\ running
    /\ ns \in Made \ {Uninterned}
    /\ EnvNamespace(ns)
    /\ UNCHANGED <<path, lists, symbol, read_ns, running>>

\* Mutant: the namespace is made current without being registered.
InNamespaceUnregistered(ns) ==
    /\ running
    /\ ns \in Made \ {Uninterned}
    /\ read_ns' = NameOf[ns]
    /\ UNCHANGED <<path, namespaces, ns_cache, lists, symbol, running>>

\* core:in-namespace.
InNamespace(ns) ==
    /\ running
    /\ ns \in Made \ {Uninterned}
    /\ EnvNamespace(ns)
    /\ read_ns' = NameOf[ns]
    /\ UNCHANGED <<path, lists, symbol, running>>

\* core::read-get-ns.
Current == namespaces[read_ns]

-----------------------------------------------------------------------------
(* Lookup and interning.                                                   *)

\* Namespace::Map: the symbol found, if there is one.
Map(ns, scope, name) ==
    IF ns \in DOMAIN ns_cache /\ Hash[name] \in DOMAIN ns_cache[ns][scope]
      THEN {ns_cache[ns][scope][Hash[name]]}
      ELSE {}

\* Map returns: the namespace has a cache, and no other name has this hash.
Answers(ns, scope, name) ==
    /\ ns \in DOMAIN ns_cache
    /\ \A s \in Map(ns, scope, name) : symbol[s].name = name

\* Mutant: the new symbol is always added to the cache of externs.
CreateInExterns(nsd, scope, name, value) ==
    LET ns == NsDesignator(nsd)
        new == Len(symbol) + 1
    IN  /\ new <= MaxSymbols
        /\ symbol' = Append(symbol, [ns |-> nsd, name |-> name, value |-> value])
        /\ lists' = [lists EXCEPT ![ns][scope] = <<new>> \o lists[ns][scope]]
        /\ ns_cache' = [ns_cache EXCEPT ![ns]["extern"] =
                           With(ns_cache[ns]["extern"], Hash[name], new)]

\* Namespace::Intern of a name that has no symbol.
Create(nsd, scope, name, value) ==
    LET ns == NsDesignator(nsd)
        new == Len(symbol) + 1
    IN  /\ new <= MaxSymbols
        /\ symbol' = Append(symbol, [ns |-> nsd, name |-> name, value |-> value])
        /\ lists' = [lists EXCEPT ![ns][scope] = <<new>> \o lists[ns][scope]]
        /\ ns_cache' = [ns_cache EXCEPT ![ns][scope] =
                           With(ns_cache[ns][scope], Hash[name], new)]

\* Mutant: the value replaces the one the symbol has.
SetValueAlways(s, value) ==
    /\ symbol' = [symbol EXCEPT ![s].value = value]
    /\ UNCHANGED <<lists, ns_cache>>

\* Namespace::Intern of a name that has one: a bound symbol stays as it is.
SetValue(s, value) ==
    /\ symbol' = IF symbol[s].value = Unbound
                   THEN [symbol EXCEPT ![s].value = value]
                   ELSE symbol
    /\ UNCHANGED <<lists, ns_cache>>

Intern(nsd, scope, name, value) ==
    LET found == Map(NsDesignator(nsd), scope, name)
    IN  /\ running
        /\ Answers(NsDesignator(nsd), scope, name)
        /\ \/ found = {} /\ Create(nsd, scope, name, value)
           \/ \E s \in found : SetValue(s, value)
        /\ UNCHANGED <<registry, running>>

\* mu:intern and mu::intern.
InternSymbol(nsd, scope, name, value) ==
    /\ nsd \in Designators
    /\ Intern(nsd, scope, name, value)

\* (symbol name).
UninternedSymbol(name) ==
    /\ running
    /\ Len(symbol) < MaxSymbols
    /\ symbol' = Append(symbol, [ns |-> NIL, name |-> name, value |-> Unbound])
    /\ UNCHANGED <<registry, ns_cache, lists, running>>

\* libmu's reader: q:name, q::name.
ParseSymbol(q, scope, name) ==
    /\ q \in DOMAIN namespaces
    /\ Intern(namespaces[q], scope, name, Unbound)

-----------------------------------------------------------------------------
(* core's reader and core::def-symbol.                                     *)

Externs(i, name) == Map(path[Current][i], "extern", name)

\* The namespaces core::read-resolve-symbol asks before it finds the name.
Walked(name) == {i \in DOMAIN path[Current] : \A j \in 1 .. i - 1 : Externs(j, name) = {}}

\* What an unqualified name stands for.
Resolve(name) ==
    LET found == UNION {Externs(i, name) : i \in Walked(name)}
    IN  IF found # {} THEN found ELSE Map(Uninterned, "extern", name)

\* Reading a name that the walk does not find interns it in no namespace.
ReadSymbol(name) ==
    /\ \A i \in Walked(name) :
          Answers(path[Current][i], "extern", name) /\ Externs(i, name) = {}
    /\ Intern(NIL, "extern", name, Unbound)

IsBound(s) == symbol[s].value # Unbound

\* Mutant: the definition goes to the symbol's own namespace.
DefSymbolAtHome(s, value) ==
    LET name == symbol[s].name
        home == symbol[s].ns
    IN  /\ running
        /\ IF home = NIL
             THEN /\ \A t \in Map(Current, "extern", name) : ~IsBound(t)
                  /\ Intern(Current, "extern", name, value)
             ELSE /\ Answers(home, "extern", name)
                  /\ LET scope == IF Map(home, "extern", name) # {}
                                    THEN "extern" ELSE "intern"
                     IN  Intern(home, scope, name, value)

\* core::def-symbol, for defconst, defun and defmacro.  The symbol was read
\* before the value was computed.  An uninterned name that is bound by now is
\* an error, which changes nothing.
DefSymbol(s, value) ==
    LET name == symbol[s].name
        home == symbol[s].ns
    IN  /\ running
        /\ IF home = NIL
             THEN /\ \A t \in Map(Current, "extern", name) : ~IsBound(t)
                  /\ Intern(Current, "extern", name, value)
             ELSE /\ Answers(home, "extern", name)
                  /\ LET scope == IF Map(home, "extern", name) # {}
                                    THEN "extern" ELSE "intern"
                     IN  Intern(Current, scope, name, value)

\* A lookup that does not return.
Die ==
    /\ running
    /\ \E nsd \in Designators, scope \in Scopes, name \in Names :
          ~Answers(NsDesignator(nsd), scope, name)
    /\ running' = FALSE
    /\ UNCHANGED <<registry, ns_cache, lists, symbol>>

Next ==
    \/ \E ns \in Spaces, import \in Designators : MakeNamespace(ns, import)
    \/ \E ns \in Spaces : Register(ns)
    \/ \E ns \in Spaces : InNamespace(ns)
    \/ \E nsd \in Designators, scope \in Scopes, name \in Names :
          \E value \in Values \cup {Unbound} : InternSymbol(nsd, scope, name, value)
    \/ \E name \in Names : UninternedSymbol(name)
    \/ \E q \in DOMAIN namespaces, scope \in Scopes, name \in Names :
          ParseSymbol(q, scope, name)
    \/ \E name \in Names : ReadSymbol(name)
    \/ \E s \in DOMAIN symbol, value \in Values : DefSymbol(s, value)
    \/ Die

Spec == Init /\ [][Next]_vars

-----------------------------------------------------------------------------
(* Properties.                                                             *)

Symbols == [ns : Spaces \cup {NIL}, name : Names, value : Values \cup {Unbound}]

Caches == UNION {[H -> DOMAIN symbol] : H \in SUBSET {Hash[name] : name \in Names}}

\* Every variable has the shape the code gives it; exactly the registered
\* namespaces and the uninterned one have caches, and the name the reader
\* keeps is registered.
TypeOK ==
    /\ {Uninterned, Core} \subseteq Made /\ Made \subseteq Spaces
    /\ path \in [Made -> Seq(Made)]
    /\ namespaces \in [DOMAIN namespaces -> Made \ {Uninterned}]
    /\ \A q \in DOMAIN namespaces : NameOf[namespaces[q]] = q
    /\ DOMAIN ns_cache = {namespaces[q] : q \in DOMAIN namespaces} \cup {Uninterned}
    /\ ns_cache \in [DOMAIN ns_cache -> [Scopes -> Caches]]
    /\ lists \in [Made -> [Scopes -> Seq(DOMAIN symbol)]]
    /\ symbol \in Seq(Symbols)
    /\ read_ns \in DOMAIN namespaces
    /\ running \in BOOLEAN

Listed(ns, scope) == {lists[ns][scope][i] : i \in DOMAIN lists[ns][scope]}

\* The caches, which lookups use, and the lists, which ns-syms returns and gc
\* follows, have the same symbols; each is in the cache under the hash of its
\* name, so no name has two symbols in one scope; and each knows where it is
\* (namespace.cc:136-146, nscache.h:82).
CacheMatchesLists ==
    \A ns \in Made, scope \in Scopes :
        /\ Listed(ns, scope) =
              UNION {Map(ns, scope, name) : name \in Names}
        /\ \A s \in Listed(ns, scope) :
              /\ Map(ns, scope, symbol[s].name) = {s}
              /\ NsDesignator(symbol[s].ns) = ns

\* What Symbol::Write prints of an interned symbol, and what ParseSymbol makes
\* of it.
Write(s) == IF Map(symbol[s].ns, "extern", symbol[s].name) # {}
              THEN "extern" ELSE "intern"
Parse(q, scope, name) == Map(namespaces[q], scope, name)

\* A symbol that is printed with its namespace reads back as the same symbol,
\* whatever namespaces share its namespace's name, unless a name is both
\* extern and intern there (symbol.cc:135, symbol.cc:171).
ReadsBack ==
    \A ns \in Made \ {Uninterned}, scope \in Scopes :
        \A s \in Listed(ns, scope) :
            LET name == symbol[s].name
                twin == \A sc \in Scopes : Map(ns, sc, name) # {}
            IN  /\ NameOf[ns] \in DOMAIN namespaces
                /\ ~twin => Parse(NameOf[ns], Write(s), name) = {s}

\* A definition takes effect: after defconst, defun or defmacro of an extern or
\* uninterned symbol, its unqualified name stands for a symbol of the current
\* namespace with that value, or with the one it had there before
\* (compile.l:64-91, read.l:158-169).
DefinitionResolves ==
    [][\A s \in DOMAIN symbol, value \in Values :
          LET name == symbol[s].name
              home == NsDesignator(symbol[s].ns)
          IN  (symbol[s].ns = NIL \/ s \in Listed(home, "extern")) /\ DefSymbol(s, value)
                => \E t \in Resolve(name)' :
                      /\ t \in Listed(Current, "extern")'
                      /\ symbol'[t].value = value
                         \/ (t \in DOMAIN symbol /\ IsBound(t))]_vars

\* Lists, caches and hashes together are a table of symbols, each of which is
\* bound at most once (eko.md:41).
Entries(ns, scope) ==
    {<<<<ns, scope, symbol[s].name>>, s>> : s \in Listed(ns, scope)}

Table == INSTANCE SymbolTable WITH
    table <- UNION {Entries(p[1], p[2]) : p \in Made \X Scopes},
    value <- [s \in DOMAIN symbol |-> symbol[s].value]

ImplementsSymbolTable == Table!Spec
=============================================================================
