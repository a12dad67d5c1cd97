------------------------- MODULE MuNamespaceProofs -------------------------
(***************************************************************************)
(* Proofs about MuNamespace: types, the agreement of caches and lists, and *)
(* that namespaces implement SymbolTable, for any names, hashes,           *)
(* namespaces and values.                                                  *)
(*                                                                         *)
(* CacheMatchesLists is inductive together with TypeOK.  What a step can   *)
(* do to symbols is one of three things, whatever handler it is part of:   *)
(* Create, SetValue or the making of an uninterned symbol; each has its    *)
(* lemmas, and the handlers only differ in the arguments they pass.        *)
(***************************************************************************)
EXTENDS MuNamespace, TLAPS

IInv == TypeOK /\ CacheMatchesLists

\* Sequences keep their type when the set of their elements grows.
LEMMA SeqGrows ==
    ASSUME NEW S, NEW T, S \subseteq T, NEW s \in Seq(S)
    PROVE  s \in Seq(T)
  OBVIOUS

\* The elements of a list.
Elements(l) == {l[i] : i \in DOMAIN l}

\* The elements of a list with a new head.
LEMMA PrependElements ==
    ASSUME NEW S, NEW x, NEW l \in Seq(S)
    PROVE  Elements(<<x>> \o l) = Elements(l) \cup {x}
  <1> DEFINE xl == <<x>> \o l
  <1>1. /\ DOMAIN xl = 1 .. Len(l) + 1 /\ DOMAIN l = 1 .. Len(l) /\ Len(l) \in Nat
        /\ xl[1] = x
        /\ \A i \in 1 .. Len(l) : xl[i + 1] = l[i]
    OBVIOUS
  <1> HIDE DEF xl
  <1>2. \A i \in DOMAIN xl : xl[i] \in {l[j] : j \in DOMAIN l} \cup {x}
    <2> SUFFICES ASSUME NEW i \in 1 .. Len(l) + 1, i # 1
                 PROVE  xl[i] \in {l[j] : j \in DOMAIN l}
      BY <1>1
    <2>1. i - 1 \in 1 .. Len(l) /\ (i - 1) + 1 = i
      BY <1>1
    <2>2. xl[i] = l[i - 1]
      BY <2>1, <1>1
    <2> QED
      BY <2>1, <2>2, <1>1
  <1>3. \A j \in DOMAIN l : l[j] \in {xl[i] : i \in DOMAIN xl}
    <2> SUFFICES ASSUME NEW j \in 1 .. Len(l)
                 PROVE  \E i \in 1 .. Len(l) + 1 : xl[i] = l[j]
      BY <1>1
    <2>1. j + 1 \in 1 .. Len(l) + 1
      BY <1>1
    <2> QED
      BY <2>1, <1>1
  <1>4. x \in {xl[i] : i \in DOMAIN xl}
    <2>1. 1 \in 1 .. Len(l) + 1
      BY <1>1
    <2> QED
      BY <2>1, <1>1
  <1>5. {xl[i] : i \in DOMAIN xl} = {l[i] : i \in DOMAIN l} \cup {x}
    BY <1>2, <1>3, <1>4
  <1> QED
    BY <1>5 DEF xl, Elements

\* A cache without symbols.
LEMMA EmptyIs ==
    /\ Empty \in [Scopes -> Caches]
    /\ \A scope \in Scopes : DOMAIN Empty[scope] = {}
  <1>1. \A scope \in Scopes : Empty[scope] \in [{} -> DOMAIN symbol] /\ DOMAIN Empty[scope] = {}
    BY DEF Empty
  <1>2. [{} -> DOMAIN symbol] \in {[H -> DOMAIN symbol] : H \in SUBSET {Hash[name] : name \in Names}}
    OBVIOUS
  <1>3. \A scope \in Scopes : Empty[scope] \in Caches
    BY <1>1, <1>2 DEF Caches
  <1> QED
    BY <1>1, <1>3 DEF Empty

\* The initial state has no symbols and a cache for both namespaces.
LEMMA InitInv == Init => IInv
  <1> USE NamespaceAssumption DEF Init
  <1> SUFFICES ASSUME Init PROVE IInv
    OBVIOUS
  <1>1. Made = {Uninterned, Core}
    BY DEF Made
  <1>5. TypeOK
    <2>1. path \in [Made -> Seq(Made)]
      BY <1>1
    <2>2. /\ namespaces \in [DOMAIN namespaces -> Made \ {Uninterned}]
          /\ \A q \in DOMAIN namespaces : NameOf[namespaces[q]] = q
          /\ read_ns \in DOMAIN namespaces
      BY <1>1
    <2>3. DOMAIN ns_cache = {namespaces[q] : q \in DOMAIN namespaces} \cup {Uninterned}
      OBVIOUS
    <2>4. ns_cache \in [DOMAIN ns_cache -> [Scopes -> Caches]]
      BY EmptyIs
    <2>5. lists \in [Made -> [Scopes -> Seq(DOMAIN symbol)]]
      BY <1>1
    <2>6. symbol \in Seq(Symbols) /\ running \in BOOLEAN
      OBVIOUS
    <2> QED
      BY <1>1, <2>1, <2>2, <2>3, <2>4, <2>5, <2>6 DEF TypeOK
  <1>6. CacheMatchesLists
    <2> SUFFICES ASSUME NEW ns \in Made, NEW scope \in Scopes
                 PROVE  /\ Listed(ns, scope) = {}
                        /\ \A name \in Names : Map(ns, scope, name) = {}
      BY DEF CacheMatchesLists
    <2>1. Listed(ns, scope) = {}
      BY <1>1 DEF Listed
    <2>2. ns_cache[ns] = Empty
      BY <1>1
    <2> QED
      BY <2>1, <2>2, EmptyIs DEF Map
  <1> QED
    BY <1>5, <1>6 DEF IInv

\* Caches of a smaller set of symbols are caches of a larger one.
LEMMA CachesGrow ==
    ASSUME DOMAIN symbol \subseteq DOMAIN symbol'
    PROVE  Caches \subseteq Caches'
  <1> DEFINE HS == SUBSET {Hash[name] : name \in Names}
  <1> SUFFICES ASSUME NEW H \in HS, NEW c \in [H -> DOMAIN symbol]
               PROVE  c \in Caches'
    BY DEF Caches
  <1>1. c \in [H -> DOMAIN symbol']
    OBVIOUS
  <1> QED
    BY <1>1 DEF Caches

\* Symbols grow by one record at the end.
LEMMA AppendSymbol ==
    ASSUME symbol \in Seq(Symbols), NEW r \in Symbols, symbol' = Append(symbol, r)
    PROVE  LET new == Len(symbol) + 1
           IN  /\ symbol' \in Seq(Symbols)
               /\ DOMAIN symbol' = DOMAIN symbol \cup {new}
               /\ new \notin DOMAIN symbol
               /\ symbol'[new] = r
               /\ \A s \in DOMAIN symbol : symbol'[s] = symbol[s]
  OBVIOUS

\* What Map finds is a symbol, and it is found by every name with that hash.
LEMMA MapIs ==
    ASSUME TypeOK, NEW ns \in Made, NEW scope \in Scopes, NEW name \in Names
    PROVE  Map(ns, scope, name) \subseteq DOMAIN symbol
  <1> SUFFICES ASSUME ns \in DOMAIN ns_cache, Hash[name] \in DOMAIN ns_cache[ns][scope]
               PROVE  ns_cache[ns][scope][Hash[name]] \in DOMAIN symbol
    BY DEF Map
  <1>1. ns_cache[ns][scope] \in Caches
    BY DEF TypeOK
  <1>2. PICK H : ns_cache[ns][scope] \in [H -> DOMAIN symbol]
    BY <1>1 DEF Caches
  <1> QED
    BY <1>2

\* A listed symbol is a symbol.
LEMMA ListedIs ==
    ASSUME TypeOK, NEW ns \in Made, NEW scope \in Scopes
    PROVE  Listed(ns, scope) \subseteq DOMAIN symbol
  <1>1. lists[ns][scope] \in Seq(DOMAIN symbol)
    BY DEF TypeOK
  <1> QED
    BY <1>1 DEF Listed

\* What Create does: one symbol more, in one list and under one hash.
Created(nsd, scope, name, value, ns, new) ==
    /\ symbol' \in Seq(Symbols)
    /\ DOMAIN symbol' = DOMAIN symbol \cup {new}
    /\ new \notin DOMAIN symbol
    /\ symbol'[new] = [ns |-> nsd, name |-> name, value |-> value]
    /\ \A s \in DOMAIN symbol : symbol'[s] = symbol[s]
    /\ Made' = Made /\ ns \in Made
    /\ DOMAIN ns_cache' = DOMAIN ns_cache
    /\ \A m \in Made, sc \in Scopes :
         /\ Listed(m, sc)' = IF m = ns /\ sc = scope
                               THEN Listed(m, sc) \cup {new}
                               ELSE Listed(m, sc)
         /\ \A n \in Names :
              Map(m, sc, n)' = IF m = ns /\ sc = scope /\ Hash[n] = Hash[name]
                                 THEN {new} ELSE Map(m, sc, n)
    /\ ns_cache' \in [DOMAIN ns_cache -> [Scopes -> Caches']]
    /\ lists' \in [Made -> [Scopes -> Seq(DOMAIN symbol')]]

LEMMA CreateIs ==
    ASSUME TypeOK, NEW nsd \in Spaces \cup {NIL}, NEW scope \in Scopes,
           NEW name \in Names, NEW value \in Values \cup {Unbound},
           NsDesignator(nsd) \in DOMAIN ns_cache,
           Map(NsDesignator(nsd), scope, name) = {},
           Create(nsd, scope, name, value),
           UNCHANGED registry,
           NEW ns, ns = NsDesignator(nsd), NEW new, new = Len(symbol) + 1
    PROVE  Created(nsd, scope, name, value, ns, new)
  <1> DEFINE r == [ns |-> nsd, name |-> name, value |-> value]
             c == ns_cache[ns][scope]
             l == lists[ns][scope]
  <1>1. r \in Symbols /\ symbol' = Append(symbol, r) /\ symbol \in Seq(Symbols)
    BY DEF Symbols, Create, TypeOK
  <1>2. /\ symbol' \in Seq(Symbols)
        /\ DOMAIN symbol' = DOMAIN symbol \cup {new}
        /\ new \notin DOMAIN symbol
        /\ symbol'[new] = r
        /\ \A s \in DOMAIN symbol : symbol'[s] = symbol[s]
    BY <1>1, AppendSymbol
  <1>3. Made' = Made /\ ns \in Made
    BY NamespaceAssumption DEF registry, Made, TypeOK
  <1>4. ns_cache' = [ns_cache EXCEPT ![ns][scope] = With(c, Hash[name], new)]
    BY DEF Create
  <1>5. lists' = [lists EXCEPT ![ns][scope] = <<new>> \o l]
    BY DEF Create
  <1>6. /\ ns_cache \in [DOMAIN ns_cache -> [Scopes -> Caches]]
        /\ lists \in [Made -> [Scopes -> Seq(DOMAIN symbol)]]
    BY DEF TypeOK
  <1>7. /\ DOMAIN ns_cache' = DOMAIN ns_cache
        /\ \A m \in DOMAIN ns_cache, sc \in Scopes :
             ns_cache'[m][sc] = IF m = ns /\ sc = scope
                                  THEN With(c, Hash[name], new) ELSE ns_cache[m][sc]
        /\ \A m \in DOMAIN ns_cache : DOMAIN ns_cache'[m] = Scopes
    BY <1>4, <1>6
  <1>8. /\ DOMAIN lists' = Made
        /\ \A m \in Made, sc \in Scopes :
             lists'[m][sc] = IF m = ns /\ sc = scope THEN <<new>> \o l ELSE lists[m][sc]
        /\ \A m \in Made : DOMAIN lists'[m] = Scopes /\ lists'[m] = [sc \in Scopes |-> lists'[m][sc]]
    BY <1>5, <1>6
  <1>9. Hash[name] \notin DOMAIN c
    BY DEF Map
  <1>10. PICK H \in SUBSET {Hash[n] : n \in Names} : c \in [H -> DOMAIN symbol]
    <2>1. c \in Caches
      BY <1>6
    <2> QED
      BY <2>1 DEF Caches
  <1>11. /\ DOMAIN With(c, Hash[name], new) = H \cup {Hash[name]}
         /\ With(c, Hash[name], new)[Hash[name]] = new
         /\ \A h \in H : With(c, Hash[name], new)[h] = c[h]
    <2>1. DOMAIN c = H /\ Hash[name] \notin H
      BY <1>9, <1>10
    <2> QED
      BY <2>1 DEF With
  <1>12. With(c, Hash[name], new) \in Caches'
    <2>1. With(c, Hash[name], new) \in [H \cup {Hash[name]} -> DOMAIN symbol']
      BY <1>2, <1>10, <1>11 DEF With
    <2>2. H \cup {Hash[name]} \in SUBSET {Hash[n] : n \in Names}
      OBVIOUS
    <2> QED
      BY <2>1, <2>2 DEF Caches
  <1>13. ns_cache' \in [DOMAIN ns_cache -> [Scopes -> Caches']]
    <2>1. Caches \subseteq Caches'
      BY <1>2, CachesGrow
    <2>2. \A m \in DOMAIN ns_cache, sc \in Scopes : ns_cache'[m][sc] \in Caches'
      BY <2>1, <1>6, <1>7, <1>12
    <2>3. \A m \in DOMAIN ns_cache : ns_cache'[m] \in [Scopes -> Caches']
      BY <2>2, <1>4, <1>6
    <2> QED
      BY <2>3, <1>4, <1>6
  <1>14. <<new>> \o l \in Seq(DOMAIN symbol')
    <2>1. l \in Seq(DOMAIN symbol')
      BY <1>2, <1>3, <1>6, SeqGrows
    <2> QED
      BY <2>1, <1>2
  <1>15. lists' \in [Made -> [Scopes -> Seq(DOMAIN symbol')]]
    <2>1. \A m \in Made, sc \in Scopes : lists[m][sc] \in Seq(DOMAIN symbol')
      BY <1>2, <1>6, SeqGrows
    <2>2. \A m \in Made, sc \in Scopes : lists'[m][sc] \in Seq(DOMAIN symbol')
      <3> SUFFICES ASSUME NEW m \in Made, NEW sc \in Scopes
                   PROVE  lists'[m][sc] \in Seq(DOMAIN symbol')
        OBVIOUS
      <3>1. CASE m = ns /\ sc = scope
        <4>1. lists'[m][sc] = <<new>> \o l
          BY <3>1, <1>8
        <4> HIDE DEF l
        <4> QED
          BY <4>1, <1>14
      <3>2. CASE ~(m = ns /\ sc = scope)
        <4>1. lists'[m][sc] = lists[m][sc]
          BY <3>2, <1>8
        <4> QED
          BY <4>1, <2>1
      <3> QED
        BY <3>1, <3>2
    <2>3. \A m \in Made : lists'[m] \in [Scopes -> Seq(DOMAIN symbol')]
      BY <2>2, <1>8
    <2> QED
      BY <2>3, <1>5, <1>6
  <1>16. ASSUME NEW m \in Made, NEW sc \in Scopes
         PROVE  Listed(m, sc)' = IF m = ns /\ sc = scope
                                   THEN Listed(m, sc) \cup {new} ELSE Listed(m, sc)
    <2>1. CASE m = ns /\ sc = scope
      <3>1. l \in Seq(DOMAIN symbol)
        BY <1>3, <1>6
      <3> HIDE DEF l
      <3>2. Elements(<<new>> \o l) = Elements(l) \cup {new}
        BY <3>1, PrependElements
      <3>3. lists'[m][sc] = <<new>> \o l /\ lists[m][sc] = l
        BY <2>1, <1>8 DEF l
      <3>4. Listed(m, sc)' = Elements(lists'[m][sc]) /\ Listed(m, sc) = Elements(lists[m][sc])
        BY DEF Listed, Elements
      <3> QED
        BY <2>1, <3>2, <3>3, <3>4
    <2>2. CASE ~(m = ns /\ sc = scope)
      BY <2>2, <1>8 DEF Listed
    <2> QED
      BY <2>1, <2>2
  <1>17. ASSUME NEW m \in Made, NEW sc \in Scopes, NEW n \in Names
         PROVE  Map(m, sc, n)' = IF m = ns /\ sc = scope /\ Hash[n] = Hash[name]
                                   THEN {new} ELSE Map(m, sc, n)
    <2>1. CASE m = ns /\ sc = scope /\ Hash[n] = Hash[name]
      BY <2>1, <1>7, <1>11 DEF Map
    <2>2. CASE m = ns /\ sc = scope /\ Hash[n] # Hash[name]
      <3>1. ns_cache'[m][sc] = With(c, Hash[name], new) /\ ns_cache[m][sc] = c
        BY <2>2, <1>7
      <3>2. DOMAIN c = H
        BY <1>10
      <3>3. Hash[n] \in DOMAIN With(c, Hash[name], new) <=> Hash[n] \in H
        BY <2>2, <1>11
      <3>4. Hash[n] \in H => With(c, Hash[name], new)[Hash[n]] = c[Hash[n]]
        BY <1>11
      <3> HIDE DEF c
      <3> QED
        BY <2>2, <1>7, <3>1, <3>2, <3>3, <3>4 DEF Map
    <2>3. CASE ~(m = ns /\ sc = scope)
      BY <2>3, <1>7 DEF Map
    <2> QED
      BY <2>1, <2>2, <2>3
  <1> QED
    BY <1>2, <1>3, <1>7, <1>13, <1>15, <1>16, <1>17 DEF Created
\* Names with one hash find the same.
LEMMA SameHash ==
    ASSUME NEW ns, NEW scope, NEW m, NEW n, Hash[m] = Hash[n]
    PROVE  Map(ns, scope, m) = Map(ns, scope, n)
  BY DEF Map

\* CacheMatchesLists for one list, in the form the steps use: what is found is
\* listed, and what is listed is found under its name.
Agree(ns, scope) ==
    /\ \A n \in Names : Map(ns, scope, n) \subseteq Listed(ns, scope)
    /\ \A s \in Listed(ns, scope) :
          /\ s \in DOMAIN symbol
          /\ symbol[s].name \in Names
          /\ Map(ns, scope, symbol[s].name) = {s}
          /\ NsDesignator(symbol[s].ns) = ns

\* The two forms are the same.
LEMMA AgreeIs ==
    ASSUME TypeOK
    PROVE  CacheMatchesLists <=> \A ns \in Made, scope \in Scopes : Agree(ns, scope)
  <1>1. ASSUME NEW ns \in Made, NEW scope \in Scopes
        PROVE  \A s \in Listed(ns, scope) : s \in DOMAIN symbol /\ symbol[s].name \in Names
    <2>1. Listed(ns, scope) \subseteq DOMAIN symbol
      BY ListedIs
    <2>2. \A s \in DOMAIN symbol : symbol[s] \in Symbols
      BY DEF TypeOK
    <2> QED
      BY <2>1, <2>2 DEF Symbols
  <1>2. ASSUME CacheMatchesLists, NEW ns \in Made, NEW scope \in Scopes
        PROVE  Agree(ns, scope)
    <2>1. \A n \in Names : Map(ns, scope, n) \subseteq Listed(ns, scope)
      BY <1>2 DEF CacheMatchesLists
    <2> QED
      BY <1>1, <1>2, <2>1 DEF CacheMatchesLists, Agree
  <1>3. ASSUME NEW ns \in Made, NEW scope \in Scopes, Agree(ns, scope)
        PROVE  Listed(ns, scope) = UNION {Map(ns, scope, n) : n \in Names}
    <2>1. \A s \in Listed(ns, scope) : s \in Map(ns, scope, symbol[s].name)
      BY <1>3 DEF Agree
    <2> QED
      BY <1>1, <1>3, <2>1 DEF Agree
  <1> QED
    BY <1>2, <1>3 DEF CacheMatchesLists, Agree

\* And in the next state.
LEMMA AgreeNext ==
    ASSUME \A ns \in Made', scope \in Scopes : Agree(ns, scope)'
    PROVE  CacheMatchesLists'
  <1>1. ASSUME NEW ns \in Made', NEW scope \in Scopes
        PROVE  Listed(ns, scope)' = UNION {Map(ns, scope, n)' : n \in Names}
    <2>1. \A s \in Listed(ns, scope)' : \E n \in Names : s \in Map(ns, scope, n)'
      BY DEF Agree
    <2>2. \A n \in Names : Map(ns, scope, n)' \subseteq Listed(ns, scope)'
      BY DEF Agree
    <2> QED
      BY <2>1, <2>2
  <1> QED
    BY <1>1 DEF CacheMatchesLists, Agree

\* A list keeps agreeing with its cache while both stay, and so do the symbols.
LEMMA AgreeStays ==
    ASSUME NEW ns, NEW scope, Agree(ns, scope),
           Listed(ns, scope)' = Listed(ns, scope),
           \A n \in Names : Map(ns, scope, n)' = Map(ns, scope, n),
           \A s \in DOMAIN symbol :
               /\ s \in DOMAIN symbol'
               /\ symbol'[s].name = symbol[s].name
               /\ symbol'[s].ns = symbol[s].ns
    PROVE  Agree(ns, scope)'
  <1>1. \A s \in Listed(ns, scope) :
           /\ s \in DOMAIN symbol'
           /\ symbol'[s].name = symbol[s].name
           /\ symbol'[s].ns = symbol[s].ns
           /\ symbol[s].name \in Names
    BY DEF Agree
  <1>2. \A s \in Listed(ns, scope) : Map(ns, scope, symbol[s].name)' = {s}
    <2> SUFFICES ASSUME NEW s \in Listed(ns, scope), NEW n \in Names, n = symbol[s].name
                 PROVE  Map(ns, scope, n)' = {s}
      BY <1>1
    <2> QED
      BY DEF Agree
  <1> QED
    BY <1>1, <1>2 DEF Agree

\* A new symbol keeps caches and lists in agreement: no name with its hash had
\* a symbol there.
LEMMA CreateInv ==
    ASSUME IInv, NEW nsd \in Spaces \cup {NIL}, NEW scope \in Scopes,
           NEW name \in Names, NEW value \in Values \cup {Unbound},
           NsDesignator(nsd) \in DOMAIN ns_cache,
           Map(NsDesignator(nsd), scope, name) = {},
           Create(nsd, scope, name, value),
           UNCHANGED <<registry, running>>
    PROVE  IInv'
  <1>a. PICK new, ns : new = Len(symbol) + 1 /\ ns = NsDesignator(nsd)
    OBVIOUS
  <1> DEFINE r == [ns |-> nsd, name |-> name, value |-> value]
  <1>1. TypeOK /\ CacheMatchesLists /\ UNCHANGED registry
    BY DEF IInv
  <1>b. Created(nsd, scope, name, value, ns, new)
    BY <1>a, <1>1, CreateIs
  <1>2. /\ symbol' \in Seq(Symbols)
        /\ DOMAIN symbol' = DOMAIN symbol \cup {new}
        /\ symbol'[new] = r
        /\ \A s \in DOMAIN symbol : symbol'[s] = symbol[s]
        /\ Made' = Made
        /\ DOMAIN ns_cache' = DOMAIN ns_cache
        /\ ns_cache' \in [DOMAIN ns_cache -> [Scopes -> Caches']]
        /\ lists' \in [Made -> [Scopes -> Seq(DOMAIN symbol')]]
    BY <1>b DEF Created
  <1>3. \A m \in Made, sc \in Scopes :
           Listed(m, sc)' = IF m = ns /\ sc = scope
                              THEN Listed(m, sc) \cup {new} ELSE Listed(m, sc)
    BY <1>b DEF Created
  <1>4. \A m \in Made, sc \in Scopes, n \in Names :
           Map(m, sc, n)' = IF m = ns /\ sc = scope /\ Hash[n] = Hash[name]
                              THEN {new} ELSE Map(m, sc, n)
    BY <1>b DEF Created
  <1> HIDE DEF r
  <1>5. TypeOK'
    <2>1. path' = path /\ namespaces' = namespaces /\ read_ns' = read_ns /\ running' = running
      BY DEF registry
    <2>2. /\ path' \in [Made' -> Seq(Made')]
          /\ {Uninterned, Core} \subseteq Made' /\ Made' \subseteq Spaces
          /\ namespaces' \in [DOMAIN namespaces' -> Made' \ {Uninterned}]
      BY <1>1, <1>2, <2>1 DEF TypeOK
    <2>3. /\ \A q \in DOMAIN namespaces' : NameOf[namespaces'[q]] = q
          /\ DOMAIN ns_cache' = {namespaces'[q] : q \in DOMAIN namespaces'} \cup {Uninterned}
          /\ read_ns' \in DOMAIN namespaces'
          /\ running' \in BOOLEAN
      BY <1>1, <1>2, <2>1 DEF TypeOK
    <2>4. /\ ns_cache' \in [DOMAIN ns_cache' -> [Scopes -> Caches']]
          /\ lists' \in [Made' -> [Scopes -> Seq(DOMAIN symbol')]]
      BY <1>2
    <2> QED
      BY <1>2, <2>2, <2>3, <2>4 DEF TypeOK
  <1>6. ASSUME NEW m \in Made, NEW sc \in Scopes
        PROVE  Agree(m, sc)'
    <2>1. Agree(m, sc)
      BY <1>1, AgreeIs
    <2>2. \A s \in Listed(m, sc) : symbol'[s] = symbol[s] /\ s \in DOMAIN symbol'
      BY <1>2, <2>1 DEF Agree
    <2>3. CASE m = ns /\ sc = scope
      <3>1. Listed(m, sc)' = Listed(m, sc) \cup {new}
        BY <2>3, <1>3
      <3>2. \A n \in Names : Hash[n] = Hash[name] => Map(m, sc, n) = {}
        BY <2>3, SameHash, <1>a
      <3>3. \A n \in Names : Map(m, sc, n)' \subseteq Listed(m, sc)'
        BY <1>4, <2>1, <3>1 DEF Agree
      <3>4. \A s \in Listed(m, sc) : Hash[symbol[s].name] # Hash[name]
        BY <2>1, <3>2 DEF Agree
      <3>5. \A s \in Listed(m, sc) : Map(m, sc, symbol[s].name)' = {s}
        <4> SUFFICES ASSUME NEW s \in Listed(m, sc), NEW n \in Names, n = symbol[s].name
                     PROVE  Map(m, sc, n)' = {s}
          BY <2>1, <2>2 DEF Agree
        <4> QED
          BY <1>4, <2>1, <3>4 DEF Agree
      <3>6. Map(m, sc, symbol[new].name)' = {new}
        <4> SUFFICES ASSUME NEW n \in Names, n = symbol'[new].name
                     PROVE  Map(m, sc, n)' = {new}
          BY <1>2 DEF r
        <4>1. n = name
          BY <1>2 DEF r
        <4> QED
          BY <4>1, <1>4, <2>3
      <3>7. NsDesignator(symbol'[new].ns) = m /\ symbol'[new].name = name
        BY <1>2, <2>3, <1>a DEF r
      <3> QED
        BY <1>2, <2>1, <2>2, <3>1, <3>3, <3>5, <3>6, <3>7 DEF Agree
    <2>4. CASE ~(m = ns /\ sc = scope)
      <3>1. Listed(m, sc)' = Listed(m, sc)
        BY <2>4, <1>3
      <3>2. \A n \in Names : Map(m, sc, n)' = Map(m, sc, n)
        BY <2>4, <1>4
      <3> QED
        BY <1>2, <2>1, <3>1, <3>2, AgreeStays
    <2> QED
      BY <2>3, <2>4
  <1>7. CacheMatchesLists'
    BY <1>2, <1>6, AgreeNext
  <1> QED
    BY <1>5, <1>7 DEF IInv
\* A step that leaves the registry, the caches and the lists alone, and keeps
\* the symbols there are, their names and their namespaces.
LEMMA SymbolInv ==
    ASSUME IInv, UNCHANGED <<registry, ns_cache, lists>>,
           running' \in BOOLEAN,
           symbol' \in Seq(Symbols),
           DOMAIN symbol \subseteq DOMAIN symbol',
           \A s \in DOMAIN symbol :
               symbol'[s].name = symbol[s].name /\ symbol'[s].ns = symbol[s].ns
    PROVE  IInv'
  <1>1. TypeOK /\ CacheMatchesLists
    BY DEF IInv
  <1>2. /\ path' = path /\ namespaces' = namespaces /\ read_ns' = read_ns
        /\ ns_cache' = ns_cache /\ lists' = lists
    BY DEF registry
  <1>3. Made' = Made
    BY <1>2 DEF Made
  <1>4. TypeOK'
    <2>1. ns_cache' \in [DOMAIN ns_cache' -> [Scopes -> Caches']]
      <3>1. Caches \subseteq Caches'
        BY CachesGrow
      <3>2. ns_cache \in [DOMAIN ns_cache -> [Scopes -> Caches]]
        BY <1>1 DEF TypeOK
      <3>3. \A m \in DOMAIN ns_cache : ns_cache[m] \in [Scopes -> Caches']
        BY <3>1, <3>2
      <3> QED
        BY <1>2, <3>2, <3>3
    <2>2. lists' \in [Made' -> [Scopes -> Seq(DOMAIN symbol')]]
      <3>1. lists \in [Made -> [Scopes -> Seq(DOMAIN symbol)]]
        BY <1>1 DEF TypeOK
      <3>2. \A m \in Made, sc \in Scopes : lists[m][sc] \in Seq(DOMAIN symbol')
        BY <3>1, SeqGrows
      <3>3. \A m \in Made : lists[m] \in [Scopes -> Seq(DOMAIN symbol')]
        BY <3>1, <3>2
      <3> QED
        BY <1>2, <1>3, <3>1, <3>3
    <2> QED
      BY <1>1, <1>2, <1>3, <2>1, <2>2 DEF TypeOK
  <1>5. ASSUME NEW m \in Made, NEW sc \in Scopes
        PROVE  Agree(m, sc)'
    <2>1. Agree(m, sc)
      BY <1>1, AgreeIs
    <2>2. Listed(m, sc)' = Listed(m, sc)
      BY <1>2 DEF Listed
    <2>3. \A n : Map(m, sc, n)' = Map(m, sc, n)
      BY <1>2 DEF Map
    <2> QED
      BY <2>1, <2>2, <2>3, AgreeStays
  <1> QED
    BY <1>3, <1>4, <1>5, AgreeNext DEF IInv

\* Giving a symbol its value.
LEMMA SetValueIs ==
    ASSUME TypeOK, NEW s \in DOMAIN symbol, NEW value \in Values \cup {Unbound},
           SetValue(s, value)
    PROVE  /\ symbol' \in Seq(Symbols)
           /\ DOMAIN symbol' = DOMAIN symbol
           /\ \A t \in DOMAIN symbol :
                 /\ symbol'[t].name = symbol[t].name
                 /\ symbol'[t].ns = symbol[t].ns
                 /\ symbol'[t].value = IF t = s /\ symbol[s].value = Unbound
                                         THEN value ELSE symbol[t].value
  <1>1. /\ symbol \in Seq(Symbols)
        /\ symbol' = symbol \/ symbol' = [symbol EXCEPT ![s].value = value]
        /\ symbol' = IF symbol[s].value = Unbound
                       THEN [symbol EXCEPT ![s].value = value] ELSE symbol
    BY DEF TypeOK, SetValue
  <1>2. \A t \in DOMAIN symbol : symbol[t] \in Symbols
    BY <1>1
  <1>3. [symbol[s] EXCEPT !.value = value] \in Symbols
    BY <1>2 DEF Symbols
  <1>4. symbol' \in Seq(Symbols) /\ DOMAIN symbol' = DOMAIN symbol
    BY <1>1, <1>3
  <1>5. \A t \in DOMAIN symbol : DOMAIN symbol[t] = {"ns", "name", "value"}
    BY <1>2 DEF Symbols
  <1> QED
    BY <1>1, <1>2, <1>4, <1>5 DEF Symbols

\* Only namespaces that have been made have caches.
LEMMA CachedIsMade == TypeOK => DOMAIN ns_cache \subseteq Made
  <1> SUFFICES ASSUME TypeOK, NEW ns \in DOMAIN ns_cache
               PROVE  ns \in Made
    OBVIOUS
  <1>1. ns = Uninterned \/ \E q \in DOMAIN namespaces : ns = namespaces[q]
    BY DEF TypeOK
  <1>2. \A q \in DOMAIN namespaces : namespaces[q] \in Made
    BY DEF TypeOK
  <1>3. Uninterned \in Made
    BY DEF TypeOK
  <1> QED
    BY <1>1, <1>2, <1>3

\* Interning, whoever asks for it.
LEMMA InternInv ==
    ASSUME IInv, NEW nsd \in Spaces \cup {NIL}, NEW scope \in Scopes,
           NEW name \in Names, NEW value \in Values \cup {Unbound},
           Intern(nsd, scope, name, value)
    PROVE  IInv'
  <1>1. /\ NsDesignator(nsd) \in DOMAIN ns_cache
        /\ UNCHANGED <<registry, running>>
    BY DEF Intern, Answers
  <1>2. CASE /\ Map(NsDesignator(nsd), scope, name) = {}
             /\ Create(nsd, scope, name, value)
    BY <1>1, <1>2, CreateInv
  <1>3. ASSUME NEW s \in Map(NsDesignator(nsd), scope, name), SetValue(s, value)
        PROVE  IInv'
    <2>1. TypeOK /\ NsDesignator(nsd) \in Made
      BY <1>1, CachedIsMade DEF IInv
    <2>2. s \in DOMAIN symbol
      BY <2>1, MapIs
    <2>3. /\ symbol' \in Seq(Symbols)
          /\ DOMAIN symbol \subseteq DOMAIN symbol'
          /\ \A t \in DOMAIN symbol :
                symbol'[t].name = symbol[t].name /\ symbol'[t].ns = symbol[t].ns
      BY <1>3, <2>1, <2>2, SetValueIs
    <2>4. UNCHANGED <<registry, ns_cache, lists>> /\ running' \in BOOLEAN
      BY <1>1, <1>3, <2>1 DEF SetValue, TypeOK
    <2> QED
      BY <2>3, <2>4, SymbolInv
  <1> QED
    BY <1>2, <1>3 DEF Intern
\* A namespace without a cache has no symbols.
LEMMA UncachedEmpty ==
    ASSUME IInv, NEW ns \in Made, ns \notin DOMAIN ns_cache, NEW scope \in Scopes
    PROVE  Listed(ns, scope) = {}
  <1>1. Agree(ns, scope)
    BY AgreeIs DEF IInv
  <1>2. \A name : Map(ns, scope, name) = {}
    BY DEF Map
  <1> QED
    BY <1>1, <1>2 DEF Agree

\* Making a namespace, which has no symbols and no cache.
LEMMA MakeNamespaceInv ==
    ASSUME IInv, NEW ns \in Spaces, NEW import, MakeNamespace(ns, import)
    PROVE  IInv'
  <1> DEFINE walk == <<ns>> \o (IF import = NIL THEN <<>> ELSE path[import])
  <1>1. TypeOK /\ CacheMatchesLists
    BY DEF IInv
  <1>2. /\ ns \notin Made
        /\ import = NIL \/ import \in Made
        /\ path' = With(path, ns, walk)
        /\ lists' = With(lists, ns, [scope \in Scopes |-> <<>>])
        /\ namespaces' = namespaces /\ ns_cache' = ns_cache /\ symbol' = symbol
        /\ read_ns' = read_ns /\ running' = running
    BY DEF MakeNamespace, Designators
  <1> HIDE DEF walk
  <1>3. Made' = Made \cup {ns}
    BY <1>2 DEF Made, With
  <1>4. path' \in [Made' -> Seq(Made')]
    <2>1. path \in [Made -> Seq(Made)] /\ DOMAIN path = Made
      BY <1>1 DEF TypeOK
    <2>2. \A m \in Made : path[m] \in Seq(Made')
      BY <2>1, <1>3, SeqGrows
    <2>3. walk \in Seq(Made')
      <3>1. CASE import = NIL
        BY <3>1, <1>3 DEF walk
      <3>2. CASE import \in Made
        <4>1. path[import] \in Seq(Made') /\ <<>> \in Seq(Made') /\ <<ns>> \in Seq(Made')
          BY <2>2, <3>2, <1>3
        <4>2. (IF import = NIL THEN <<>> ELSE path[import]) \in Seq(Made')
          BY <4>1
        <4> QED
          BY <4>1, <4>2 DEF walk
      <3> QED
        BY <3>1, <3>2, <1>2
    <2> QED
      BY <2>1, <2>2, <2>3, <1>2, <1>3 DEF With
  <1>5. lists' \in [Made' -> [Scopes -> Seq(DOMAIN symbol')]]
    <2>1. lists \in [Made -> [Scopes -> Seq(DOMAIN symbol)]]
      BY <1>1 DEF TypeOK
    <2>2. [scope \in Scopes |-> <<>>] \in [Scopes -> Seq(DOMAIN symbol)]
      OBVIOUS
    <2> QED
      BY <2>1, <2>2, <1>2, <1>3 DEF With
  <1>6. Caches' = Caches
    BY <1>2 DEF Caches
  <1>7. TypeOK'
    <2>1. /\ {Uninterned, Core} \subseteq Made' /\ Made' \subseteq Spaces
          /\ namespaces' \in [DOMAIN namespaces' -> Made' \ {Uninterned}]
      BY <1>1, <1>2, <1>3, NamespaceAssumption DEF TypeOK
    <2>2. ns_cache' \in [DOMAIN ns_cache' -> [Scopes -> Caches']]
      BY <1>1, <1>2, <1>6 DEF TypeOK
    <2>3. symbol' \in Seq(Symbols) /\ running' \in BOOLEAN /\ read_ns' \in DOMAIN namespaces'
      BY <1>1, <1>2 DEF TypeOK
    <2>4. /\ \A q \in DOMAIN namespaces' : NameOf[namespaces'[q]] = q
          /\ DOMAIN ns_cache' = {namespaces'[q] : q \in DOMAIN namespaces'} \cup {Uninterned}
      BY <1>1, <1>2 DEF TypeOK
    <2> QED
      BY <1>4, <1>5, <2>1, <2>2, <2>3, <2>4 DEF TypeOK
  <1>8. ASSUME NEW m \in Made', NEW sc \in Scopes
        PROVE  Agree(m, sc)'
    <2>1. \A n : Map(m, sc, n)' = Map(m, sc, n)
      BY <1>2 DEF Map
    <2>2. CASE m = ns
      <3>1. lists'[m][sc] = <<>>
        BY <2>2, <1>2 DEF With
      <3>2. Listed(m, sc)' = {}
        BY <3>1 DEF Listed
      <3>3. ns \notin DOMAIN ns_cache
        BY <1>1, <1>2, CachedIsMade
      <3>4. \A n \in Names : Map(m, sc, n)' = {}
        BY <2>1, <2>2, <3>3 DEF Map
      <3> QED
        BY <3>2, <3>4 DEF Agree
    <2>3. CASE m # ns
      <3>1. m \in Made
        BY <2>3, <1>3
      <3>2. Agree(m, sc)
        BY <3>1, <1>1, AgreeIs
      <3>3. DOMAIN lists = Made
        BY <1>1 DEF TypeOK
      <3>4. lists'[m] = lists[m]
        BY <2>3, <3>1, <3>3, <1>2 DEF With
      <3>5. Listed(m, sc)' = Listed(m, sc)
        BY <3>4 DEF Listed
      <3> QED
        BY <1>2, <2>1, <3>2, <3>5, AgreeStays
    <2> QED
      BY <2>2, <2>3
  <1> QED
    BY <1>7, <1>8, AgreeNext DEF IInv

\* Registering a namespace gives it a cache: it was not registered under another
\* name, so it had none, and no symbols.
LEMMA EnvNamespaceInv ==
    ASSUME IInv, NEW ns \in Made \ {Uninterned}, EnvNamespace(ns),
           UNCHANGED <<path, lists, symbol, running>>,
           read_ns' \in DOMAIN namespaces'
    PROVE  IInv'
  <1>1. TypeOK /\ CacheMatchesLists
    BY DEF IInv
  <1>2. Made' = Made /\ Caches' = Caches
    BY DEF Made, Caches
  <1>3. CASE NameOf[ns] \in DOMAIN namespaces
    <2>1. namespaces' = namespaces /\ ns_cache' = ns_cache
      BY <1>3 DEF EnvNamespace
    <2>2. TypeOK'
      BY <1>1, <1>2, <2>1 DEF TypeOK
    <2>3. ASSUME NEW m \in Made, NEW sc \in Scopes
          PROVE  /\ Listed(m, sc)' = Listed(m, sc)
                 /\ \A n : Map(m, sc, n)' = Map(m, sc, n)
      BY <2>1 DEF Map, Listed
    <2>4. ASSUME NEW m \in Made, NEW sc \in Scopes
          PROVE  Agree(m, sc)'
      <3>1. Agree(m, sc)
        BY <1>1, AgreeIs
      <3> QED
        BY <2>3, <3>1, AgreeStays
    <2> QED
      BY <1>2, <2>2, <2>4, AgreeNext DEF IInv
  <1>4. CASE NameOf[ns] \notin DOMAIN namespaces
    <2>1. /\ namespaces' = With(namespaces, NameOf[ns], ns)
          /\ ns_cache' = With(ns_cache, ns, Empty)
      BY <1>4 DEF EnvNamespace
    <2>2. ns \notin DOMAIN ns_cache
      BY <1>1, <1>4 DEF TypeOK
    <2>3. TypeOK'
      <3>1. /\ DOMAIN namespaces' = DOMAIN namespaces \cup {NameOf[ns]}
            /\ namespaces'[NameOf[ns]] = ns
            /\ \A q \in DOMAIN namespaces : namespaces'[q] = namespaces[q]
        BY <2>1, <1>4 DEF With
      <3>2. /\ namespaces' \in [DOMAIN namespaces' -> Made \ {Uninterned}]
            /\ \A q \in DOMAIN namespaces' : NameOf[namespaces'[q]] = q
        BY <1>1, <2>1, <3>1 DEF TypeOK, With
      <3>3. DOMAIN ns_cache' = DOMAIN ns_cache \cup {ns}
        BY <2>1 DEF With
      <3>4. DOMAIN ns_cache' = {namespaces'[q] : q \in DOMAIN namespaces'} \cup {Uninterned}
        BY <1>1, <3>1, <3>3 DEF TypeOK
      <3>5. ns_cache' \in [DOMAIN ns_cache' -> [Scopes -> Caches]]
        BY <1>1, <2>1, EmptyIs DEF TypeOK, With
      <3> QED
        BY <1>1, <1>2, <3>2, <3>4, <3>5 DEF TypeOK
    <2>4. ASSUME NEW m \in Made, NEW sc \in Scopes
          PROVE  Agree(m, sc)'
      <3>1. Listed(m, sc)' = Listed(m, sc)
        BY DEF Listed
      <3>2. CASE m = ns
        <4>1. Listed(m, sc)' = {}
          BY <2>2, <3>1, <3>2, UncachedEmpty
        <4>2. ns_cache'[m] = Empty /\ m \in DOMAIN ns_cache'
          BY <2>1, <3>2 DEF With
        <4>3. \A n \in Names : Map(m, sc, n)' = {}
          BY <4>2, EmptyIs DEF Map
        <4> QED
          BY <4>1, <4>3 DEF Agree
      <3>3. CASE m # ns
        <4>1. Agree(m, sc)
          BY <1>1, AgreeIs
        <4>2. /\ m \in DOMAIN ns_cache' <=> m \in DOMAIN ns_cache
              /\ m \in DOMAIN ns_cache => ns_cache'[m] = ns_cache[m]
          BY <2>1, <3>3 DEF With
        <4>3. \A n : Map(m, sc, n)' = Map(m, sc, n)
          BY <4>2 DEF Map
        <4> QED
          BY <3>1, <4>1, <4>3, AgreeStays
      <3> QED
        BY <3>2, <3>3
    <2> QED
      BY <1>2, <2>3, <2>4, AgreeNext DEF IInv
  <1> QED
    BY <1>3, <1>4
\* What the handlers that intern have in common.
Interns ==
    \E nsd \in Spaces \cup {NIL}, scope \in Scopes, name \in Names :
        \E value \in Values \cup {Unbound} : Intern(nsd, scope, name, value)

\* The name of the reader is that of a registered namespace.
LEMMA CurrentIsMade == TypeOK => Current \in Made
  BY DEF TypeOK, Current

\* Every step interns, makes a symbol, or is about namespaces.
LEMMA Steps ==
    ASSUME TypeOK, Next
    PROVE  \/ Interns
           \/ \E name \in Names : UninternedSymbol(name)
           \/ \E ns \in Spaces, import \in Designators : MakeNamespace(ns, import)
           \/ \E ns \in Spaces : Register(ns) \/ InNamespace(ns)
           \/ Die
  <1>1. Made \subseteq Spaces
    BY DEF TypeOK
  <1>2. ASSUME NEW nsd \in Designators, NEW scope \in Scopes, NEW name \in Names,
               NEW value \in Values \cup {Unbound}, InternSymbol(nsd, scope, name, value)
        PROVE  Interns
    <2>1. nsd \in Spaces \cup {NIL}
      BY <1>1 DEF Designators
    <2> QED
      BY <1>2, <2>1 DEF InternSymbol, Interns
  <1>3. ASSUME NEW q \in DOMAIN namespaces, NEW scope \in Scopes, NEW name \in Names,
               ParseSymbol(q, scope, name)
        PROVE  Interns
    <2>1. namespaces[q] \in Spaces \cup {NIL}
      BY <1>1 DEF TypeOK
    <2> QED
      BY <1>3, <2>1 DEF ParseSymbol, Interns
  <1>4. ASSUME NEW name \in Names, ReadSymbol(name)
        PROVE  Interns
    <2>1. "extern" \in Scopes
      BY DEF Scopes
    <2> QED
      BY <1>4, <2>1 DEF ReadSymbol, Interns
  <1>5. ASSUME NEW s \in DOMAIN symbol, NEW value \in Values, DefSymbol(s, value)
        PROVE  Interns
    <2>1. symbol[s].name \in Names
      <3>1. symbol[s] \in Symbols
        BY DEF TypeOK
      <3> QED
        BY <3>1 DEF Symbols
    <2>2. Current \in Spaces \cup {NIL}
      BY <1>1, CurrentIsMade
    <2>3. \E scope \in Scopes : Intern(Current, scope, symbol[s].name, value)
      BY <1>5 DEF DefSymbol, Scopes
    <2> QED
      BY <2>1, <2>2, <2>3 DEF Interns
  <1> QED
    BY <1>2, <1>3, <1>4, <1>5 DEF Next

\* A symbol in no namespace.
LEMMA UninternedSymbolIs ==
    ASSUME TypeOK, NEW name \in Names, UninternedSymbol(name),
           NEW new, new = Len(symbol) + 1
    PROVE  /\ symbol' \in Seq(Symbols)
           /\ DOMAIN symbol' = DOMAIN symbol \cup {new}
           /\ new \notin DOMAIN symbol
           /\ symbol'[new].value = Unbound
           /\ \A s \in DOMAIN symbol : symbol'[s] = symbol[s]
  <1> DEFINE r == [ns |-> NIL, name |-> name, value |-> Unbound]
  <1>1. r \in Symbols /\ symbol' = Append(symbol, r) /\ symbol \in Seq(Symbols)
    BY DEF Symbols, UninternedSymbol, TypeOK
  <1>2. r.value = Unbound
    OBVIOUS
  <1> HIDE DEF r
  <1> QED
    BY <1>1, <1>2, AppendSymbol

\* IInv is inductive.
LEMMA NextInv == IInv /\ [Next]_vars => IInv'
  <1> SUFFICES ASSUME IInv, [Next]_vars
               PROVE  IInv'
    OBVIOUS
  <1>1. TypeOK
    BY DEF IInv
  <1>2. ASSUME Interns
        PROVE  IInv'
    BY <1>2, InternInv DEF Interns
  <1>3. ASSUME NEW name \in Names, UninternedSymbol(name)
        PROVE  IInv'
    <2>1. PICK new : new = Len(symbol) + 1
      OBVIOUS
    <2>2. /\ symbol' \in Seq(Symbols)
          /\ DOMAIN symbol \subseteq DOMAIN symbol'
          /\ \A s \in DOMAIN symbol :
                symbol'[s].name = symbol[s].name /\ symbol'[s].ns = symbol[s].ns
      BY <1>1, <1>3, <2>1, UninternedSymbolIs
    <2>3. UNCHANGED <<registry, ns_cache, lists>> /\ running' \in BOOLEAN
      BY <1>1, <1>3 DEF UninternedSymbol, TypeOK
    <2> QED
      BY <2>2, <2>3, SymbolInv
  <1>4. ASSUME NEW ns \in Spaces, NEW import \in Designators, MakeNamespace(ns, import)
        PROVE  IInv'
    BY <1>4, MakeNamespaceInv
  <1>5. ASSUME NEW ns \in Spaces, Register(ns)
        PROVE  IInv'
    <2>1. EnvNamespace(ns) /\ UNCHANGED <<path, lists, symbol, running>> /\ ns \in Made \ {Uninterned}
      BY <1>5 DEF Register
    <2>2. read_ns' \in DOMAIN namespaces'
      BY <1>1, <1>5 DEF Register, EnvNamespace, TypeOK, With
    <2> QED
      BY <2>1, <2>2, EnvNamespaceInv
  <1>6. ASSUME NEW ns \in Spaces, InNamespace(ns)
        PROVE  IInv'
    <2>1. EnvNamespace(ns) /\ UNCHANGED <<path, lists, symbol, running>> /\ ns \in Made \ {Uninterned}
      BY <1>6 DEF InNamespace
    <2>2. read_ns' \in DOMAIN namespaces'
      BY <1>6 DEF InNamespace, EnvNamespace, With
    <2> QED
      BY <2>1, <2>2, EnvNamespaceInv
  <1>7. ASSUME Die
        PROVE  IInv'
    <2>1. /\ UNCHANGED <<registry, ns_cache, lists>> /\ running' \in BOOLEAN
          /\ symbol' = symbol
      BY <1>7 DEF Die
    <2>2. symbol' \in Seq(Symbols)
      BY <1>1, <2>1 DEF TypeOK
    <2> QED
      BY <2>1, <2>2, SymbolInv
  <1>8. ASSUME UNCHANGED vars
        PROVE  IInv'
    <2>1. /\ UNCHANGED <<registry, ns_cache, lists>>
          /\ symbol' = symbol /\ running' = running
      BY <1>8 DEF vars, registry
    <2>2. symbol' \in Seq(Symbols) /\ running' \in BOOLEAN
      BY <1>1, <2>1 DEF TypeOK
    <2> QED
      BY <2>1, <2>2, SymbolInv
  <1> QED
    BY <1>1, <1>2, <1>3, <1>4, <1>5, <1>6, <1>7, <1>8, Steps

\* The inductive invariant.
LEMMA Invariant == Spec => []IInv
  BY InitInv, NextInv, PTL DEF Spec

\* Type correctness, for any names, hashes, namespaces and values: in
\* particular exactly the registered namespaces and the uninterned one have a
\* cache, and the reader's current name is always registered (read.l:13-30).
THEOREM NamespaceTypeCorrect == Spec => []TypeOK
  BY Invariant, PTL DEF IInv

\* Caches and lists have the same symbols, one for each name and hash, and every
\* symbol knows its namespace (namespace.cc:136-146).
THEOREM CachesMatchLists == Spec => []CacheMatchesLists
  BY Invariant, PTL DEF IInv
-----------------------------------------------------------------------------
(* Namespaces implement SymbolTable.                                       *)

\* The abstract table and the abstract values.
Pairs == UNION {Entries(p[1], p[2]) : p \in Made \X Scopes}
Bindings == [s \in DOMAIN symbol |-> symbol[s].value]

\* What is in the table.
LEMMA PairsAre ==
    ASSUME NEW e
    PROVE  e \in Pairs <=> \E ns \in Made, scope \in Scopes : e \in Entries(ns, scope)
  <1>1. ASSUME NEW ns \in Made, NEW scope \in Scopes, e \in Entries(ns, scope)
        PROVE  e \in Pairs
    <2>1. <<ns, scope>> \in Made \X Scopes
      OBVIOUS
    <2> QED
      BY <1>1, <2>1 DEF Pairs
  <1> QED
    BY <1>1 DEF Pairs

\* The same in the next state.
LEMMA PairsAreNext ==
    ASSUME NEW e
    PROVE  e \in Pairs' <=> \E ns \in Made', scope \in Scopes : e \in Entries(ns, scope)'
  <1>1. ASSUME NEW ns \in Made', NEW scope \in Scopes, e \in Entries(ns, scope)'
        PROVE  e \in Pairs'
    <2>1. <<ns, scope>> \in Made' \X Scopes
      OBVIOUS
    <2> QED
      BY <1>1, <2>1 DEF Pairs
  <1> QED
    BY <1>1 DEF Pairs

\* The entries of a list while it and the names of its symbols stay.
LEMMA EntriesStay ==
    ASSUME NEW ns, NEW scope, Agree(ns, scope),
           Listed(ns, scope)' = Listed(ns, scope),
           \A s \in DOMAIN symbol : symbol'[s].name = symbol[s].name
    PROVE  Entries(ns, scope)' = Entries(ns, scope)
  <1>1. \A s \in Listed(ns, scope) : symbol'[s].name = symbol[s].name
    BY DEF Agree
  <1> QED
    BY <1>1 DEF Entries

\* The table while the lists and the names stay; a new namespace has no symbols.
LEMMA PairsStay ==
    ASSUME IInv, Made \subseteq Made',
           \A ns \in Made, scope \in Scopes : Listed(ns, scope)' = Listed(ns, scope),
           \A ns \in Made' \ Made, scope \in Scopes : Listed(ns, scope)' = {},
           \A s \in DOMAIN symbol : symbol'[s].name = symbol[s].name
    PROVE  Pairs' = Pairs
  <1>1. \A ns \in Made, scope \in Scopes : Agree(ns, scope)
    BY AgreeIs DEF IInv
  <1>2. \A ns \in Made, scope \in Scopes : Entries(ns, scope)' = Entries(ns, scope)
    BY <1>1, EntriesStay
  <1>3. \A ns \in Made' \ Made, scope \in Scopes : Entries(ns, scope)' = {}
    BY DEF Entries
  <1>4. \A e : e \in Pairs' <=> e \in Pairs
    BY <1>2, <1>3, PairsAre, PairsAreNext
  <1> QED
    BY <1>4

\* Create is the abstract Intern.
LEMMA CreateRefines ==
    ASSUME IInv, NEW nsd \in Spaces \cup {NIL}, NEW scope \in Scopes,
           NEW name \in Names, NEW value \in Values \cup {Unbound},
           NsDesignator(nsd) \in DOMAIN ns_cache,
           Map(NsDesignator(nsd), scope, name) = {},
           Create(nsd, scope, name, value),
           UNCHANGED registry
    PROVE  Table!Intern
  <1>a. PICK new, ns : new = Len(symbol) + 1 /\ ns = NsDesignator(nsd)
    OBVIOUS
  <1> DEFINE entry == <<<<ns, scope, name>>, new>>
  <1>1. TypeOK
    BY DEF IInv
  <1>b. Created(nsd, scope, name, value, ns, new)
    BY <1>a, <1>1, CreateIs
  <1>2. /\ DOMAIN symbol' = DOMAIN symbol \cup {new}
        /\ new \notin DOMAIN symbol
        /\ symbol'[new] = [ns |-> nsd, name |-> name, value |-> value]
        /\ \A s \in DOMAIN symbol : symbol'[s] = symbol[s]
        /\ Made' = Made /\ ns \in Made
    BY <1>b DEF Created
  <1>3. \A m \in Made, sc \in Scopes :
           Listed(m, sc)' = IF m = ns /\ sc = scope
                              THEN Listed(m, sc) \cup {new} ELSE Listed(m, sc)
    BY <1>b DEF Created
  <1>4. \A m \in Made, sc \in Scopes : Agree(m, sc)
    BY <1>1, AgreeIs DEF IInv
  <1>5. symbol'[new].name = name /\ symbol'[new].value = value
    BY <1>2
  <1>6. \A m \in Made, sc \in Scopes :
           Entries(m, sc)' = IF m = ns /\ sc = scope
                               THEN Entries(m, sc) \cup {entry} ELSE Entries(m, sc)
    <2> SUFFICES ASSUME NEW m \in Made, NEW sc \in Scopes
                 PROVE  Entries(m, sc)' = IF m = ns /\ sc = scope
                          THEN Entries(m, sc) \cup {entry} ELSE Entries(m, sc)
      OBVIOUS
    <2>1. \A s \in Listed(m, sc) : symbol'[s].name = symbol[s].name
      BY <1>2, <1>4 DEF Agree
    <2>2. CASE m = ns /\ sc = scope
      BY <1>3, <1>5, <2>1, <2>2 DEF Entries
    <2>3. CASE ~(m = ns /\ sc = scope)
      BY <1>3, <2>1, <2>3 DEF Entries
    <2> QED
      BY <2>2, <2>3
  <1>7. Pairs' = Pairs \cup {entry}
    <2>1. \A e : e \in Pairs' <=> e \in Pairs \/ e = entry
      BY <1>2, <1>6, PairsAre, PairsAreNext
    <2> QED
      BY <2>1
  <1>8. \A other \in Pairs : other[1] # entry[1] /\ other[2] \in DOMAIN symbol
    <2> SUFFICES ASSUME NEW m \in Made, NEW sc \in Scopes, NEW s \in Listed(m, sc)
                 PROVE  /\ <<m, sc, symbol[s].name>> # <<ns, scope, name>>
                        /\ s \in DOMAIN symbol
      BY PairsAre DEF Entries
    <2>1. Map(m, sc, symbol[s].name) = {s} /\ s \in DOMAIN symbol
      BY <1>4 DEF Agree
    <2>2. Map(ns, scope, name) = {}
      BY <1>a
    <2> QED
      BY <2>1, <2>2
  <1>9. entry \in Pairs' \ Pairs
    BY <1>7, <1>8
  <1>10. Table!NewSymbol(entry[2], Values \cup {Unbound})
    <2>1. Bindings' = [t \in DOMAIN Bindings \cup {new} |-> IF t = new THEN value ELSE Bindings[t]]
      BY <1>2, <1>5 DEF Bindings
    <2>2. new \notin DOMAIN Bindings
      BY <1>2 DEF Bindings
    <2> QED
      BY <2>1, <2>2 DEF Table!NewSymbol, Bindings
  <1> HIDE DEF entry
  <1> QED
    BY <1>7, <1>8, <1>9, <1>10 DEF Table!Intern, Pairs

\* SetValue is the abstract Bind, or does nothing.
LEMMA SetValueRefines ==
    ASSUME IInv, NEW ns \in Made, NEW scope \in Scopes, NEW name \in Names,
           NEW value \in Values \cup {Unbound}, NEW s \in Map(ns, scope, name),
           SetValue(s, value), UNCHANGED registry
    PROVE  Table!Bind \/ UNCHANGED <<Pairs, Bindings>>
  <1>1. TypeOK
    BY DEF IInv
  <1>2. s \in DOMAIN symbol
    BY <1>1, MapIs
  <1>3. /\ DOMAIN symbol' = DOMAIN symbol
        /\ \A t \in DOMAIN symbol :
              /\ symbol'[t].name = symbol[t].name
              /\ symbol'[t].value = IF t = s /\ symbol[s].value = Unbound
                                      THEN value ELSE symbol[t].value
    BY <1>1, <1>2, SetValueIs
  <1>4. Pairs' = Pairs
    <2>1. Made' = Made
      BY DEF registry, Made
    <2>2. \A m \in Made, sc \in Scopes : Listed(m, sc)' = Listed(m, sc)
      BY DEF SetValue, Listed
    <2> QED
      BY <1>3, <2>1, <2>2, PairsStay
  <1>5. CASE symbol[s].value = Unbound /\ value # Unbound
    <2> DEFINE entry == <<<<ns, scope, symbol[s].name>>, s>>
    <2>1. s \in Listed(ns, scope)
      BY <1>1, AgreeIs DEF IInv, Agree
    <2>2. entry \in Entries(ns, scope)
      BY <2>1 DEF Entries
    <2>3. entry \in Pairs
      BY <2>2, PairsAre
    <2>4. Bindings[entry[2]] = Unbound
      BY <1>2, <1>5 DEF Bindings
    <2>5. Bindings' = [Bindings EXCEPT ![entry[2]] = value]
      BY <1>2, <1>3, <1>5 DEF Bindings
    <2>6. value \in Values
      BY <1>5
    <2> HIDE DEF entry
    <2> QED
      BY <1>4, <2>3, <2>4, <2>5, <2>6 DEF Table!Bind, Pairs, Bindings
  <1>6. CASE ~(symbol[s].value = Unbound /\ value # Unbound)
    <2>1. \A t \in DOMAIN symbol : symbol'[t].value = symbol[t].value
      BY <1>3, <1>6
    <2>2. Bindings' = Bindings
      BY <1>3, <2>1 DEF Bindings
    <2> QED
      BY <1>4, <2>2
  <1> QED
    BY <1>5, <1>6
\* An uninterned symbol is the abstract Make.
LEMMA MakeRefines ==
    ASSUME IInv, NEW name \in Names, UninternedSymbol(name)
    PROVE  Table!Make
  <1>1. PICK new : new = Len(symbol) + 1
    OBVIOUS
  <1>2. TypeOK
    BY DEF IInv
  <1>3. /\ DOMAIN symbol' = DOMAIN symbol \cup {new}
        /\ new \notin DOMAIN symbol
        /\ symbol'[new].value = Unbound
        /\ \A s \in DOMAIN symbol : symbol'[s] = symbol[s]
    BY <1>1, <1>2, UninternedSymbolIs
  <1>4. Pairs' = Pairs
    <2>1. path' = path /\ lists' = lists
      BY DEF UninternedSymbol, registry
    <2>2. Made' = Made
      BY <2>1 DEF Made
    <2>3. \A m \in Made, sc \in Scopes : Listed(m, sc)' = Listed(m, sc)
      BY <2>1 DEF Listed
    <2> QED
      BY <1>3, <2>2, <2>3, PairsStay
  <1>5. /\ Bindings' = [t \in DOMAIN Bindings \cup {new} |-> IF t = new THEN Unbound ELSE Bindings[t]]
        /\ new \notin DOMAIN Bindings /\ new \in DOMAIN Bindings'
    BY <1>3 DEF Bindings
  <1>6. Table!NewSymbol(new, {Unbound}) /\ new \in DOMAIN Bindings'
    BY <1>5 DEF Table!NewSymbol, Bindings
  <1> QED
    BY <1>4, <1>6 DEF Table!Make, Pairs, Bindings

\* Interning is an abstract step or changes nothing.
LEMMA InternRefines ==
    ASSUME IInv, Interns
    PROVE  Table!Intern \/ Table!Bind \/ UNCHANGED <<Pairs, Bindings>>
  <1>1. PICK nsd \in Spaces \cup {NIL}, scope \in Scopes, name \in Names :
          \E value \in Values \cup {Unbound} : Intern(nsd, scope, name, value)
    BY DEF Interns
  <1>2. PICK value \in Values \cup {Unbound} : Intern(nsd, scope, name, value)
    BY <1>1
  <1>3. /\ NsDesignator(nsd) \in DOMAIN ns_cache
        /\ UNCHANGED registry
    BY <1>2 DEF Intern, Answers
  <1>4. NsDesignator(nsd) \in Made
    BY <1>3, CachedIsMade DEF IInv
  <1>5. CASE /\ Map(NsDesignator(nsd), scope, name) = {}
             /\ Create(nsd, scope, name, value)
    BY <1>3, <1>5, CreateRefines
  <1>6. ASSUME NEW s \in Map(NsDesignator(nsd), scope, name), SetValue(s, value)
        PROVE  Table!Bind \/ UNCHANGED <<Pairs, Bindings>>
    <2>1. PICK ns \in Made : ns = NsDesignator(nsd)
      BY <1>4
    <2>2. s \in Map(ns, scope, name)
      BY <2>1
    <2> QED
      BY <1>3, <1>6, <2>2, SetValueRefines
  <1> QED
    BY <1>2, <1>5, <1>6 DEF Intern

\* Making and registering namespaces changes nothing in the abstract table.
LEMMA RegistryRefines ==
    ASSUME IInv, UNCHANGED symbol,
           \/ \E ns \in Spaces, import \in Designators : MakeNamespace(ns, import)
           \/ UNCHANGED <<path, lists>>
    PROVE  UNCHANGED <<Pairs, Bindings>>
  <1>1. Bindings' = Bindings
    BY DEF Bindings
  <1>2. CASE UNCHANGED <<path, lists>>
    <2>1. Made' = Made
      BY <1>2 DEF Made
    <2>2. \A m \in Made, sc \in Scopes : Listed(m, sc)' = Listed(m, sc)
      BY <1>2 DEF Listed
    <2> QED
      BY <1>1, <2>1, <2>2, PairsStay
  <1>3. ASSUME NEW ns \in Spaces, NEW import \in Designators, MakeNamespace(ns, import)
        PROVE  UNCHANGED <<Pairs, Bindings>>
    <2>1. /\ ns \notin Made /\ Made' = Made \cup {ns}
          /\ lists' = With(lists, ns, [scope \in Scopes |-> <<>>])
          /\ DOMAIN lists = Made
      BY <1>3 DEF MakeNamespace, With, Made, IInv, TypeOK
    <2>2. \A m \in Made : lists'[m] = lists[m]
      BY <2>1 DEF With
    <2>3. \A m \in Made, sc \in Scopes : Listed(m, sc)' = Listed(m, sc)
      BY <2>2 DEF Listed
    <2>4. \A sc \in Scopes : lists'[ns][sc] = <<>>
      BY <2>1 DEF With
    <2>5. \A sc \in Scopes : Listed(ns, sc)' = {}
      BY <2>4 DEF Listed
    <2> QED
      BY <1>1, <2>1, <2>3, <2>5, PairsStay
  <1> QED
    BY <1>2, <1>3

\* Namespaces with their lists, caches and hashes implement a table of symbols
\* in which a place keeps its symbol and a symbol its value (namespace.cc:129-157).
THEOREM NamespacesImplementTable == Spec => ImplementsSymbolTable
  <1>1. Init => Table!Init
    <2> SUFFICES ASSUME Init PROVE Table!Init
      OBVIOUS
    <2>1. IInv /\ DOMAIN symbol = {}
      BY InitInv DEF Init
    <2>2. \A ns \in Made, scope \in Scopes : Listed(ns, scope) = {}
      BY <2>1, ListedIs DEF IInv
    <2>3. Pairs = {}
      BY <2>2, PairsAre DEF Entries
    <2>4. DOMAIN Bindings = {}
      BY <2>1 DEF Bindings
    <2> QED
      BY <2>3, <2>4 DEF Table!Init, Pairs, Bindings
  <1>2. IInv /\ [Next]_vars => [Table!Next]_(Table!vars)
    <2> SUFFICES ASSUME IInv, [Next]_vars
                 PROVE  \/ Table!Intern \/ Table!Bind \/ Table!Make
                        \/ UNCHANGED <<Pairs, Bindings>>
      BY DEF Table!Next, Table!vars, Pairs, Bindings
    <2>1. CASE Interns
      BY <2>1, InternRefines
    <2>2. ASSUME NEW name \in Names, UninternedSymbol(name)
          PROVE  Table!Make
      BY <2>2, MakeRefines
    <2>3. CASE \E ns \in Spaces, import \in Designators : MakeNamespace(ns, import)
      <3>1. UNCHANGED symbol
        BY <2>3 DEF MakeNamespace
      <3> QED
        BY <2>3, <3>1, RegistryRefines
    <2>4. CASE \/ \E ns \in Spaces : Register(ns) \/ InNamespace(ns)
               \/ Die \/ UNCHANGED vars
      <3>1. UNCHANGED symbol /\ UNCHANGED <<path, lists>>
        BY <2>4 DEF Register, InNamespace, Die, vars, registry
      <3> QED
        BY <3>1, RegistryRefines
    <2> QED
      BY <2>1, <2>2, <2>3, <2>4, Steps DEF IInv
  <1> QED
    BY <1>1, <1>2, Invariant, PTL DEF Spec, ImplementsSymbolTable, Table!Spec

-----------------------------------------------------------------------------
(* What is printed reads back.                                             *)

\* A namespace with symbols is the one registered under its name: the caches,
\* which are keyed by namespaces, know nothing of the names.
LEMMA RegisteredHome ==
    ASSUME TypeOK, NEW ns \in Made \ {Uninterned}, ns \in DOMAIN ns_cache
    PROVE  NameOf[ns] \in DOMAIN namespaces /\ namespaces[NameOf[ns]] = ns
  BY DEF TypeOK

\* Whatever has been made, registered, interned and defined, a symbol that is
\* printed with its namespace reads back as itself (symbol.cc:135, symbol.cc:171):
\* the consequence of CacheMatchesLists and of the registry's types, but for the
\* names that are both extern and intern in one namespace.
THEOREM PrintedReadsBack == Spec => []ReadsBack
  <1>1. IInv => ReadsBack
    <2> SUFFICES ASSUME IInv, NEW ns \in Made \ {Uninterned}, NEW scope \in Scopes,
                        NEW s \in Listed(ns, scope)
                 PROVE  LET name == symbol[s].name
                            twin == \A sc \in Scopes : Map(ns, sc, name) # {}
                        IN  /\ NameOf[ns] \in DOMAIN namespaces
                            /\ ~twin => Parse(NameOf[ns], Write(s), name) = {s}
      BY DEF ReadsBack
    <2> DEFINE name == symbol[s].name
    <2>1. TypeOK /\ Agree(ns, scope)
      BY AgreeIs DEF IInv
    <2>2. Map(ns, scope, name) = {s} /\ NsDesignator(symbol[s].ns) = ns
      BY <2>1 DEF Agree
    <2>3. ns \in DOMAIN ns_cache
      BY <2>2 DEF Map
    <2>4. NameOf[ns] \in DOMAIN namespaces /\ namespaces[NameOf[ns]] = ns
      BY <2>1, <2>3, RegisteredHome
    <2>5. symbol[s].ns = ns
      BY <2>2 DEF NsDesignator
    <2>6. ASSUME ~ (\A sc \in Scopes : Map(ns, sc, name) # {})
          PROVE  Write(s) = scope
      <3> HIDE DEF name
      <3>1. CASE scope = "extern"
        BY <2>2, <2>5, <3>1 DEF Write, name
      <3>2. CASE scope = "intern"
        <4>1. Map(ns, "extern", name) = {}
          BY <2>2, <2>6, <3>2 DEF Scopes
        <4> QED
          BY <2>5, <3>2, <4>1 DEF Write, name
      <3> QED
        BY <3>1, <3>2 DEF Scopes
    <2> QED
      BY <2>2, <2>4, <2>6 DEF Parse
  <1> QED
    BY <1>1, Invariant, PTL

-----------------------------------------------------------------------------
(* A definition takes effect.                                              *)

\* The walk for an unqualified name begins at the namespace itself.
PathInv ==
    \A ns \in Made : 1 \in DOMAIN path[ns] /\ path[ns][1] = ns

\* The two namespaces of the start import nothing.
LEMMA PathInit == Init => PathInv
  BY DEF Init, PathInv, Made

\* A namespace is put in front of what it imports, and no path ever changes.
LEMMA PathStep == IInv /\ PathInv /\ [Next]_vars => PathInv'
  <1> SUFFICES ASSUME IInv, PathInv, [Next]_vars PROVE PathInv'
    OBVIOUS
  <1>1. TypeOK
    BY DEF IInv
  <1>2. CASE path' = path
    BY <1>2 DEF PathInv, Made
  <1>3. ASSUME NEW ns \in Spaces, NEW import \in Designators, MakeNamespace(ns, import)
        PROVE  PathInv'
    <2> DEFINE rest == IF import = NIL THEN <<>> ELSE path[import]
               walk == <<ns>> \o rest
    <2>1. path' = With(path, ns, walk) /\ ns \notin Made /\ (import = NIL \/ import \in Made)
      BY <1>3 DEF MakeNamespace, Designators
    <2>2. rest \in Seq(Made)
      <3>1. CASE import = NIL
        BY <3>1
      <3>2. CASE import # NIL
        BY <1>1, <2>1, <3>2 DEF TypeOK
      <3> QED
        BY <3>1, <3>2
    <2> HIDE DEF rest
    <2>3. 1 \in DOMAIN walk /\ walk[1] = ns
      BY <2>2
    <2> HIDE DEF walk
    <2>4. Made' = Made \cup {ns} /\ path'[ns] = walk /\ \A m \in Made : path'[m] = path[m]
      BY <2>1 DEF With, Made
    <2> QED
      BY <2>3, <2>4 DEF PathInv
  <1>4. CASE \E name \in Names : UninternedSymbol(name)
    BY <1>2, <1>4 DEF UninternedSymbol, registry
  <1>5. CASE Interns
    BY <1>2, <1>5 DEF Interns, Intern, registry
  <1>6. CASE \/ \E ns \in Spaces : Register(ns) \/ InNamespace(ns)
             \/ Die \/ UNCHANGED vars
    BY <1>2, <1>6 DEF Register, InNamespace, Die, registry, vars
  <1> QED
    BY <1>1, <1>3, <1>4, <1>5, <1>6, Steps

\* Intern leaves the name with one symbol, which is listed and has the value it
\* was given, or had one before.
LEMMA InternFinds ==
    ASSUME IInv, NEW ns \in Made, NEW scope \in Scopes, NEW name \in Names,
           NEW value \in Values, ns # NIL, Intern(ns, scope, name, value)
    PROVE  \E t \in Map(ns, scope, name)' :
              /\ t \in Listed(ns, scope)'
              /\ symbol'[t].value = value \/ (t \in DOMAIN symbol /\ IsBound(t))
  <1>1. /\ TypeOK /\ ns \in Spaces /\ NsDesignator(ns) = ns
        /\ ns \in DOMAIN ns_cache /\ UNCHANGED registry
        /\ value \in Values \cup {Unbound}
    BY DEF IInv, TypeOK, NsDesignator, Intern, Answers
  <1>2. CASE Map(ns, scope, name) = {} /\ Create(ns, scope, name, value)
    <2>1. PICK new : new = Len(symbol) + 1
      OBVIOUS
    <2>2. Created(ns, scope, name, value, ns, new)
      BY <1>1, <1>2, <2>1, CreateIs
    <2>3. Listed(ns, scope)' = Listed(ns, scope) \cup {new}
      BY <2>2 DEF Created
    <2>4. Map(ns, scope, name)' = {new}
      BY <2>2 DEF Created
    <2>5. symbol'[new].value = value
      BY <2>2 DEF Created
    <2> QED
      BY <2>3, <2>4, <2>5
  <1>3. ASSUME NEW t \in Map(ns, scope, name), SetValue(t, value)
        PROVE  \E u \in Map(ns, scope, name)' :
                  /\ u \in Listed(ns, scope)'
                  /\ symbol'[u].value = value \/ (u \in DOMAIN symbol /\ IsBound(u))
    <2>1. Map(ns, scope, name)' = Map(ns, scope, name)
      BY <1>3 DEF SetValue, Map
    <2>2. Listed(ns, scope)' = Listed(ns, scope)
      BY <1>3 DEF SetValue, Listed
    <2>3. t \in Listed(ns, scope) /\ t \in DOMAIN symbol
      BY <1>1, AgreeIs, MapIs DEF IInv, Agree
    <2>4. symbol'[t].value = value \/ IsBound(t)
      BY <1>1, <1>3, <2>3, SetValueIs DEF IsBound
    <2> QED
      BY <2>1, <2>2, <2>3, <2>4
  <1> QED
    BY <1>1, <1>2, <1>3 DEF Intern

\* A definition is interned in the current namespace, in the externs when the
\* symbol was one or was in no namespace.
LEMMA DefInterns ==
    ASSUME IInv, NEW s \in DOMAIN symbol, NEW value \in Values, DefSymbol(s, value),
           symbol[s].ns = NIL \/ s \in Listed(NsDesignator(symbol[s].ns), "extern")
    PROVE  Intern(Current, "extern", symbol[s].name, value)
  <1>1. CASE symbol[s].ns = NIL
    BY <1>1 DEF DefSymbol
  <1>2. CASE symbol[s].ns # NIL
    <2> DEFINE home == symbol[s].ns
    <2>1. s \in Listed(home, "extern") /\ home \in DOMAIN ns_cache
      BY <1>2 DEF NsDesignator, DefSymbol, Answers
    <2>2. home \in Made /\ "extern" \in Scopes
      BY <2>1, CachedIsMade DEF IInv, Scopes
    <2>3. Agree(home, "extern")
      BY <2>2, AgreeIs DEF IInv
    <2>4. Map(home, "extern", symbol[s].name) # {}
      BY <2>1, <2>3 DEF Agree
    <2> QED
      BY <1>2, <2>4 DEF DefSymbol
  <1> QED
    BY <1>1, <1>2

\* What a step interns in the externs of the current namespace is what its name
\* stands for then: the walk asks there first.
LEMMA CurrentResolvesFirst ==
    ASSUME 1 \in DOMAIN path'[Current'], path'[Current'][1] = Current',
           NEW name, NEW t \in Map(Current, "extern", name)'
    PROVE  t \in Resolve(name)'
  <1>1. 1 \in Walked(name)' /\ t \in Externs(1, name)'
    BY DEF Walked, Externs, Map
  <1> QED
    BY <1>1 DEF Resolve

\* Interning renames no symbol.
LEMMA InternNames ==
    ASSUME TypeOK, NEW nsd \in Spaces \cup {NIL}, NEW scope \in Scopes,
           NEW name \in Names, NEW value \in Values \cup {Unbound},
           Intern(nsd, scope, name, value), NEW s \in DOMAIN symbol
    PROVE  symbol'[s].name = symbol[s].name
  <1>1. NsDesignator(nsd) \in DOMAIN ns_cache /\ UNCHANGED registry
    BY DEF Intern, Answers
  <1>2. CASE /\ Map(NsDesignator(nsd), scope, name) = {}
             /\ Create(nsd, scope, name, value)
    <2>1. PICK new, ns : new = Len(symbol) + 1 /\ ns = NsDesignator(nsd)
      OBVIOUS
    <2>2. Created(nsd, scope, name, value, ns, new)
      BY <1>1, <1>2, <2>1, CreateIs
    <2> QED
      BY <2>2 DEF Created
  <1>3. ASSUME NEW t \in Map(NsDesignator(nsd), scope, name), SetValue(t, value)
        PROVE  symbol'[s].name = symbol[s].name
    <2>1. NsDesignator(nsd) \in Made
      BY <1>1, CachedIsMade
    <2>2. t \in DOMAIN symbol
      BY <2>1, MapIs
    <2> QED
      BY <1>3, <2>2, SetValueIs
  <1> QED
    BY <1>2, <1>3 DEF Intern

\* After defconst, defun or defmacro of an extern or uninterned symbol its
\* unqualified name stands for a symbol of the current namespace with the value
\* of the definition, or with the one it had there (compile.l:64-91,
\* read.l:158-169), whatever the namespace imports.
THEOREM DefinitionsResolve == Spec => DefinitionResolves
  <1> DEFINE Resolves ==
        \A s \in DOMAIN symbol, value \in Values :
          LET name == symbol[s].name
              home == NsDesignator(symbol[s].ns)
          IN  (symbol[s].ns = NIL \/ s \in Listed(home, "extern")) /\ DefSymbol(s, value)
                => \E t \in Resolve(name)' :
                      /\ t \in Listed(Current, "extern")'
                      /\ symbol'[t].value = value
                         \/ (t \in DOMAIN symbol /\ IsBound(t))
  <1>1. IInv /\ PathInv /\ [Next]_vars => [Resolves]_vars
    <2> SUFFICES ASSUME IInv, PathInv, NEW s \in DOMAIN symbol, NEW value \in Values,
                        symbol[s].ns = NIL
                          \/ s \in Listed(NsDesignator(symbol[s].ns), "extern"),
                        DefSymbol(s, value)
                 PROVE  \E t \in Resolve(symbol[s].name)' :
                          /\ t \in Listed(Current, "extern")'
                          /\ symbol'[t].value = value
                             \/ (t \in DOMAIN symbol /\ IsBound(t))
      OBVIOUS
    <2>1. TypeOK /\ "extern" \in Scopes
      BY DEF IInv, Scopes
    <2>2. symbol[s].name \in Names
      <3>1. symbol[s] \in Symbols
        BY <2>1 DEF TypeOK
      <3> QED
        BY <3>1 DEF Symbols
    <2>3. PICK n \in Names : n = symbol[s].name
      BY <2>2
    <2>4. PICK c \in Made : c = Current
      BY <2>1, CurrentIsMade
    <2>5. Intern(c, "extern", n, value) /\ c \in Spaces \cup {NIL} /\ c # NIL
      BY <2>1, <2>3, <2>4, DefInterns, NamespaceAssumption DEF TypeOK
    <2>6. path' = path /\ Current' = c
      BY <2>4, <2>5 DEF Intern, registry, Current
    <2>7. PICK t \in Map(c, "extern", n)' :
             /\ t \in Listed(c, "extern")'
             /\ symbol'[t].value = value \/ (t \in DOMAIN symbol /\ IsBound(t))
      BY <2>1, <2>5, InternFinds
    <2>8. t \in Map(Current, "extern", n)' /\ t \in Listed(Current, "extern")'
      BY <2>6, <2>7 DEF Map, Listed
    <2>9. t \in Resolve(n)'
      <3>1. 1 \in DOMAIN path'[Current'] /\ path'[Current'][1] = Current'
        BY <2>6 DEF PathInv
      <3> QED
        BY <2>8, <3>1, CurrentResolvesFirst
    <2>10. symbol'[s].name = n
      BY <2>1, <2>3, <2>5, InternNames
    <2>11. Resolve(symbol[s].name)' = Resolve(n)'
      BY <2>10 DEF Resolve, Walked, Externs, Map
    <2> QED
      BY <2>7, <2>8, <2>9, <2>11
  <1>2. [][Resolves]_vars => DefinitionResolves
    BY DEF DefinitionResolves, Resolves
  <1> HIDE DEF Resolves
  <1>3. Spec => [](IInv /\ PathInv)
    BY Invariant, PathInit, PathStep, PTL DEF Spec
  <1> QED
    BY <1>1, <1>2, <1>3, PTL DEF Spec

====
