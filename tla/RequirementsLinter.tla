------------------------- MODULE RequirementsLinter -------------------------
(***************************************************************************)
(* One run of requirements_linter: the sources of a module are read file   *)
(* by file into an index (core/ast_specs.py), every layer of the contract  *)
(* is compared with the index (core/comparator.py), and what the contract  *)
(* does not list is reported.                                              *)
(*                                                                         *)
(* The code and the contract are inputs.  A contract is what load_spec     *)
(* returns: shorthand keys expanded and paths normalized.  The four layers *)
(* are represented by entrypoints, the one with routes, and domain.        *)
(***************************************************************************)
EXTENDS Naturals, Sequences, FiniteSets

CONSTANTS
  DomainFiles, EntrypointFiles, OtherFiles, \* files, numbered in sorted order
  Classes, Methods, Functions, \* names in the code and in the contract
  Private,     \* the names among them that start with an underscore
  Reserved,    \* a sentinel key used as the name of a class in a contract
  Routes,      \* method and full path of a route
  NoRoute,     \* in the code no route decorator, in a contract an empty field
  Params,      \* names of the parameters of a handler
  MaxFiles,    \* bound of the model: files of the module
  MaxDefs,     \* bound of the model: definitions in the module
  MaxEntries,  \* bound of the model: entries of the contract
  MaxSymbols   \* bound of the model: definitions and entries together

Files == DomainFiles \cup EntrypointFiles \cup OtherFiles
Layers == {"domain", "entrypoints"}

ASSUME LinterAssumption ==
  /\ Files \subseteq Nat
  /\ DomainFiles \cap EntrypointFiles = {}
  /\ OtherFiles \cap (DomainFiles \cup EntrypointFiles) = {}
  /\ Reserved \notin Classes
  /\ NoRoute \notin Routes
  /\ {MaxFiles, MaxDefs, MaxEntries, MaxSymbols} \subseteq Nat

LayerOf(f) ==
  IF f \in EntrypointFiles THEN "entrypoints"
  ELSE IF f \in DomainFiles THEN "domain" ELSE "none"

Public(names) == names \ Private

-----------------------------------------------------------------------------
(* The inputs.  Classes, nested ones included, and top-level functions,    *)
(* which are handlers when a route decorator with literal strings is on    *)
(* them.  Parameters map a name to whether it is required, "default" when  *)
(* the contract does not say; kind and type hint are left out.             *)

ParamsSaying(answers) == UNION {[P -> answers] : P \in SUBSET Params}

ClassDefs == [file : Files, name : Classes, methods : SUBSET Methods]
FunctionDefs ==
  [file : Files, name : Functions, route : {NoRoute}, params : {<<>>}]
    \cup [file : Files, name : Functions, route : Routes, params : ParamsSaying({"yes", "no"})]

RequiredClasses == [layer : Layers, name : Classes, methods : SUBSET Methods]
                     \cup [layer : Layers, name : {Reserved}, methods : {{}}]
RequiredFunctions == [layer : Layers, file : Files, functions : SUBSET Functions]
RequiredEndpoints == [layer : Layers, route : Routes \cup {NoRoute}, name : Functions,
                      params : ParamsSaying({"yes", "no", "default"})]

Elements(s) == {s[i] : i \in DOMAIN s}

VARIABLES
  sourceFiles, classDefs, functionDefs,          \* input: the sources of the module
  listed, classReqs, functionReqs, endpointReqs, \* input: the contract
  read,      \* files parsed so far
  layers,    \* index: layers that have an entry
  methods,   \* index: <<layer, class>> to public methods
  functions, \* index: file to public functions, for files that have some
  routes,    \* index: positions in functionDefs of the routes found
  pending,   \* layers of the contract still to be compared
  errors, warnings,
  pc         \* "read", "compare", "done", "quiet" (done, extras suppressed)

code == <<sourceFiles, classDefs, functionDefs>>
contract == <<listed, classReqs, functionReqs, endpointReqs>>
index == <<layers, methods, functions, routes>>
linterVars == <<code, contract, read, index, pending, errors, warnings, pc>>

\* Sources with d classes and h functions; every definition stands in a file,
\* and the functions are numbered in the order in which the files are read.
SourcesOfSize(d, h) ==
  /\ \E s \in [1..d -> ClassDefs] : classDefs = Elements(s)
  /\ functionDefs \in [1..h -> FunctionDefs]
  /\ \A i, j \in 1..h : i < j => functionDefs[i].file <= functionDefs[j].file
  /\ sourceFiles \in {F \in SUBSET Files : Cardinality(F) <= MaxFiles}
  /\ \A x \in classDefs \cup Elements(functionDefs) : x.file \in sourceFiles

\* A contract with n classes, m files and k routes; the layer of each is listed.
ContractOfSize(n, m, k) ==
  /\ classReqs \in [1..n -> RequiredClasses]
  /\ functionReqs \in [1..m -> RequiredFunctions]
  /\ \E s \in [1..k -> RequiredEndpoints] : endpointReqs = Elements(s)
  /\ listed \in SUBSET Layers
  /\ \A x \in Elements(classReqs) \cup Elements(functionReqs) \cup endpointReqs :
       x.layer \in listed

Inputs ==
  \E d, h \in 0..MaxDefs, n, m, k \in 0..MaxEntries :
    /\ d + h <= MaxDefs
    /\ n + m + k <= MaxEntries
    /\ d + h + n + m + k <= MaxSymbols
    /\ SourcesOfSize(d, h)
    /\ ContractOfSize(n, m, k)

LinterInit ==
  /\ Inputs
  /\ read = {} /\ layers = {} /\ methods = <<>> /\ functions = <<>> /\ routes = {}
  /\ pending = listed /\ errors = {} /\ warnings = {}
  /\ pc = "read"

-----------------------------------------------------------------------------
(* core/ast_specs.py: build_code_artifacts *)

ClassesOf(f) == {c \in classDefs : c.file = f}
PublicFunctionsOf(f) == Public({h.name : h \in {x \in Elements(functionDefs) : x.file = f}})
RoutesOf(f) == {i \in DOMAIN functionDefs :
                  /\ functionDefs[i].file = f
                  /\ functionDefs[i].route # NoRoute
                  /\ functionDefs[i].name \notin Private}

\* Classes of one name in one layer share an entry, private ones included.
Merged(f) ==
  LET new == {<<LayerOf(f), c.name>> : c \in ClassesOf(f)}
  IN  [key \in DOMAIN methods \cup new |->
         (IF key \in DOMAIN methods THEN methods[key] ELSE {})
           \cup IF key[1] = LayerOf(f)
                THEN UNION {Public(c.methods) : c \in {x \in ClassesOf(f) : x.name = key[2]}}
                ELSE {}]

WithFunctionsOf(f) ==
  [g \in DOMAIN functions \cup (IF PublicFunctionsOf(f) = {} THEN {} ELSE {f}) |->
     IF g = f THEN PublicFunctionsOf(f) ELSE functions[g]]

\* the routes of the last file replace those of the earlier ones
ReadFile_ReplacesRoutes(f) ==
  /\ pc = "read"
  /\ f \in sourceFiles \ read
  /\ \A g \in sourceFiles \ read : f <= g
  /\ read' = read \cup {f}
  /\ IF LayerOf(f) = "none"
     THEN UNCHANGED index
     ELSE /\ layers' = layers \cup {LayerOf(f)}
          /\ methods' = Merged(f)
          /\ functions' = WithFunctionsOf(f)
          /\ routes' = IF LayerOf(f) = "entrypoints" THEN RoutesOf(f) ELSE routes
  /\ UNCHANGED <<code, contract, pending, errors, warnings, pc>>

ReadFile(f) ==
  /\ pc = "read"
  /\ f \in sourceFiles \ read
  /\ \A g \in sourceFiles \ read : f <= g
  /\ read' = read \cup {f}
  /\ IF LayerOf(f) = "none"
     THEN UNCHANGED index
     ELSE /\ layers' = layers \cup {LayerOf(f)}
          /\ methods' = Merged(f)
          /\ functions' = WithFunctionsOf(f)
          /\ routes' = IF LayerOf(f) = "entrypoints" THEN routes \cup RoutesOf(f) ELSE routes
  /\ UNCHANGED <<code, contract, pending, errors, warnings, pc>>

StartCompare ==
  /\ pc = "read" /\ read = sourceFiles
  /\ pc' = "compare"
  /\ UNCHANGED <<code, contract, read, index, pending, errors, warnings>>

-----------------------------------------------------------------------------
(* core/comparator.py: Comparator.compare, one layer of the contract after *)
(* the other.  An error or a warning is <<what, layer, owner, name>>.      *)

ClassErrors(l) ==
  LET reqs == {r \in Elements(classReqs) : r.layer = l}
      found == {r \in reqs : <<l, r.name>> \in DOMAIN methods}
  IN  {<<"reserved", l, r.name, "">> : r \in {x \in reqs : x.name = Reserved}}
        \cup {<<"class", l, r.name, "">> : r \in {x \in reqs \ found : x.name # Reserved}}
        \cup UNION {{<<"method", l, r.name, x>> : x \in r.methods \ methods[<<l, r.name>>]} :
                      r \in found}

\* A file without a public function is reported as not scanned.
FunctionErrors(l) ==
  LET reqs == {r \in Elements(functionReqs) : r.layer = l}
      found == {r \in reqs : r.file \in DOMAIN functions /\ LayerOf(r.file) = l}
  IN  {<<"file", l, r.file, "">> : r \in reqs \ found}
        \cup UNION {{<<"function", l, r.file, x>> : x \in r.functions \ functions[r.file]} :
                      r \in found}

\* A route is looked up by method, path and handler.
Triple(e) == <<e.route, e.name>>
Candidates(l, e) == {i \in routes : l = "entrypoints" /\ Triple(functionDefs[i]) = Triple(e)}
Frozen(params) == [p \in DOMAIN params |-> IF params[p] = "default" THEN "yes" ELSE params[p]]

\* Of several routes with one triple the last one is in the lookup table.
Answers(l, e) ==
  \E i \in Candidates(l, e) :
    /\ \A j \in Candidates(l, e) : j <= i
    /\ Frozen(functionDefs[i].params) = Frozen(e.params)

EndpointErrors(l) ==
  LET reqs == {r \in endpointReqs : r.layer = l}
      complete == {r \in reqs : r.route # NoRoute}
  IN  {<<"empty", l, r.name, "">> : r \in reqs \ complete}
        \cup {<<"route", l, r.route, r.name>> : r \in {x \in complete : Candidates(l, x) = {}}}
        \cup {<<"params", l, r.route, r.name>> :
                r \in {x \in complete : Candidates(l, x) # {} /\ ~Answers(l, x)}}

\* a layer without sources is passed over
LayerErrors_SkipsMissing(l) ==
  IF l \notin layers THEN {}
  ELSE ClassErrors(l) \cup FunctionErrors(l) \cup EndpointErrors(l)

LayerErrors(l) ==
  IF l \notin layers THEN {<<"layer", l, "", "">>}
  ELSE ClassErrors(l) \cup FunctionErrors(l) \cup EndpointErrors(l)

CompareLayer(l) ==
  /\ pc = "compare"
  /\ l \in pending
  /\ pending' = pending \ {l}
  /\ errors' = errors \cup LayerErrors(l)
  /\ UNCHANGED <<code, contract, read, index, warnings, pc>>

-----------------------------------------------------------------------------
(* collect_extras_warnings.  Of several entries about one class or one     *)
(* file of a layer only the last is looked at.                             *)

LastOf(S) == CHOOSE i \in S : \A j \in S : j <= i

ListedMethods(l, c) ==
  LET at == {i \in DOMAIN classReqs : classReqs[i].layer = l /\ classReqs[i].name = c}
  IN  classReqs[LastOf(at)].methods

ListedFunctions(l, f) ==
  LET at == {i \in DOMAIN functionReqs : functionReqs[i].layer = l /\ functionReqs[i].file = f}
  IN  functionReqs[LastOf(at)].functions

ExtraClasses(l) ==
  LET inCode == {key[2] : key \in {x \in DOMAIN methods : x[1] = l}}
      inContract == {r.name : r \in {x \in Elements(classReqs) : x.layer = l}}
  IN  {<<"class", l, c, "">> : c \in inCode \ inContract}
        \cup UNION {{<<"method", l, c, x>> : x \in methods[<<l, c>>] \ ListedMethods(l, c)} :
                      c \in inCode \cap inContract}

ExtraFunctions(l) ==
  LET inCode == {f \in DOMAIN functions : LayerOf(f) = l}
      inContract == {r.file : r \in {x \in Elements(functionReqs) : x.layer = l}}
  IN  {<<"file", l, f, "">> : f \in inCode \ inContract}
        \cup UNION {{<<"function", l, f, x>> : x \in functions[f] \ ListedFunctions(l, f)} :
                      f \in inCode \cap inContract}

ExtraRoutes(l) ==
  {<<"route", l, functionDefs[i].route, functionDefs[i].name>> :
     i \in {x \in routes : /\ l = "entrypoints"
                           /\ \A r \in endpointReqs :
                                ~(r.layer = l /\ Triple(r) = Triple(functionDefs[x]))}}

\* only the layers of the contract are looked at
CollectExtras_ListedOnly ==
  /\ pc = "compare" /\ pending = {}
  /\ \/ /\ pc' = "done"
        /\ warnings' = UNION {ExtraClasses(l) \cup ExtraFunctions(l) \cup ExtraRoutes(l) :
                                l \in layers \cap listed}
     \/ /\ pc' = "quiet"
        /\ UNCHANGED warnings
  /\ UNCHANGED <<code, contract, read, index, pending, errors>>

CollectExtras ==
  /\ pc = "compare" /\ pending = {}
  /\ \/ /\ pc' = "done"
        /\ warnings' = UNION {ExtraClasses(l) \cup ExtraFunctions(l) \cup ExtraRoutes(l) :
                                l \in layers}
     \/ /\ pc' = "quiet"
        /\ UNCHANGED warnings
  /\ UNCHANGED <<code, contract, read, index, pending, errors>>

LinterNext ==
  \/ \E f \in Files : ReadFile(f)
  \/ StartCompare
  \/ \E l \in Layers : CompareLayer(l)
  \/ CollectExtras

LinterSpec == LinterInit /\ [][LinterNext]_linterVars

-----------------------------------------------------------------------------
(* Properties *)

LinterTypeOK ==
  /\ sourceFiles \subseteq Files /\ read \subseteq sourceFiles
  /\ classDefs \subseteq ClassDefs
  /\ functionDefs \in Seq(FunctionDefs)
  /\ listed \subseteq Layers /\ pending \subseteq listed
  /\ Elements(classReqs) \subseteq RequiredClasses
  /\ Elements(functionReqs) \subseteq RequiredFunctions
  /\ endpointReqs \subseteq RequiredEndpoints
  /\ layers \subseteq Layers
  /\ DOMAIN methods \subseteq Layers \X Classes
  /\ \A key \in DOMAIN methods : methods[key] \subseteq Public(Methods)
  /\ DOMAIN functions \subseteq sourceFiles
  /\ \A f \in DOMAIN functions : functions[f] \subseteq Public(Functions)
  /\ routes \subseteq DOMAIN functionDefs
  /\ pc \in {"read", "compare", "done", "quiet"}

Finished == pc \in {"done", "quiet"}

\* What the code offers a contract, said of the sources and not of the index.
DefinitionsOf(l, c) == {d \in classDefs : LayerOf(d.file) = l /\ d.name = c}
HandlersOf(l, e) ==
  {h \in Elements(functionDefs) : /\ l = "entrypoints" /\ LayerOf(h.file) = l
                                  /\ h.name \notin Private
                                  /\ h.route # NoRoute /\ Triple(h) = Triple(e)}

ClassKept(r) ==
  /\ DefinitionsOf(r.layer, r.name) # {}
  /\ r.methods \subseteq UNION {Public(d.methods) : d \in DefinitionsOf(r.layer, r.name)}

FunctionsKept(r) ==
  /\ r.file \in sourceFiles /\ LayerOf(r.file) = r.layer
  /\ PublicFunctionsOf(r.file) # {}
  /\ r.functions \subseteq PublicFunctionsOf(r.file)

SameParams(h, e) == Frozen(h.params) = Frozen(e.params)

SymbolsKept ==
  /\ \A l \in listed : \E f \in sourceFiles : LayerOf(f) = l
  /\ \A r \in Elements(classReqs) : ClassKept(r)
  /\ \A r \in Elements(functionReqs) : FunctionsKept(r)

EndpointsServed ==
  \A e \in endpointReqs : \E h \in HandlersOf(e.layer, e) : SameParams(h, e)

\* A run that ends without an error found every listed layer, every class with
\* its methods (spread over equally named classes of the layer perhaps), every
\* function in its file and every route with its parameters: exit code 0 of the
\* linter means that the code contains what the contract promises.
PassMeansKept ==
  Finished /\ errors = {} => SymbolsKept /\ EndpointsServed

\* A run that reports extras and reports none has read no class, no public
\* method, no public function and no route that the contract does not list,
\* in a layer that the contract leaves out as in one that it lists.
SilenceMeansListed ==
  pc = "done" /\ warnings = {} =>
    /\ \A d \in classDefs : LayerOf(d.file) # "none" =>
         \A x \in Public(d.methods) \cup {d.name} : \E r \in Elements(classReqs) :
           /\ r.layer = LayerOf(d.file) /\ r.name = d.name
           /\ x \in r.methods \cup {d.name}
    /\ \A h \in Elements(functionDefs) : LayerOf(h.file) # "none" /\ h.name \notin Private =>
         /\ \E r \in Elements(functionReqs) : r.file = h.file /\ h.name \in r.functions
         /\ h.route # NoRoute /\ LayerOf(h.file) = "entrypoints" =>
              \E e \in endpointReqs : e.layer = "entrypoints" /\ Triple(e) = Triple(h)

\* Whatever order the files are in, the index holds at every moment exactly
\* what the files read so far define: reading one file loses nothing that an
\* earlier file put there.
IndexIsUnion ==
  /\ layers = {LayerOf(f) : f \in read} \ {"none"}
  /\ \A l \in Layers, c \in Classes :
       LET known == {d \in DefinitionsOf(l, c) : d.file \in read}
       IN  /\ <<l, c>> \in DOMAIN methods <=> known # {}
           /\ known # {} => methods[<<l, c>>] = UNION {Public(d.methods) : d \in known}
  /\ \A f \in Files :
       /\ f \in DOMAIN functions <=> /\ f \in read /\ LayerOf(f) # "none"
                                     /\ PublicFunctionsOf(f) # {}
       /\ f \in DOMAIN functions => functions[f] = PublicFunctionsOf(f)
  /\ routes = UNION {RoutesOf(f) : f \in {x \in read : LayerOf(x) = "entrypoints"}}
=============================================================================
