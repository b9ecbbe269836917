------------------------------ MODULE Modules ------------------------------
(***************************************************************************)
(* The modules of mara (src/src/module.c): the cache of one environment and *)
(* the loaders and current module of each of its contexts.  Everything runs *)
(* on one C stack: an import calls the loaders one after the other, then    *)
(* the entry function of the module, and both may call all of this again,   *)
(* in their own context or in another one.  Entries and loaders are native  *)
(* functions, which run in a zone of their own.                             *)
(***************************************************************************)
EXTENDS Naturals, Sequences, SequencesExt, FiniteSetsExt

CONSTANTS
    Ctx,        \* the contexts between mara_begin and mara_end
    Names,      \* the names of modules
    Qualified,  \* Qualified[m]: what "./x" stands for in module m
    Exports,    \* the names a module exports, "*main*" is one
    Plain,      \* the values it exports that are no objects
    Objects,    \* what is in the objects it exports
    Nil,
    MaxDepth,   \* bound: calls of loaders and entries in progress
    MaxLoaders  \* bound: loaders of a context

Dot == "."
Main == "*main*"

(* An object is in the zone of a call or of the host, or in the permanent    *)
(* zone: there it belongs to the module with which it has been copied.       *)
Zone == "zone"
Object(o, in) == [is |-> o, in |-> in]
Fresh == {Object(o, Zone) : o \in Objects}
Cached == {Object(o, n) : o \in Objects, n \in Names}
Values == Plain \cup Fresh \cup Cached

(* What an import or mara_init_module answers when it fails. *)
Error(name) == [error |-> name]
NameError == Error("core/name-error")
Errors ==
    {Error(name) : name \in {"core/name-error", "core/circular-dependency",
                             "core/module-not-found", "core/duplicated-module", "error"}}

ASSUME ModulesAssumption ==
    /\ Qualified \in [Names \cup {Dot} -> Names]
    /\ Main \in Exports
    /\ Zone \notin Names
    /\ Nil \notin Values /\ Errors \cap Values = {} /\ Plain \cap (Fresh \cup Cached) = {}
    /\ MaxDepth \in Nat /\ MaxLoaders \in Nat

VARIABLES
    cache,      \* env->module_cache: a module is absent, loading or loaded
    current,    \* ctx->current_module: 0, or which call of stack has made it
    options,    \* ctx->current_module_options
    loaders,    \* ctx->module_loaders: its length (0: NULL), and the call in
                \* whose zone it is (0: the zone of the host)
    stack,      \* the calls of loaders and of entry functions in progress
    result,     \* what the last import or mara_init_module returned
    answered    \* history: what the first import answered that found the module

vars == <<cache, current, options, loaders, stack, result, answered>>

Empty == [e \in Exports |-> Nil]
Absent == [state |-> "absent", map |-> Empty]
Loading == [state |-> "loading", map |-> Empty]
Loaded(map) == [state |-> "loaded", map |-> map]

NoLoaders == [len |-> 0, zone |-> 0]

Init ==
    /\ cache = [n \in Names |-> Absent]
    /\ current = [c \in Ctx |-> 0]
    /\ options = [c \in Ctx |-> [name |-> Dot, ignore |-> FALSE]]
    /\ loaders = [c \in Ctx |-> NoLoaders]
    /\ stack = <<>>
    /\ result = Nil
    /\ answered = [n \in Names |-> Empty]

Depth == Len(stack)
Running == Last(stack)

(* The last call of context c: its zone is ctx->current_zone. *)
Innermost(c) == Max({0} \cup {i \in 1 .. Depth : stack[i].ctx = c})

(* A call of the loaders of c, left of them to call, for an import of e from *)
(* n; or of the entry of n, which exports to map and then goes back to the   *)
(* module that was current before.                                           *)
Call(kind, c, n, e, left, ignore, by) ==
    [kind |-> kind, ctx |-> c, name |-> n, export |-> e, left |-> left,
     ignore |-> ignore, by |-> by,
     map |-> Empty, previous |-> current[c], previousOptions |-> options[c]]

LoaderCall(c, n, e, left) == Call("loader", c, n, e, left, FALSE, "import")
EntryCall(c, n, e, ignore, by) == Call("entry", c, n, e, 0, ignore, by)

(* mara_zone_exit at the end of call i: mara_clear_module_loaders runs, when *)
(* the list of the loaders was in the zone.                                  *)
ExitZone(i) ==
    loaders' = [c \in Ctx |-> IF c = stack[i].ctx /\ loaders[c].zone = i
                              THEN NoLoaders ELSE loaders[c]]

Answer(r) == result' = r /\ UNCHANGED <<cache, current, options, stack>>

Lookup(map, e) == IF map[e] # Nil THEN map[e] ELSE NameError

Answers(n, e, r) ==
    answered' = IF answered[n][e] = Nil THEN [answered EXCEPT ![n][e] = r] ELSE answered

(* mara_copy into the permanent zone: what is there already stays as it is,  *)
(* everything else gets a copy, when it is not a plain value.                *)
InCache(n, v) == IF v \in Fresh THEN Object(v.is, n) ELSE v

-----------------------------------------------------------------------------
(* mara_import of a qualified name, and mara_internal_import.                *)
Import(c, n, e) ==
    \/ /\ cache[n].state = "loaded"
       /\ Answer(Lookup(cache[n].map, e))
       /\ Answers(n, e, Lookup(cache[n].map, e))
       /\ UNCHANGED loaders
    \/ /\ cache[n].state = "loading"
       /\ Answer(Error("core/circular-dependency"))
       /\ UNCHANGED <<loaders, answered>>
    \/ /\ cache[n].state = "absent"
       /\ loaders[c].len = 0
       /\ Answer(Error("core/module-not-found"))
       /\ UNCHANGED <<loaders, answered>>
    \/ /\ cache[n].state = "absent"
       /\ loaders[c].len > 0
       /\ Depth < MaxDepth
       /\ stack' = Append(stack, LoaderCall(c, n, e, loaders[c].len))
       /\ UNCHANGED <<cache, current, options, loaders, result, answered>>

ImportRelative(c, e) == Import(c, Qualified[options[c].name], e)

(* The entry of module n runs: n is marked as being loaded, a new map is the *)
(* current module.  below are the calls that go on when it has returned.     *)
StartEntry(below, call) ==
    /\ stack' = Append(below, call)
    /\ current' = [current EXCEPT ![call.ctx] = Len(below) + 1]
    /\ options' = [options EXCEPT ![call.ctx] = [name |-> call.name, ignore |-> call.ignore]]
    /\ cache' = IF call.ignore THEN cache ELSE [cache EXCEPT ![call.name] = Loading]

(* mara_init_module, called by the host or by a function. *)
InitModule(c, n, ignore) ==
    /\ IF ignore \/ cache[n].state = "absent"
       THEN /\ Depth < MaxDepth
            /\ StartEntry(stack, EntryCall(c, n, Main, ignore, "init_module"))
            /\ UNCHANGED result
       ELSE Answer(Error("core/duplicated-module"))
    /\ UNCHANGED <<loaders, answered>>

LoaderFailsOneMore ==
    /\ stack # <<>> /\ Running.kind = "loader"
    /\ ExitZone(Depth)
    /\ UNCHANGED answered
    /\ IF Running.left > 0
       THEN /\ stack' = [stack EXCEPT ![Depth].left = @ - 1]
            /\ UNCHANGED <<cache, current, options, result>>
       ELSE /\ stack' = Front(stack)
            /\ result' = Error("core/module-not-found")
            /\ UNCHANGED <<cache, current, options>>

(* A loader returns an error, or no function: the next one is called. *)
LoaderFails ==
    /\ stack # <<>> /\ Running.kind = "loader"
    /\ ExitZone(Depth)
    /\ UNCHANGED answered
    /\ IF Running.left > 1
       THEN /\ stack' = [stack EXCEPT ![Depth].left = @ - 1]
            /\ UNCHANGED <<cache, current, options, result>>
       ELSE /\ stack' = Front(stack)
            /\ result' = Error("core/module-not-found")
            /\ UNCHANGED <<cache, current, options>>

LoaderFindsAnyway ==
    /\ stack # <<>> /\ Running.kind = "loader"
    /\ ExitZone(Depth)
    /\ UNCHANGED answered
    /\ StartEntry(Front(stack), EntryCall(Running.ctx, Running.name, Running.export, FALSE, "import"))
    /\ UNCHANGED result

(* A loader returns an entry function; what it has loaded meanwhile is not   *)
(* loaded again.                                                             *)
LoaderFinds ==
    /\ stack # <<>> /\ Running.kind = "loader"
    /\ ExitZone(Depth)
    /\ UNCHANGED answered
    /\ IF cache[Running.name].state = "absent"
       THEN /\ StartEntry(Front(stack), EntryCall(Running.ctx, Running.name,
                                                  Running.export, FALSE, "import"))
            /\ UNCHANGED result
       ELSE /\ stack' = Front(stack)
            /\ result' = Error("core/duplicated-module")
            /\ UNCHANGED <<cache, current, options>>

(* mara_export, also through a function of another module that was saved. *)
Export(c, e, v) ==
    /\ current[c] # 0 /\ ~ options[c].ignore
    /\ stack' = [stack EXCEPT ![current[c]].map[e] = v]
    /\ UNCHANGED <<cache, current, options, loaders, result, answered>>

-----------------------------------------------------------------------------
(* The entry function is back in mara_internal_init_module. *)
LeaveEntry ==
    /\ stack # <<>> /\ Running.kind = "entry"
    /\ ExitZone(Depth)
    /\ stack' = Front(stack)
    /\ current' = [current EXCEPT ![Running.ctx] = Running.previous]
    /\ options' = [options EXCEPT ![Running.ctx] = Running.previousOptions]

(* The cache gets a copy of the module, the import that has loaded it is     *)
(* answered from the module itself.                                          *)
Keep(n, module) ==
    cache' = [cache EXCEPT ![n] = Loaded([e \in Exports |-> InCache(n, module[e])])]

AnswerFrom(module, v) ==
    IF Running.by = "import"
    THEN /\ result' = Lookup(module, Running.export)
         /\ Answers(Running.name, Running.export, Lookup(module, Running.export))
    ELSE result' = v /\ UNCHANGED answered

EntryReturnsMainLast(v) ==
    /\ LeaveEntry
    /\ IF Running.ignore
       THEN result' = v /\ UNCHANGED <<cache, answered>>
       ELSE Keep(Running.name, Running.map) /\ AnswerFrom([Running.map EXCEPT ![Main] = v], v)

(* Its value is exported as "*main*".                                        *)
EntryReturns(v) ==
    /\ LeaveEntry
    /\ IF Running.ignore
       THEN result' = v /\ UNCHANGED <<cache, answered>>
       ELSE LET module == [Running.map EXCEPT ![Main] = v] IN
            Keep(Running.name, module) /\ AnswerFrom(module, v)

EntryFailsStillMarked ==
    /\ LeaveEntry
    /\ result' = Error("error")
    /\ UNCHANGED <<cache, answered>>

EntryFailsStillCurrent ==
    /\ stack # <<>> /\ Running.kind = "entry"
    /\ ExitZone(Depth)
    /\ stack' = Front(stack)
    /\ cache' = IF Running.ignore THEN cache ELSE [cache EXCEPT ![Running.name] = Absent]
    /\ result' = Error("error")
    /\ UNCHANGED <<current, options, answered>>

(* It has failed: the module may be loaded again. *)
EntryFails ==
    /\ LeaveEntry
    /\ cache' = IF Running.ignore THEN cache ELSE [cache EXCEPT ![Running.name] = Absent]
    /\ result' = Error("error")
    /\ UNCHANGED answered

AddLoaderInNewList(c) ==
    /\ loaders[c].len < MaxLoaders
    /\ loaders' = [loaders EXCEPT ![c] = [len |-> @.len + 1, zone |-> Innermost(c)]]
    /\ UNCHANGED <<cache, current, options, stack, result, answered>>

(* mara_add_module_loader: the list is made in the current zone. *)
AddLoader(c) ==
    /\ loaders[c].len < MaxLoaders
    /\ loaders' = [loaders EXCEPT ![c] =
                     [len |-> @.len + 1, zone |-> IF @.len = 0 THEN Innermost(c) ELSE @.zone]]
    /\ UNCHANGED <<cache, current, options, stack, result, answered>>

(* What functions and the host can have: what has been loaded, too.          *)
AtHand ==
    Plain \cup Fresh \cup {Nil} \cup
    {cache[n].map[e] : n \in {m \in Names : cache[m].state = "loaded"}, e \in Exports}

Next ==
    \/ \E c \in Ctx, e \in Exports : ImportRelative(c, e) \/ \E n \in Names : Import(c, n, e)
    \/ \E c \in Ctx, n \in Names, ignore \in BOOLEAN : InitModule(c, n, ignore)
    \/ LoaderFails \/ LoaderFinds
    \/ \E c \in Ctx, e \in Exports, v \in AtHand : Export(c, e, v)
    \/ \E v \in AtHand : EntryReturns(v)
    \/ EntryFails
    \/ \E c \in Ctx : AddLoader(c)

Spec == Init /\ [][Next]_vars

-----------------------------------------------------------------------------
Map == [Exports -> Values \cup {Nil}]
CachedMap == [Exports -> Plain \cup Cached \cup {Nil}]
Options == [name : Names \cup {Dot}, ignore : BOOLEAN]
CallType == [kind : {"loader", "entry"}, ctx : Ctx, name : Names, export : Exports,
             left : Nat, ignore : BOOLEAN, by : {"import", "init_module"}, map : Map,
             previous : Nat, previousOptions : Options]

(* Every variable has its type, a loader that runs is one of the list, and   *)
(* the cache has no object of a zone that is going to be exited.             *)
TypeOK ==
    /\ cache \in [Names -> [state : {"absent", "loading", "loaded"}, map : CachedMap]]
    /\ current \in [Ctx -> 0 .. MaxDepth]
    /\ options \in [Ctx -> Options]
    /\ loaders \in [Ctx -> [len : 0 .. MaxLoaders, zone : 0 .. Depth]]
    /\ stack \in Seq(CallType)
    /\ \A i \in 1 .. Depth : stack[i].kind = "loader" => stack[i].left \in 1 .. MaxLoaders
    /\ result \in Values \cup Errors \cup {Nil}
    /\ answered \in [Names -> [Exports -> Values \cup {NameError, Nil}]]

Loads(i, n) == stack[i].kind = "entry" /\ stack[i].name = n /\ ~ stack[i].ignore

(* A module is marked as being loaded exactly while its entry runs, and it   *)
(* runs once at a time, in all contexts together: so a cycle of imports ends *)
(* with an error, and an entry that fails, or that a failing import below it *)
(* makes fail, leaves a module that can be loaded again.                     *)
MarkedWhileLoading ==
    \A n \in Names :
        /\ cache[n].state = "loading" <=> \E i \in 1 .. Depth : Loads(i, n)
        /\ \A i, j \in 1 .. Depth : Loads(i, n) /\ Loads(j, n) => i = j

(* Whatever is loaded meanwhile, fails or is loaded by another context, the  *)
(* current module of a context, which mara_export writes to, is the module   *)
(* whose entry is the last that the context has called.                      *)
CurrentIsInnermost ==
    \A c \in Ctx :
        /\ current[c] = Max({0} \cup {i \in 1 .. Depth : stack[i].ctx = c /\ stack[i].kind = "entry"})
        /\ current[c] # 0 => options[c] = [name |-> stack[current[c]].name,
                                           ignore |-> stack[current[c]].ignore]

(* module.c:178-180 makes the list of the loaders part of a zone.  The list  *)
(* an import is going through, held in a C variable while a loader runs, is  *)
(* still the list of the context, in a zone outside the import, although     *)
(* loaders add loaders.                                                      *)
LoadersOutliveImport ==
    \A i \in 1 .. Depth : stack[i].kind = "loader" =>
        LET l == loaders[stack[i].ctx] IN stack[i].left <= l.len /\ l.zone < i

(* A module is loaded once and for all: no later import, mara_init_module or *)
(* export changes what the cache has.                                        *)
LoadedStays == [][\A n \in Names : cache[n].state = "loaded" => cache'[n] = cache[n]]_vars

(* What an import has answered once, every later import answers, of any      *)
(* context: the same plain value or error, and in place of an object of the  *)
(* context that has loaded the module the one copy that is in the cache.     *)
(* module.c:131 makes it, module.c:286 answers without it.                   *)
ImportsAgree ==
    \A n \in Names, e \in Exports : answered[n][e] # Nil =>
        /\ cache[n].state = "loaded"
        /\ Lookup(cache[n].map, e) = InCache(n, answered[n][e])
=============================================================================
