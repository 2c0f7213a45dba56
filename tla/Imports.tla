-------------------------------- MODULE Imports --------------------------------
(***************************************************************************)
(* The import system: dotted and relative names, packages, the search of    *)
(* sys.path, the cache sys_modules, `import`, `from ... import` and star     *)
(* imports, and what is left when a module fails (src/import.rs and the      *)
(* import glue of src/vm.rs), on the instructions src/compiler.rs makes of   *)
(* import statements.                                                       *)
(*                                                                          *)
(* A name is the sequence of the segments between its dots: "" is <<"">> and *)
(* ".x" is <<"", "x">>.  A path is the sequence of its directories and its   *)
(* stem; "__init__" is the stem of a package's file.                         *)
(* The native call stack is `calls`: a body that runs is a call of           *)
(* `execute_until_depth` with its frame, and a name that waits for its       *)
(* parent package is a call of `resolve_import`.  What the innermost call     *)
(* hands to the one below is `reply`.                                       *)
(*                                                                          *)
(* An operator whose name ends in _faulty, with a hint, is what the          *)
(* definition behind it would be with a plausible bug in the code.           *)
(***************************************************************************)
EXTENDS Integers, Sequences, SequencesExt

CONSTANTS
  sys_path,    \* Seq of directories
  Private,     \* the identifiers that begin with an underscore
  MaxDepth     \* calls the native stack has room for

ASSUME PathAssumption == sys_path \in Seq(Seq(STRING))

(* What a module's namespace holds before its body runs. *)
ModuleNames == {"__name__", "__file__", "__doc__", "__package__"}
ASSUME PrivateAssumption == ModuleNames \subseteq Private

VARIABLES
  files,        \* the file system: path -> [kind, body]
  globals,      \* namespace of the main script
  modules,      \* heap: modules; modules[1] is sys
  sys_modules,  \* name -> its module
  heap_lost,    \* compile_extending has taken the heap and not put it back
  calls,        \* Seq of native calls; the last one runs
  reply,        \* result of the call that returned last, or Unset
  status        \* "running", "done", "error", "panic" or "overflow"

heap == <<globals, modules, sys_modules, heap_lost>>
vars == <<files, heap, calls, reply, status>>

-------------------------------------------------------------------------------
(* Values and results. *)
Empty     == ""                  \* the segment of a name beside a dot without one
Unset     == <<"unset", 0>>
None      == <<"none", 0>>
Plain     == <<"value", 0>>        \* a value of another kind
Str(name) == <<"str", name>>       \* a string; an empty segment is its first
Text      == Str(<<"text">>)          \* the text of a path or a version: no module's name
Names_    == <<"tuple", 0>>        \* a fromlist
Int_(n)   == <<"int", n>>
Module(m) == <<"module", m>>
Err(e)    == <<"err", e>>
Failed(r) == r[1] = "err"

NoPath == << >>

(* The maps of the code, which grow. *)
Insert(map, k, v) == [x \in DOMAIN map \cup {k} |-> IF x = k THEN v ELSE map[x]]
EmptyMap == [x \in {} |-> None]

-------------------------------------------------------------------------------
(* compile_import and compile_import_from, at module level. *)
ImportConsts(level, fromlist, name) ==
  << <<"LOAD_CONST", Int_(level)>>, <<"LOAD_CONST", fromlist>>, <<"IMPORT_NAME", name>> >>
Store(x) == << <<"STORE_GLOBAL", x>> >>

compile_import(name, asname) ==
  ImportConsts(0, None, name) \o
  (IF asname = "" THEN Store(Head(name))
   ELSE [i \in 1..Len(name) - 1 |-> <<"LOAD_ATTR", name[i + 1]>>] \o Store(asname))

compile_import_from(level, name, aliases) ==
  ImportConsts(level, Names_, name) \o
  FlattenSeq([i \in DOMAIN aliases |->
                << <<"IMPORT_FROM", aliases[i][1]>>, <<"STORE_GLOBAL", aliases[i][2]>> >>])
  \o << <<"POP_TOP", 0>> >>

compile_stmt(s) ==
  CASE s.op = "import" -> compile_import(s.name, s.asname)
    [] s.op = "from"   -> compile_import_from(s.level, s.name, s.aliases)
    [] s.op = "star"   -> ImportConsts(s.level, Names_, s.name) \o << <<"IMPORT_STAR", 0>> >>
    [] s.op = "assign" -> << <<"LOAD_CONST", s.value>> >> \o Store(s.target)
    [] s.op = "raise"  -> << <<"RAISE", 0>> >>

compile(body) == FlattenSeq([i \in DOMAIN body |-> compile_stmt(body[i])]) \o << <<"HALT", 0>> >>

-------------------------------------------------------------------------------
(* Calls.  A body keeps the name an import of it has asked for last. *)
Body(name, m, parent, body) ==
  [kind |-> "body", name |-> name, module |-> m, parent |-> parent,
   code |-> compile(body), ip |-> 1, stack |-> << >>, asked |-> << >>]
Resolve(name) == [kind |-> "resolve", name |-> name, waiting |-> FALSE]

top == calls[Len(calls)]
Below == SubSeq(calls, 1, Len(calls) - 1)
WithTop(c) == [calls EXCEPT ![Len(calls)] = c]
Instr == top.code[top.ip]
Arg == Instr[2]
Operand(n) == top.stack[Len(top.stack) - n]
Popped(n) == SubSeq(top.stack, 1, Len(top.stack) - n)

Running   == status = "running" /\ reply = Unset
Fetch(op) == Running /\ top.kind = "body" /\ Instr[1] = op
Answered(kind) == status = "running" /\ reply # Unset /\ top.kind = kind

Return(r)   == calls' = Below /\ reply' = r
Advance(s)  == calls' = WithTop([top EXCEPT !.ip = @ + 1, !.stack = s]) /\ reply' = Unset
Ask(name)   == /\ calls' = Append(WithTop([top EXCEPT !.asked = name]), Resolve(name))
               /\ UNCHANGED reply
(* An Err inside the call that runs: it returns it in the next step. *)
Fail(e)     == reply' = Err(e) /\ UNCHANGED calls

IsModule(v) == v[1] = "module"
Namespace(m) == IF m = 0 THEN globals ELSE modules[m].globals
SetNamespace(m, g) ==
  IF m = 0 THEN globals' = g /\ UNCHANGED modules
  ELSE modules' = [modules EXCEPT ![m].globals = g] /\ UNCHANGED globals

-------------------------------------------------------------------------------
(* Finders: a package in any directory comes before a file in any directory. *)
FirstFile(candidates) ==
  IF \E i \in DOMAIN candidates : candidates[i] \in DOMAIN files
  THEN candidates[CHOOSE i \in DOMAIN candidates :
         /\ candidates[i] \in DOMAIN files
         /\ \A j \in 1..i - 1 : candidates[j] \notin DOMAIN files]
  ELSE NoPath
Join(dir, leaf) == IF leaf = Empty THEN dir ELSE Append(dir, leaf)   \* Path::join
find_package_in(dirs, leaf) ==
  FirstFile([i \in DOMAIN dirs |-> Append(Join(dirs[i], leaf), "__init__")])
find_source_file_in(dirs, leaf) == FirstFile([i \in DOMAIN dirs |-> dirs[i] \o <<leaf>>])

Leaf(name)   == name[Len(name)]
Parent(name) == SubSeq(name, 1, Len(name) - 1)
package_dir_of_faulty_outer(m) == Parent(Parent(modules[m].file))
package_dir_of(m) == Parent(modules[m].file)

(* resolve_relative_name: what the running namespace says of its package, which
   a module is given and a program may bind.  The name is that package's without
   its last level - 1 segments, then the one written; both may be empty.  A level
   of 0 is absolute.                                                         *)
Package(m) == IF "__package__" \in DOMAIN Namespace(m) THEN Namespace(m)["__package__"] ELSE None
Parts(m) == LET pkg == Package(m)[2] IN IF Head(pkg) = Empty THEN Tail(pkg) ELSE pkg
RelativeError(m, level) ==
  IF level = 0 THEN "none"
  ELSE IF Package(m) = None THEN "NoParentPackage"
  ELSE IF Package(m)[1] # "str" THEN "NotAString"
  ELSE IF level - 1 > Len(Parts(m)) THEN "BeyondTopLevel"
  ELSE "none"
resolve_relative_name(m, raw, level) ==
  LET absolute ==
        IF level = 0 THEN raw ELSE SubSeq(Parts(m), 1, Len(Parts(m)) - (level - 1)) \o raw
  IN IF absolute = << >> THEN <<Empty>> ELSE absolute

-------------------------------------------------------------------------------
(* load_source_module and compile_and_execute_module, up to the body: an error
   in the file leaves no module, and one that the compiler finds leaves no heap
   either.                                                                   *)
PackageOf(name, is_package) ==
  IF is_package THEN Str(name) ELSE IF Len(name) > 1 THEN Str(Parent(name)) ELSE None
NewGlobals(name, is_package) ==
  [x \in ModuleNames |-> CASE x = "__name__" -> Str(name)
                            [] x = "__file__" -> Text
                            [] x = "__doc__"  -> None
                            [] x = "__package__" -> PackageOf(name, is_package)]
NewModule_faulty_ready(name, file, is_package) ==
  [name |-> name, file |-> file, initialized |-> TRUE,
   globals |-> NewGlobals(name, is_package)]
NewModule(name, file, is_package) ==
  [name |-> name, file |-> file, initialized |-> FALSE,
   globals |-> NewGlobals(name, is_package)]

CacheAs_faulty_late(name, m) == UNCHANGED sys_modules   \* not before the body
CacheAs_faulty_index(name, m) == sys_modules' = Insert(sys_modules, name, m - 1)
CacheAs(name, m) == sys_modules' = Insert(sys_modules, name, m)

Begin(name, parent, file, is_package) ==
  /\ modules' = Append(modules, NewModule(name, file, is_package))
  /\ CacheAs(name, Len(modules) + 1)
  /\ calls' = WithTop(Body(name, Len(modules) + 1, parent, files[file].body))
  /\ reply' = Unset
  /\ UNCHANGED <<globals, heap_lost, status>>

Load(name, parent, dirs) ==
  LET package == find_package_in(dirs, Leaf(name))
      file == IF package # NoPath THEN package ELSE find_source_file_in(dirs, Leaf(name))
  IN \/ /\ file = NoPath
        /\ Return(Err("ModuleNotFound"))
        /\ UNCHANGED <<heap, status>>
     \/ /\ file # NoPath /\ files[file].kind # "compiles"
        /\ Return(Err(files[file].kind))
        /\ heap_lost' = (files[file].kind = "CompileError")
        /\ UNCHANGED <<globals, modules, sys_modules, status>>
     \/ /\ file # NoPath /\ files[file].kind = "compiles" /\ Len(calls) >= MaxDepth
        /\ status' = "overflow"
        /\ UNCHANGED <<heap, calls, reply>>
     \/ /\ file # NoPath /\ files[file].kind = "compiles" /\ Len(calls) < MaxDepth
        /\ Begin(name, parent, file, package # NoPath)

(* resolve_import: the cache first, then the parent, then the search.  That the
   cache may have changed while the parent ran is not looked at.             *)
Requested == Running /\ top.kind = "resolve"
Cached(name) == name \in DOMAIN sys_modules

ResolveCached ==
  /\ Requested /\ Cached(top.name)
  /\ Return(Module(sys_modules[top.name]))
  /\ UNCHANGED <<files, heap, status>>

ResolveParent_faulty_unchecked ==   \* the cache is looked at for undotted names
  /\ Requested /\ Len(top.name) > 1
  /\ calls' = Append(WithTop([top EXCEPT !.waiting = TRUE]), Resolve(Parent(top.name)))
  /\ UNCHANGED <<files, heap, reply, status>>
ResolveParent ==
  /\ Requested /\ ~Cached(top.name) /\ Len(top.name) > 1
  /\ calls' = Append(WithTop([top EXCEPT !.waiting = TRUE]), Resolve(Parent(top.name)))
  /\ UNCHANGED <<files, heap, reply, status>>

ResolveTopLevel ==
  /\ Requested /\ ~Cached(top.name) /\ Len(top.name) = 1
  /\ Load(top.name, 0, sys_path)
  /\ UNCHANGED files

ResolveSubmodule ==
  /\ Answered("resolve") /\ ~Failed(reply)
  /\ IF modules[reply[2]].file = NoPath
     THEN /\ Return(Err("NotAPackage"))
          /\ UNCHANGED <<heap, status>>
     ELSE Load(top.name, reply[2], <<package_dir_of(reply[2])>>)
  /\ UNCHANGED files

ResolveFails ==
  /\ Answered("resolve") /\ Failed(reply)
  /\ Return(reply)
  /\ UNCHANGED <<files, heap, status>>

-------------------------------------------------------------------------------
(* Instructions. *)
LOAD_CONST ==
  /\ Fetch("LOAD_CONST")
  /\ Advance(Append(top.stack, Arg))
  /\ UNCHANGED <<files, heap, status>>

STORE_GLOBAL ==
  /\ Fetch("STORE_GLOBAL")
  /\ SetNamespace(top.module, Insert(Namespace(top.module), Arg, Operand(0)))
  /\ Advance(Popped(1))
  /\ UNCHANGED <<files, sys_modules, heap_lost, status>>

LOAD_ATTR ==
  /\ Fetch("LOAD_ATTR")
  /\ IF IsModule(Operand(0)) /\ Arg \in DOMAIN modules[Operand(0)[2]].globals
     THEN Advance(Append(Popped(1), modules[Operand(0)[2]].globals[Arg]))
     ELSE Fail("NoAttribute")
  /\ UNCHANGED <<files, heap, status>>

POP_TOP ==
  /\ Fetch("POP_TOP")
  /\ Advance(Popped(1))
  /\ UNCHANGED <<files, heap, status>>

RAISE ==
  /\ Fetch("RAISE")
  /\ Fail("raised")
  /\ UNCHANGED <<files, heap, status>>

(* The name an IMPORT_NAME asks for. *)
Level == Operand(1)[2]
Absolute == resolve_relative_name(top.module, Arg, Level)

IMPORT_NAME ==
  /\ Fetch("IMPORT_NAME")
  /\ IF RelativeError(top.module, Level) # "none" THEN Fail(RelativeError(top.module, Level))
     ELSE Ask(Absolute)
  /\ UNCHANGED <<files, heap, status>>

(* Without a fromlist the result is the module of the first segment. *)
IMPORT_NAME_returns ==
  /\ Answered("body") /\ ~Failed(reply) /\ Instr[1] = "IMPORT_NAME"
  /\ IF Operand(0) = None
     THEN IF <<Head(top.asked)>> \in DOMAIN sys_modules
          THEN Advance(Append(Popped(2), Module(sys_modules[<<Head(top.asked)>>])))
          ELSE Fail("internal")
     ELSE Advance(Append(Popped(2), reply))
  /\ UNCHANGED <<files, heap, status>>

(* module_get_attr: the module's namespace, then a submodule of that name.  The
   module stays on the stack, below what is found.                           *)
Over_faulty_swapped(v) == Popped(1) \o <<v, Operand(0)>>
Over(v) == Append(top.stack, v)

IMPORT_FROM ==
  /\ Fetch("IMPORT_FROM")
  /\ IF ~IsModule(Operand(0)) THEN Fail("internal")
     ELSE LET m == modules[Operand(0)[2]] IN
          IF Arg \in DOMAIN m.globals
          THEN Advance(Over(m.globals[Arg]))
          ELSE Ask(Append(m.name, Arg))
  /\ UNCHANGED <<files, heap, status>>

IMPORT_FROM_returns ==
  /\ Answered("body") /\ ~Failed(reply) /\ Instr[1] = "IMPORT_FROM"
  /\ Advance(Over(reply))
  /\ UNCHANGED <<files, heap, status>>

(* import_star_into_globals; no module has its `all` set, so __all__ in the
   module's namespace makes no difference.                                   *)
IMPORT_STAR ==
  /\ Fetch("IMPORT_STAR")
  /\ IF ~IsModule(Operand(0))
     THEN Fail("internal") /\ UNCHANGED <<globals, modules>>
     ELSE LET from == modules[Operand(0)[2]].globals
              into == Namespace(top.module)
              public == DOMAIN from \ Private
          IN /\ SetNamespace(top.module,
                  [x \in DOMAIN into \cup public |-> IF x \in public THEN from[x] ELSE into[x]])
             /\ Advance(Popped(1))
  /\ UNCHANGED <<files, sys_modules, heap_lost, status>>

(* The end of the main script, and the end of a module's body: the module is
   initialized and becomes an attribute of its parent.                       *)
HALT_main ==
  /\ Fetch("HALT") /\ top.module = 0
  /\ status' = "done"
  /\ UNCHANGED <<files, heap, calls, reply>>

HALT_module_faulty_unbound ==
  /\ Fetch("HALT") /\ top.module # 0
  /\ modules' = [modules EXCEPT ![top.module].initialized = TRUE]
  /\ Return(Module(top.module))
  /\ UNCHANGED <<files, globals, sys_modules, heap_lost, status>>
HALT_module ==
  /\ Fetch("HALT") /\ top.module # 0
  /\ LET done == [modules EXCEPT ![top.module].initialized = TRUE] IN
     modules' = IF top.parent = 0 THEN done
                ELSE [done EXCEPT ![top.parent].globals =
                        Insert(@, Leaf(top.name), Module(top.module))]
  /\ Return(Module(top.module))
  /\ UNCHANGED <<files, globals, sys_modules, heap_lost, status>>

(* The body's loop returns an Err.  A from-import puts its own in the place of
   the one its fallback got.  The rest of compile_and_execute_module sets the
   module's flag, in a heap that a compile error may have taken away.        *)
BodyFails ==
  /\ Answered("body") /\ Failed(reply)
  /\ IF top.module = 0
     THEN status' = "error" /\ UNCHANGED <<calls, reply>>
     ELSE IF heap_lost
     THEN status' = "panic" /\ UNCHANGED <<calls, reply>>
     ELSE /\ Return(IF Instr[1] = "IMPORT_FROM" THEN Err("CannotImportName") ELSE reply)
          /\ UNCHANGED status
  /\ UNCHANGED <<files, heap>>

-------------------------------------------------------------------------------
(* VM::new with bootstrap_sys, then run on the main script. *)
Sys == [name |-> <<"sys">>, file |-> NoPath, initialized |-> TRUE,
        globals |-> [x \in {"path", "version"} |-> IF x = "path" THEN None ELSE Text]]

InitWith(fs, script) ==
  /\ files = fs
  /\ globals = EmptyMap
  /\ modules = <<Sys>>
  /\ sys_modules = [n \in {<<"sys">>} |-> 1]
  /\ heap_lost = FALSE
  /\ calls = <<Body(<< >>, 0, 0, script)>>
  /\ reply = Unset
  /\ status = "running"

Ended == status # "running" /\ UNCHANGED vars

Next == \/ ResolveCached \/ ResolveParent \/ ResolveTopLevel \/ ResolveSubmodule
        \/ ResolveFails
        \/ LOAD_CONST \/ STORE_GLOBAL \/ LOAD_ATTR \/ POP_TOP \/ RAISE
        \/ IMPORT_NAME \/ IMPORT_NAME_returns \/ IMPORT_FROM \/ IMPORT_FROM_returns
        \/ IMPORT_STAR \/ HALT_main \/ HALT_module \/ BodyFails
        \/ Ended
=============================================================================
