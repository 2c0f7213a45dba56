--------------------------- MODULE ImportsProperties ---------------------------
(***************************************************************************)
(* What the import system of module Imports must keep true.                 *)
(***************************************************************************)
EXTENDS Imports

(* Every string; those that the code has are listed for the provers, which do not
   know of a literal that it is in STRING.  Those that a program assigns are names
   like the ones that Str stands for: without two dots in a row.             *)
Identifiers == STRING \cup {Empty, "text", "sys", "path", "version"} \cup ModuleNames
Strings == {"str"} \X (Seq(Identifiers) \ {<< >>})
Literals == {s \in Strings : \A i \in 2..Len(s[2]) : s[2][i] # Empty}

(* The statements of a file or a script, in the text a module is made of. *)
Statements ==
  [op : {"import"}, name : Seq(Identifiers) \ {<< >>}, asname : Identifiers]
  \cup [op : {"from"}, level : Nat, name : Seq(Identifiers),
        aliases : Seq(Identifiers \X Identifiers)]
  \cup [op : {"star"}, level : Nat, name : Seq(Identifiers)]
  \cup [op : {"assign"}, target : Identifiers, value : {None, Plain} \cup Literals]
  \cup [op : {"raise"}]

Errors == {"internal", "ModuleNotFound", "SyntaxError", "CompileError", "NotAPackage",
           "NoParentPackage", "NotAString",
           "BeyondTopLevel", "CannotImportName", "NoAttribute", "raised"}
Results == {Unset} \cup ({"err"} \X Errors) \cup ({"module"} \X DOMAIN modules)

FilesTyped ==
  \A f \in DOMAIN files :
    /\ f \in Seq(Identifiers) /\ files[f].body \in Seq(Statements)
    /\ files[f].kind \in {"compiles", "SyntaxError", "CompileError"}

(* Every file, module and call is well formed, and refers to modules that are
   there: the type invariant of the import state.                            *)
TypeOK ==
  /\ FilesTyped
  /\ \A m \in DOMAIN modules : modules[m].initialized \in BOOLEAN
  /\ \A n \in DOMAIN sys_modules : /\ sys_modules[n] \in DOMAIN modules
                                   /\ modules[sys_modules[n]].name = n
  /\ heap_lost \in BOOLEAN
  /\ reply \in Results
  /\ status \in {"running", "done", "error", "panic", "overflow"}
  /\ calls # << >>
  /\ \A i \in DOMAIN calls :
       \/ /\ calls[i].kind = "resolve"
          /\ calls[i].waiting \in BOOLEAN
       \/ /\ calls[i].kind = "body"
          /\ calls[i].module \in DOMAIN modules \cup {0}
          /\ calls[i].parent \in DOMAIN modules \cup {0}

(* From any file system and any script, whatever is imported. *)
Start == FilesTyped /\ \E script \in Seq(Statements) : InitWith(files, script)
ImportSpec == Start /\ [][Next]_vars

(* The cache, seen as the one of module ModuleCache: a module that is neither
   initialized nor the module of a running body is one whose load failed.    *)
Executing(m) == \E i \in DOMAIN calls : calls[i].kind = "body" /\ calls[i].module = m
LoadState(m) == IF modules[m].initialized THEN "ready"
                ELSE IF Executing(m) THEN "loading" ELSE "failed"
Loads == [m \in DOMAIN modules |-> [name |-> modules[m].name, state |-> LoadState(m)]]
Cache == INSTANCE ModuleCache WITH cache <- sys_modules, loads <- Loads

(* resolve_import implements an import cache: a name is loaded once, is in the
   cache before its body runs, and the load that ends is always the one begun
   last.                                                                     *)
CacheImplemented == Cache!Spec

(* No name enters the cache while a request for it waits for its parent package
   (vm.rs looks only before it loads the parent).  What CacheImplemented rests
   on: a package that imports its own submodule breaks it for whoever imports
   that submodule first.                                                     *)
NotOvertaken ==
  \A i \in DOMAIN calls :
    calls[i].kind = "resolve" /\ calls[i].waiting => calls[i].name \notin DOMAIN sys_modules

(* Where that never happens, whatever is imported: no package's __init__ imports
   anything, and no import goes through a file that does.  Importing has the stems
   of the files that import.  No directory of sys.path is itself a package, or has
   a file without a stem: there is nothing to find for an empty name.          *)
Imports_(code) == \E i \in 1..Len(code) : code[i][1] \in {"IMPORT_NAME", "IMPORT_FROM"}
Importing == {Leaf(f) : f \in {g \in DOMAIN files : Imports_(compile(files[g].body))}}
StraightName(name) == \A k \in 1..Len(name) - 1 : name[k] \notin Importing
StraightCode(code) ==
  \A i \in 1..Len(code) : code[i][1] = "IMPORT_NAME" => StraightName(code[i][2])
RootsPlain ==
  \A d \in Range(sys_path) : {Append(d, "__init__"), d \o <<Empty>>} \cap DOMAIN files = {}
StraightFiles ==
  /\ "__init__" \notin Importing /\ RootsPlain
  /\ \A f \in DOMAIN files : StraightCode(compile(files[f].body))
StraightScript == StraightCode(calls[1].code)

(* An import of a name that was loaded before hits the cache, and its body is
   not executed again: there is one module of each name.                     *)
NameLoadedOnce == \A m, k \in DOMAIN modules : modules[m].name = modules[k].name => m = k

(* However a file is reached (absolute, relative, as a submodule that a from-
   import falls back to), there is one module of it: its directory is only ever
   searched under one name.  Two kinds of names are excepted, both of imports that
   docs/superpowers/specs/2026-05-20-m3-import-architecture-design.md says are
   none.  A name with an empty segment is made by a relative import that leaves its
   top-level package ("Depth exceeds `package` segments: `ImportError`", :455, but
   vm.rs:3007 looks before it takes a segment away).  And a name that goes through
   a module that is no package has the directory of that module's file searched
   again ("submodules don't fall back to sys.path", :489, but package_dir_of takes
   the directory of any file).                                                *)
IsPackage(m) == modules[m].file # NoPath /\ Leaf(modules[m].file) = "__init__"
ThroughAFile(name) ==
  \E k \in 1..Len(name) - 1 :
    LET n == SubSeq(name, 1, k) IN n \in DOMAIN sys_modules /\ ~IsPackage(sys_modules[n])
AboveTop(name) == \E i \in 1..Len(name) : name[i] = Empty
Strays(name) == AboveTop(name) \/ ThroughAFile(name)
OneModulePerFile ==
  \A m, k \in DOMAIN modules :
    m # k /\ modules[m].file = modules[k].file => Strays(modules[m].name) \/ Strays(modules[k].name)

(* Where that is so: no directory of sys.path lies inside another (VM::new has
   only the current one), and nobody imports a name with the segment __init__,
   the stem of a package's file, or binds __package__, with a statement or as a
   submodule of that name.                                                    *)
PathsApart == \A d, e \in Range(sys_path) : IsPrefix(d, e) => d = e
Reserved == {"__init__", "__package__"}
Ordinary(name) == \A i \in 1..Len(name) : name[i] \notin Reserved
OrdinaryCode(code) ==
  \A i \in 1..Len(code) : /\ code[i][1] = "IMPORT_NAME" => Ordinary(code[i][2])
                          /\ code[i][1] = "IMPORT_FROM" => code[i][2] \notin Reserved
                          /\ code[i] # <<"STORE_GLOBAL", "__package__">>
OrdinaryFiles == \A f \in DOMAIN files : OrdinaryCode(compile(files[f].body))
OrdinaryScript == OrdinaryCode(calls[1].code)

(* What the statements of a body bind when it runs to its end. *)
Bound(s) == CASE s.op = "import" -> {IF s.asname = "" THEN Head(s.name) ELSE s.asname}
              [] s.op = "from"   -> {s.aliases[i][2] : i \in DOMAIN s.aliases}
              [] s.op = "assign" -> {s.target}
              [] OTHER           -> {}
BoundBy(body) == UNION {Bound(body[i]) : i \in DOMAIN body}
Stars(body) == \E i \in DOMAIN body : body[i].op = "star"
BodyOf(m) == files[modules[m].file].body

(* When no import is under way, a loaded submodule is the attribute of its
   package that its name says, unless the package's own body binds that name. *)
SubmodulesBound ==
  Len(calls) = 1 /\ Running =>
    \A n \in DOMAIN sys_modules :
      Len(n) > 1 =>
        LET parent == sys_modules[Parent(n)] IN
        \/ Leaf(n) \in BoundBy(BodyOf(parent)) \/ Stars(BodyOf(parent))
        \/ /\ Leaf(n) \in DOMAIN modules[parent].globals
           /\ modules[parent].globals[Leaf(n)] = Module(sys_modules[n])

(* A module is marked initialized only when its body has run to the end: every
   name the body binds is there, and it is not one that a cycle of imports or a
   failure has left half way.                                                *)
ReadyMeansRun ==
  \A m \in DOMAIN modules \ {1} :
    modules[m].initialized =>
      /\ ~Executing(m)
      /\ BoundBy(BodyOf(m)) \subseteq DOMAIN modules[m].globals

(* Of the errors the code calls internal, the one that can happen is that the
   __package__ a relative import reads is not a string (vm.rs:2997), and it does
   only where the program has bound __package__: the script, a body that was begun,
   or a package by a submodule of that name.  The top of a dotted name that has
   been resolved is in the cache, and the from-opcodes find a module.          *)
PackageRebound ==
  \/ \E i \in 1..Len(calls[1].code) : calls[1].code[i] = <<"STORE_GLOBAL", "__package__">>
  \/ \E m \in DOMAIN modules \ {1} :
       \/ "__package__" \in BoundBy(BodyOf(m))
       \/ Len(modules[m].name) > 1 /\ Leaf(modules[m].name) = "__package__"
NoInternalError ==
  /\ reply # Err("internal")
  /\ reply = Err("NotAString") => PackageRebound

(* Every import ends, whatever the cycles: in a module or in an Err, and never
   in a native stack that runs over.                                         *)
Termination == <>(status \in {"done", "error", "panic"})
=============================================================================
