---------------------------- MODULE ModuleLoaderMC ----------------------------
(* Instances of ModuleLoader: three modules a, b and c and a submodule s,  *)
(* each file drawn from a few that a directory may hold.                   *)
EXTENDS ModuleLoader

Located == [n \in Name |-> IF n \in Path THEN n ELSE NoPath]

St(op, name, prefix, target, node) ==
  [op |-> op, name |-> name, prefix |-> prefix, target |-> target, node |-> node]
Import(n, p) == St("import", n, p, "n", "n")
Include(n) == St("include", n, NoPrefix, "n", "n")
Has(n) == St("node", "a", NoPrefix, n, n)
Define(n) == St("define", "a", NoPrefix, n, n)
Add(p, target, n) == St("augment", "a", p, target, n)
Broken == St("error", "a", NoPrefix, "n", "n")

Module(n, p, body) ==
  [name |-> n, prefix |-> p, belongs |-> {}, body |-> body, fault |-> "none"]
Submodule(of, body) ==
  [name |-> "s", prefix |-> NoPrefix, belongs |-> {of}, body |-> body, fault |-> "none"]
Faulty(file, f) == [file EXCEPT !.fault = f]

(* The prefix x is one of a's imports, y another; pa, pb, pc are own ones. *)
FilesA ==
  { Module("a", "pa", <<Import("b", "x"), Import("c", "y"), Has("na"), Add("x", "nb", "ab")>>),
    Module("a", "pa", <<Import("b", "x"), Has("na"), Add("x", "nb", "ab"), Add("x", "no", "no")>>),
    Faulty(Module("a", "pa", <<Import("b", "x"), Add("x", "nb", "ab"), Add("pa", "na", "aa"),
                               Has("na")>>), "semantics"),
    Module("a", "pa", <<Include("s"), Import("b", "x"), Has("na"), Define("d")>>),
    Module("a", "pa", <<Import("b", "x"), Include("s"), Has("na"), Define("d")>>) }

FilesB ==
  { Module("b", "pb", <<Has("nb")>>),
    Module("b", "pb", <<Import("c", "x"), Has("nb")>>),
    Module("b", "pb", <<Import("a", "x"), Has("nb")>>),
    Module("b", "pb", <<Has("nb"), Broken>>) }

FilesC ==
  { Module("c", "pc", <<Has("nc")>>),
    Module("c", "pc", <<Import("b", "x"), Has("nc"), Add("x", "nb", "cb")>>),
    Module("c", "pc", <<Import("a", "x"), Has("nc"), Add("x", "na", "ca")>>),
    Module("c", "pc", <<Import("c", "x"), Has("nc")>>),
    Module("c", "pc", <<Import("b", "x"), Has("nc"), Add("x", "ab", "cb")>>),
    Module("c", "pc", <<Import("d", "x"), Has("nc")>>),
    Module("d", "pc", <<Has("nc")>>),
    Faulty(Module("c", "pc", <<Has("nc")>>), "uses") }

FilesS ==
  { Submodule("a", <<Import("c", "x"), Has("ns")>>),
    Submodule("a", <<Import("c", "y"), Import("b", "pa"), Has("ns"), Add("pa", "na", "sa")>>),
    Submodule("a", <<Define("d")>>),
    Submodule("b", <<Has("ns")>>),
    Submodule("a", <<Include("s"), Has("ns")>>) }

Directories ==
  {[p \in Path |-> CASE p = "a" -> fa [] p = "b" -> fb [] p = "c" -> fc [] p = "s" -> fs] :
     fa \in FilesA, fb \in FilesB, fc \in FilesC, fs \in FilesS}

=============================================================================
