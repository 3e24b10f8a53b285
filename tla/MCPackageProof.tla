---------------------------- MODULE MCPackageProof ----------------------------
(* PackageProof on a small monorepo: two components' subtrees, the files    *)
(* shared with every mirror and two maps of components.                     *)
EXTENDS PackageProof

CONSTANTS
  map, othermap, header, oldheader, text,  \* texts
  good, other                              \* builds of libhop

File(t) == [mode |-> "100644", text |-> t, edits |-> <<>>]
Maps == [v \in {map, othermap} |->
  [c \in {Component} |->
     [prefix |-> <<"sdk", IF v = map THEN "android" ELSE "apple">>, rename |-> ""]]]
MCMapIn(v) == IF v \in {map, othermap} THEN Maps[v] ELSE <<>>
MCAnchors(v, done) == {}

Subtrees == {<<"sdk", "android", "README.md">>, <<"sdk", "android", "build-aar.sh">>,
             <<"sdk", "android", "CLAUDE.md">>, <<"sdk", "apple", "README.md">>}
MCSource ==
  [path \in Subtrees \cup {f[1] : f \in Files(Component)} |->
     CASE path = Copybara("components.json") -> File(map)
       [] path = <<"sdk", "hop.h">> -> File(header)
       [] path[Len(path)] = "build-aar.sh" -> [File(text) EXCEPT !.mode = "100755"]
       [] OTHER -> File(text)]

(* The canonical export; the one another map gives, with and without that   *)
(* map; a stale header, an extra file, a missing one and a lost mode.       *)
Export(m) == ExpectedTree(MCSource, Component, Maps[m])
MCMirrors ==
  LET canonical == Export(map) IN
     {canonical, Export(othermap),
      [Export(othermap) EXCEPT ![ComponentsFile].text = othermap],
      [canonical EXCEPT ![ComponentsFile].text = othermap],
      [canonical EXCEPT ![HeaderFile].text = oldheader],
      [path \in DOMAIN canonical \cup {<<"extra">>} |->
         IF path = <<"extra">> THEN File(text) ELSE canonical[path]],
      [path \in DOMAIN canonical \ {<<"README.md">>} |-> canonical[path]],
      [canonical EXCEPT ![BuildScript].mode = "100644"]}

MCScribbles == {HeaderFile, BuildScript}
MCOrder == <<"arm64-v8a", "x86">>
MCMachine == [a \in {"arm64-v8a", "x86"} |-> IF a = "x86" THEN 3 ELSE 183]

Archive(a) == [lib |-> good, machine |-> MCMachine[a], header |-> header,
               holds |-> {"lib", "header"}]
Whole == [a \in DOMAIN MCMachine |-> Archive(a)]
Bundle(entry, disk) ==
  [signed |-> TRUE, complete |-> TRUE, entry |-> entry, disk |-> disk]
Wrong == [Whole EXCEPT !["x86"].machine = 183]
Bare == [Whole EXCEPT !["x86"].holds = {"header"}]
Dated == [Whole EXCEPT !["x86"].header = oldheader]
Old == [a \in DOMAIN MCMachine |-> [Archive(a) EXCEPT !.header = oldheader]]
(* As it should be; unsigned; partial; a file missing or of another build;  *)
(* and, signed, the wrong machine, no library, one header or all outdated.  *)
MCBundles ==
  {Bundle(Whole, Whole),
   [Bundle(Whole, Whole) EXCEPT !.signed = FALSE],
   [Bundle(Whole, Whole) EXCEPT !.complete = FALSE],
   Bundle(Whole, [Whole EXCEPT !["x86"] = None]),
   Bundle(Whole, [Whole EXCEPT !["arm64-v8a"].lib = other])}
  \cup {Bundle(e, e) : e \in {Wrong, Bare, Dated, Old}}
=============================================================================
