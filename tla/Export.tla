-------------------------------- MODULE Export --------------------------------
(***************************************************************************)
(* The canonical export of a component: which files of the monorepo make   *)
(* up its mirror, under which names and with which rewritings              *)
(* (.github/package-export-smoke.py, expected_export_tree), and the        *)
(* comparison of a mirror's commit with it (.github/release-provenance.py).*)
(*                                                                         *)
(* A path is the sequence of its names; a tree maps paths to contents: the *)
(* git mode, the text and the rewritings done to it, in order.             *)
(***************************************************************************)
EXTENDS Integers, Sequences, FiniteSets

CONSTANTS
  MapIn(_),       \* the component map a text holds; empty if it holds none
  Anchors(_, _),  \* the rewritings whose anchor occurs exactly once in a text
                  \* that has been rewritten by a sequence of others
  Refused         \* not a tree

Github(name) == <<".github", name>>
Tools(name) == <<"tools", name>>
Native(name) == <<"native", name>>
Copybara(name) == <<"tools", "copybara", name>>
ComponentsFile == Github("components.json")

RustMirrors ==
  {"hop-core", "libhop", "hop-wasm", "hop-store-sqlite", "hop-store-firestore",
   "hop-relayd", "hop-endpoint", "hop-gateway"}
NativeComponents == {"hop-sdk-go", "hop-sdk-apple", "hop-sdk-android", "hop-embedded"}

(* Single files, <<source, destination>>. *)
SharedExports ==
  {<<Tools(f), Github(f)>> :
     f \in {"release-provenance.py", "release-artifact.py", "package-export-smoke.py"}}
    \cup {<<Copybara("components.json"), ComponentsFile>>}
NativeExports ==
  {<<Tools(f), Native(f)>> :
     f \in {"native-artifacts.py", "native-artifacts.schema.json",
            "native-artifacts-public.pem"}}
RustExports == {<<Tools("crates-publish.py"), Github("crates-publish.py")>>}
HeaderExports(c) ==
  CASE c = "hop-sdk-go" -> {<<<<"sdk", "hop.h">>, <<"hop.h">>>>}
    [] c = "hop-sdk-android" -> {<<<<"sdk", "hop.h">>, <<"include", "hop.h">>>>}
    [] c = "hop-sdk-elixir" ->
         {<<Copybara("elixir-native-Cargo.toml"), Native("Cargo.toml")>>,
          <<Copybara("elixir-native-Cargo.lock"), Native("Cargo.lock")>>}
    [] OTHER -> {}
Files(c) ==
  SharedExports \cup HeaderExports(c)
    \cup (IF c \in NativeComponents THEN NativeExports ELSE {})
    \cup (IF c \in RustMirrors THEN RustExports ELSE {})

(* Whole trees, [from, to, without]. *)
ElixirVendor ==
  {[from |-> v[1], to |-> <<"native", "vendor", v[2]>>, without |-> {<<"CLAUDE.md">>}] :
     v \in {<<<<"core", "hop-core">>, "hop-core">>,
            <<<<"core", "hop-endpoint">>, "hop-endpoint-core">>,
            <<<<"core", "stores", "hop-store-sqlite">>, "hop-store-sqlite">>,
            <<<<"core", "hop">>, "libhop">>}}
Subtree(c, entry) ==
  [from |-> entry.prefix, to |-> <<>>,
   without |-> {<<"CLAUDE.md">>} \cup
     (IF c = "hop-sdk-elixir" THEN {<<"native", "hop_endpoint", "Cargo.lock">>} ELSE {})]
Trees(c, entry) ==
  {Subtree(c, entry)} \cup (IF c = "hop-sdk-elixir" THEN ElixirVendor ELSE {})

Under(prefix, path) ==
  Len(path) > Len(prefix) /\ SubSeq(path, 1, Len(prefix)) = prefix
Below(s, t) ==
  {path \in DOMAIN s : Under(t.from, path)}
Relative(t, path) == SubSeq(path, Len(t.from) + 1, Len(path))

(* Every file of the export, <<source, destination>>. *)
Placements(s, c, entry) ==
  Files(c) \cup
  UNION {{<<path, t.to \o Relative(t, path)>> :
            path \in {q \in Below(s, t) : Relative(t, q) \notin t.without}} :
           t \in Trees(c, entry)}

(* The rewritings replace_text does, in order. *)
Preamble(s) == s[Copybara("copy.bara.sky")].text
In(file, kind, with) == [file |-> file, kind |-> kind, with |-> with]
Rewritings(s, c, entry) ==
  (CASE c = "hop-sdk-elixir" ->
          <<In(<<"native", "hop_endpoint", "Cargo.toml">>, "path", "vendored libhop")>>
     [] c = "hop-sdk-go" -> <<In(<<"hop.go">>, "cgo", "pkg-config")>>
     [] OTHER -> <<>>)
  \o (IF entry.rename = "" THEN <<>> ELSE <<In(<<"Cargo.toml">>, "rename", entry.rename)>>)
  \o (IF c \notin RustMirrors THEN <<>>
      ELSE <<In(<<"Cargo.toml">>, "preamble", Preamble(s)),
             In(<<"Cargo.toml">>, "repository", c)>>)
EditsOf(rewritings, path) == SelectSeq(rewritings, LAMBDA r : r.file = path)

Exportable(s, c, entry) ==
  LET placed == Placements(s, c, entry)
      rewritings == Rewritings(s, c, entry)
  IN
    /\ \A t \in Trees(c, entry) : Below(s, t) # {}
    /\ \A p \in placed : p[1] \in DOMAIN s
    /\ \A p, q \in placed : p[2] = q[2] => p = q
    /\ \A i \in DOMAIN rewritings : \E p \in placed :
         /\ p[2] = rewritings[i].file
         /\ rewritings[i] \in
              Anchors(s[p[1]].text, EditsOf(SubSeq(rewritings, 1, i - 1), p[2]))

(* expected_export_tree under the component map m. *)
ExpectedTree(s, c, m) ==
  IF c \notin DOMAIN m THEN Refused
  ELSE IF ~Exportable(s, c, m[c]) THEN Refused
  ELSE LET placed == Placements(s, c, m[c])
           origin(path) == CHOOSE f \in DOMAIN s : <<f, path>> \in placed
       IN [path \in {p[2] : p \in placed} |->
             [s[origin(path)] EXCEPT !.edits = EditsOf(Rewritings(s, c, m[c]), path)]]

(* The map a tree carries, and the export under the monorepo's own. *)
MapAt(tree, path) == IF path \in DOMAIN tree THEN MapIn(tree[path].text) ELSE <<>>
Canonical(s, c) == ExpectedTree(s, c, MapAt(s, Copybara("components.json")))

(* What release-provenance.py accepts as the mirror's commit: it takes the *)
(* map from the mirror, the transformation and everything else from the    *)
(* monorepo, and compares all paths, modes and contents (compare_trees).   *)
CompareTrees(expected, actual) == expected = actual
Accepts(s, c, mirror) ==
  LET expected == ExpectedTree(s, c, MapAt(mirror, ComponentsFile)) IN
    expected # Refused /\ CompareTrees(expected, mirror)
=============================================================================
